------------------------------ MODULE LogProofs ------------------------------
(***************************************************************************)
(* The properties of module Log, for every number of processes and blocks  *)
(* and every size of the log: the invariant and the refinement.            *)
(***************************************************************************)
EXTENDS Log, TLAPS

USE ZenonT(30), SMTT(30)

CommitPlaces == {"write_log", "write_head", "install", "clear", "finish"}

\* What the processes hold: a process in log_write() has one block locked, one it
\* writes; no two lock the same; what an operation has written is in the transaction,
\* or about to be.
OpsInv ==
  /\ buf \in [Procs -> SUBSET Blocks]
  /\ \A p \in Procs : pc[p] # "logw" => buf[p] = {}
  /\ \A p \in Procs : pc[p] = "logw" => \E b \in op[p] : buf[p] = {b}
  /\ \A p, q \in Procs : p # q => buf[p] \cap buf[q] = {}
  /\ \A p \in Procs : pc[p] \notin {"op", "logw"} => op[p] = {}
  /\ \A p \in Procs : op[p] \subseteq Range(lh) \cup buf[p]

\* The blocks of the transaction, counted once for each operation that wrote them.
Shares == {s \in Procs \X Blocks : s[2] \in op[s[1]] /\ s[2] \in Range(lh)}

\* The log has room for what the operations under way may still write.
RoomInv ==
  /\ \A p \in Procs : IsFiniteSet(op[p]) /\ Cardinality(op[p]) <= OpBlocks
  /\ IsFiniteSet(Active) /\ outstanding = Cardinality(Active)
  /\ IsFiniteSet(Shares)
  /\ Active # {} => Len(lh) + outstanding * OpBlocks + 2 <= LOGSIZE + Cardinality(Shares)
  /\ (mode = "run" /\ lh # <<>>) => Active # {} \/ committing
  /\ Len(lh) < nlog

\* One process commits at a time, and no operation is under way then.
CommitterInv ==
  /\ committing <=> \E p \in Procs : pc[p] \in CommitPlaces
  /\ \A p, q \in Procs : pc[p] \in CommitPlaces /\ pc[q] \in CommitPlaces => p = q
  /\ committing => Active = {}
  /\ mode = "recover" => Active = {} /\ ~committing

\* How far the commit, or the recovery, has got.
DiskInv ==
  /\ logged \in [1..nlog-1 -> Vals] /\ tail \in Nat \ {0}
  /\ mode = "run" => dirty \subseteq Range(lh)
  /\ (mode = "run" /\ \A p \in Procs : pc[p] \notin {"install", "clear"}) => head = <<>>
  /\ \A p \in Procs :
       /\ pc[p] \in {"write_log", "write_head", "install"} => tail <= Len(lh)
       /\ pc[p] = "write_log" => \A i \in 1..tail-1 : logged[i] = cache[lh[i]]
       /\ pc[p] = "write_head" => tail = 1
       /\ pc[p] \in {"write_head", "install", "clear"} =>
            \A i \in DOMAIN lh : logged[i] = cache[lh[i]]
       /\ pc[p] \in {"install", "clear"} => head = lh
       /\ pc[p] = "install" => /\ dirty \subseteq {lh[i] : i \in tail..Len(lh)}
                               /\ \A i \in 1..tail-1 : home[lh[i]] = logged[i]
       /\ pc[p] = "clear" => dirty = {} /\ \A i \in DOMAIN lh : home[lh[i]] = logged[i]
       /\ pc[p] = "finish" => lh = <<>>
  /\ mode = "recover" =>
       /\ head = lh /\ cache = home /\ dirty = {} /\ tail <= Len(lh) + 1
       /\ \A i \in 1..tail-1 : home[lh[i]] = logged[i]

LInv == LogSound /\ OpsInv /\ RoomInv /\ CommitterInv /\ DiskInv
-----------------------------------------------------------------------------
(***************************************************************************)
(* The commit, a crash and recovery keep the invariant.                    *)
(***************************************************************************)

LEMMA EmptySet == IsFiniteSet({}) /\ Cardinality({}) = 0
<1>1. IsFiniteSet({})
  <2>1. <<>> \in Seq({})
    BY SMTT(30)
  <2>2. QED
    BY <2>1 DEF IsFiniteSet
<1>2. Cardinality({}) = 0
  BY DEF Cardinality
<1>3. QED
  BY <1>1, <1>2

\* With no operation under way there is room.
LEMMA RoomEmpty ==
  ASSUME \A p \in Procs : op'[p] = {}, Active' = {}, outstanding' = 0, Len(lh') < nlog,
         mode' = "run" /\ lh' # <<>> => committing'
  PROVE  RoomInv'
<1>1. Shares' = {}
  BY DEF Shares
<1>2. 0 <= OpBlocks
  BY LogAssumption, SMTT(30)
<1>3. QED
  BY <1>1, <1>2, EmptySet DEF RoomInv

\* A step that leaves Active, op and the transaction alone leaves the room in the log.
LEMMA RoomKept ==
  ASSUME RoomInv, Active' = Active, Active = {}, UNCHANGED <<op, lh, outstanding>>,
         mode' = "run" /\ lh # <<>> => committing'
  PROVE  RoomInv'
<1>1. Shares' = Shares
  BY DEF Shares
<1>2. QED
  BY <1>1 DEF RoomInv

\* While p commits, nobody is in an operation and nobody else commits.
LEMMA CommitAlone ==
  ASSUME LInv, NEW p \in Procs, pc[p] \in CommitPlaces
  PROVE  /\ committing /\ Active = {} /\ outstanding = 0
         /\ \A q \in Procs : buf[q] = {} /\ op[q] = {} /\ pc[q] \notin {"op", "logw"}
         /\ \A q \in Procs \ {p} : pc[q] \notin CommitPlaces
<1>1. committing /\ Active = {} /\ \A q \in Procs \ {p} : pc[q] \notin CommitPlaces
  BY DEF LInv, CommitterInv
<1>2. outstanding = 0
  BY <1>1, EmptySet DEF LInv, RoomInv
<1>3. \A q \in Procs : pc[q] \notin {"op", "logw"}
  BY <1>1 DEF Active
<1>4. \A q \in Procs : buf[q] = {} /\ op[q] = {}
  BY <1>3 DEF LInv, OpsInv
<1>5. QED
  BY <1>1, <1>2, <1>3, <1>4

\* The parts of the invariant that a step of the committing process cannot disturb.
LEMMA CommitterStays ==
  ASSUME LInv, NEW p \in Procs, pc[p] \in CommitPlaces,
         NEW place \in CommitPlaces, pc' = [pc EXCEPT ![p] = place], mode = "run",
         UNCHANGED <<lh, outstanding, committing, op, buf, mode>>
  PROVE  /\ OpsInv' /\ RoomInv' /\ CommitterInv' /\ Active' = {}
         /\ pc' \in [Procs -> Places] /\ pc'[p] = place
         /\ \A q \in Procs \ {p} : pc'[q] \notin CommitPlaces
<1>1. /\ committing /\ Active = {} /\ outstanding = 0
      /\ \A q \in Procs : buf[q] = {} /\ op[q] = {} /\ pc[q] \notin {"op", "logw"}
      /\ \A q \in Procs \ {p} : pc[q] \notin CommitPlaces
  BY CommitAlone
<1>2. pc \in [Procs -> Places] /\ place \in Places /\ place \notin {"op", "logw"}
  BY DEF LInv, LogSound, TypeOK, CommitPlaces, Places
<1>3. pc' \in [Procs -> Places] /\ pc'[p] = place /\ \A q \in Procs \ {p} : pc'[q] = pc[q]
  BY <1>2
<1>4. Active' = {} /\ Active' = Active
  BY <1>1, <1>2, <1>3 DEF Active
<1>5. OpsInv'
  BY <1>1, <1>2, <1>3, SMTT(30) DEF LInv, OpsInv
<1>6. RoomInv'
  BY <1>1, <1>4, RoomKept DEF LInv
<1>7. CommitterInv'
  BY <1>1, <1>3, <1>4 DEF LInv, CommitterInv
<1>8. QED
  BY <1>1, <1>3, <1>4, <1>5, <1>6, <1>7

LEMMA write_logStep ==
  ASSUME LInv, NEW p \in Procs, write_log(p)
  PROVE  LInv'
<1>1. TypeOK /\ DiskInv /\ CleanMatchesHome /\ Len(lh) < nlog
  BY DEF LInv, LogSound, RoomInv
<1>2. /\ mode = "run" /\ pc[p] = "write_log" /\ logged' = [logged EXCEPT ![tail] = cache[lh[tail]]]
      /\ UNCHANGED <<home, head, cache, dirty, lh, outstanding, committing, op, buf, mode>>
  BY DEF write_log, At, memVars
<1>3. pc[p] \in CommitPlaces
  BY <1>2 DEF CommitPlaces
<1>4. \A q \in Procs \ {p} : pc[q] \notin CommitPlaces
  BY <1>3, CommitAlone
<1>5. /\ tail \in Nat \ {0} /\ tail <= Len(lh)
      /\ Len(lh) \in Nat /\ nlog \in Nat /\ DOMAIN lh = 1..Len(lh)
  BY <1>1, <1>2, LogAssumption, SMTT(30) DEF DiskInv, TypeOK
<1>6. logged' \in [1..nlog-1 -> Vals] /\ \A i \in 1..tail : logged'[i] = cache[lh[i]]
  <2>1. cache[lh[tail]] \in Vals /\ tail \in 1..nlog-1
    BY <1>1, <1>5, SMTT(30) DEF TypeOK
  <2>2. \A i \in 1..tail-1 : logged[i] = cache[lh[i]]
    BY <1>1, <1>2 DEF DiskInv
  <2>3. QED
    BY <1>1, <1>2, <1>5, <2>1, <2>2, SMTT(30) DEF DiskInv
<1>7. head = <<>>
  BY <1>1, <1>2, <1>4 DEF DiskInv, CommitPlaces
<1>8. CASE tail = Len(lh)
  <2>1. tail' = 1 /\ pc' = [pc EXCEPT ![p] = "write_head"]
    BY <1>8 DEF write_log, Goto
  <2>2. /\ OpsInv' /\ RoomInv' /\ CommitterInv'
        /\ pc' \in [Procs -> Places] /\ pc'[p] = "write_head"
        /\ \A q \in Procs \ {p} : pc'[q] \notin CommitPlaces
    BY <1>2, <1>3, <2>1, CommitterStays DEF CommitPlaces
  <2>3. LogSound'
    BY <1>1, <1>2, <1>6, <2>2 DEF LogSound, TypeOK, CleanMatchesHome, Locked, LogSuffices
  <2>4. DiskInv'
    <3>1. tail' \in Nat \ {0} /\ tail' <= Len(lh')
      BY <1>2, <1>5, <2>1, SMTT(30)
    <3>2. \A i \in DOMAIN lh' : logged'[i] = cache'[lh'[i]]
      BY <1>2, <1>5, <1>6, <1>8
    <3>3. dirty' \subseteq Range(lh') /\ head' = <<>> /\ mode' # "recover"
      BY <1>1, <1>2, <1>7 DEF DiskInv
    <3>4. \A q \in Procs : pc'[q] \notin CommitPlaces \/ pc'[q] = "write_head"
      BY <2>2
    <3>5. QED
      BY <1>6, <2>1, <3>1, <3>2, <3>3, <3>4 DEF DiskInv, CommitPlaces
  <2>5. QED
    BY <2>2, <2>3, <2>4 DEF LInv
<1>9. CASE tail # Len(lh)
  <2>1. tail' = tail + 1 /\ pc' = pc
    BY <1>9 DEF write_log
  <2>2. pc' = [pc EXCEPT ![p] = "write_log"]
    BY <1>1, <1>2, <2>1 DEF TypeOK
  <2>3. /\ OpsInv' /\ RoomInv' /\ CommitterInv'
        /\ pc' \in [Procs -> Places] /\ pc'[p] = "write_log"
        /\ \A q \in Procs \ {p} : pc'[q] \notin CommitPlaces
    BY <1>2, <1>3, <2>2, CommitterStays DEF CommitPlaces
  <2>4. LogSound'
    BY <1>1, <1>2, <1>6, <2>3 DEF LogSound, TypeOK, CleanMatchesHome, Locked, LogSuffices
  <2>5. tail' \in Nat \ {0} /\ tail' <= Len(lh) /\ tail' - 1 = tail
    <3>1. tail' = tail + 1 /\ tail # Len(lh)
      BY <1>9, <2>1
    <3>2. tail \in Nat /\ tail <= Len(lh) /\ Len(lh) \in Nat
      BY <1>5
    <3> QED
      BY <3>1, <3>2, SMTT(30)
  <2>6. DiskInv'
    <3>1. \A i \in 1..tail'-1 : logged'[i] = cache'[lh'[i]]
      BY <1>2, <1>6, <2>5
    <3>2. dirty' \subseteq Range(lh') /\ head' = <<>> /\ mode' # "recover" /\ tail' <= Len(lh')
      BY <1>1, <1>2, <1>7, <2>5 DEF DiskInv
    <3>3. \A q \in Procs : pc'[q] \notin CommitPlaces \/ pc'[q] = "write_log"
      BY <2>3
    <3>4. QED
      BY <1>6, <2>5, <3>1, <3>2, <3>3 DEF DiskInv, CommitPlaces
  <2>7. QED
    BY <2>3, <2>4, <2>6 DEF LInv
<1>10. QED
  BY <1>8, <1>9

LEMMA write_headStep ==
  ASSUME LInv, NEW p \in Procs, write_head(p)
  PROVE  LInv'
<1>1. TypeOK /\ DiskInv /\ CleanMatchesHome
  BY DEF LInv, LogSound
<1>2. /\ mode = "run" /\ pc[p] = "write_head" /\ head' = lh /\ pc' = [pc EXCEPT ![p] = "install"]
      /\ UNCHANGED <<home, logged, cache, dirty, lh, outstanding, committing, op, buf, tail, mode>>
  BY DEF write_head, At, Goto, memVars
<1>3. /\ OpsInv' /\ RoomInv' /\ CommitterInv'
      /\ pc' \in [Procs -> Places] /\ pc'[p] = "install"
      /\ \A q \in Procs \ {p} : pc'[q] \notin CommitPlaces
  BY <1>2, CommitterStays DEF CommitPlaces
<1>4. LogSound'
  BY <1>1, <1>2, <1>3 DEF LogSound, TypeOK, CleanMatchesHome, Locked, LogSuffices
<1>5. DiskInv'
  <2>1. tail = 1 /\ \A i \in DOMAIN lh : logged[i] = cache[lh[i]]
    BY <1>1, <1>2 DEF DiskInv
  <2>2. dirty \subseteq {lh[i] : i \in tail..Len(lh)}
    BY <1>1, <1>2, <2>1, SMTT(30) DEF DiskInv, Range, TypeOK
  <2>3. \A i \in 1..tail-1 : home[lh[i]] = logged[i]
    BY <2>1, SMTT(30)
  <2>4. tail <= Len(lh)
    BY <1>1, <1>2 DEF DiskInv
  <2>5. QED
    BY <1>1, <1>2, <1>3, <2>1, <2>2, <2>3, <2>4, SMTT(30) DEF DiskInv, CommitPlaces
<1>6. QED
  BY <1>3, <1>4, <1>5 DEF LInv

\* Installing a block of the log: its home gets what the log has for it, and no other
\* block of the transaction is touched.
LEMMA Installed ==
  ASSUME TypeOK, logged \in [1..nlog-1 -> Vals], Len(lh) < nlog, InstallBlock,
         NEW i \in DOMAIN lh, i = tail
  PROVE  /\ home' \in [Blocks -> Vals] /\ cache' \in [Blocks -> Vals]
         /\ home'[lh[i]] = logged[i] /\ cache'[lh[i]] = logged[i]
         /\ \A b \in Blocks \ {lh[i]} : home'[b] = home[b] /\ cache'[b] = cache[b]
         /\ \A j \in DOMAIN lh \ {i} : lh[j] \in Blocks \ {lh[i]}
<1>1. lh[i] \in Blocks /\ i \in 1..nlog-1 /\ \A j \in DOMAIN lh : lh[j] \in Blocks
  BY LogAssumption, SMTT(30) DEF TypeOK
<1>2. logged[i] \in Vals
  BY <1>1
<1>3. /\ home' = [home EXCEPT ![lh[i]] = logged[i]] /\ cache' = [cache EXCEPT ![lh[i]] = logged[i]]
  BY DEF InstallBlock
<1>4. \A j \in DOMAIN lh \ {i} : lh[j] # lh[i]
  BY DEF TypeOK, IsInjective
<1>5. QED
  BY <1>1, <1>2, <1>3, <1>4, SMTT(30) DEF TypeOK

LEMMA install_transStep ==
  ASSUME LInv, NEW p \in Procs, install_trans(p)
  PROVE  LInv'
<1>1. TypeOK /\ DiskInv /\ CleanMatchesHome /\ Len(lh) < nlog
  BY DEF LInv, LogSound, RoomInv
<1>2. /\ mode = "run" /\ pc[p] = "install" /\ InstallBlock
      /\ UNCHANGED <<logged, head, lh, outstanding, committing, op, buf, mode>>
  BY DEF install_trans, At
<1>3. pc[p] \in CommitPlaces
  BY <1>2 DEF CommitPlaces
<1>4. \A q \in Procs \ {p} : pc[q] \notin CommitPlaces
  BY <1>3, CommitAlone
<1>5. /\ tail \in DOMAIN lh /\ DOMAIN lh = 1..Len(lh) /\ Len(lh) \in Nat
      /\ \A i \in DOMAIN lh : logged[i] = cache[lh[i]]
      /\ head = lh /\ dirty \subseteq {lh[i] : i \in tail..Len(lh)}
      /\ \A i \in 1..tail-1 : home[lh[i]] = logged[i]
  BY <1>1, <1>2, SMTT(30) DEF DiskInv, TypeOK
<1>6. /\ home' \in [Blocks -> Vals] /\ cache' \in [Blocks -> Vals]
      /\ home'[lh[tail]] = logged[tail] /\ cache'[lh[tail]] = logged[tail]
      /\ \A b \in Blocks \ {lh[tail]} : home'[b] = home[b] /\ cache'[b] = cache[b]
      /\ \A j \in DOMAIN lh \ {tail} : lh[j] \in Blocks \ {lh[tail]}
  BY <1>1, <1>2, <1>5, Installed DEF DiskInv
<1>7. dirty' = dirty \ {lh[tail]}
  BY <1>2 DEF InstallBlock
<1>8. CleanMatchesHome'
  <2> SUFFICES ASSUME NEW b \in Blocks, b \notin dirty', ~Locked(b)
               PROVE  cache'[b] = home'[b]
    BY <1>2 DEF CleanMatchesHome, Locked
  <2>1. CASE b = lh[tail]
    BY <1>6, <2>1
  <2>2. CASE b # lh[tail]
    BY <1>1, <1>2, <1>6, <1>7, <2>2 DEF CleanMatchesHome
  <2>3. QED
    BY <2>1, <2>2
<1>9. \A i \in DOMAIN lh : logged[i] = cache'[lh[i]]
  BY <1>5, <1>6
<1>10. \A i \in 1..tail : home'[lh[i]] = logged[i]
  BY <1>5, <1>6, SMTT(30)
<1>11. dirty' \subseteq {lh[i] : i \in tail+1..Len(lh)}
  BY <1>5, <1>7, SMTT(30)
<1>12. dirty' \subseteq Blocks /\ dirty' \subseteq Range(lh)
  BY <1>1, <1>2, <1>7 DEF TypeOK, DiskInv
<1>13. CASE tail = Len(lh)
  <2>1. tail' = 1 /\ pc' = [pc EXCEPT ![p] = "clear"]
    BY <1>13 DEF install_trans, Goto
  <2>2. /\ OpsInv' /\ RoomInv' /\ CommitterInv'
        /\ pc' \in [Procs -> Places] /\ pc'[p] = "clear"
        /\ \A q \in Procs \ {p} : pc'[q] \notin CommitPlaces
    BY <1>2, <1>3, <2>1, CommitterStays DEF CommitPlaces
  <2>3. LogSound'
    BY <1>1, <1>2, <1>6, <1>8, <1>12, <2>2, SMTT(30) DEF LogSound, TypeOK, LogSuffices
  <2>4. DiskInv'
    <3>1. dirty' = {}
      BY <1>5, <1>11, <1>13, SMTT(30)
    <3>2. \A i \in DOMAIN lh : home'[lh[i]] = logged[i]
      BY <1>5, <1>10, <1>13
    <3>3. \A q \in Procs : pc'[q] \notin CommitPlaces \/ pc'[q] = "clear"
      BY <2>2
    <3>4. mode' # "recover" /\ head' = lh' /\ logged' \in [1..nlog-1 -> Vals] /\ lh' = lh /\ logged' = logged
      BY <1>1, <1>2, <1>5 DEF DiskInv
    <3>5. QED
      BY <1>9, <1>12, <2>1, <2>2, <3>1, <3>2, <3>3, <3>4, SMTT(30) DEF DiskInv, CommitPlaces
  <2>5. QED
    BY <2>2, <2>3, <2>4 DEF LInv
<1>14. CASE tail # Len(lh)
  <2>1. tail' = tail + 1 /\ pc' = pc
    BY <1>14 DEF install_trans
  <2>2. pc' = [pc EXCEPT ![p] = "install"]
    BY <1>1, <1>2, <2>1 DEF TypeOK
  <2>3. /\ OpsInv' /\ RoomInv' /\ CommitterInv'
        /\ pc' \in [Procs -> Places] /\ pc'[p] = "install"
        /\ \A q \in Procs \ {p} : pc'[q] \notin CommitPlaces
    BY <1>2, <1>3, <2>2, CommitterStays DEF CommitPlaces
  <2>4. LogSound'
    BY <1>1, <1>2, <1>6, <1>8, <1>12, <2>3 DEF LogSound, TypeOK, LogSuffices
  <2>5. tail' \in Nat \ {0} /\ tail' <= Len(lh) /\ tail' - 1 = tail
    BY <1>5, <1>14, <2>1, SMTT(30)
  <2>6. DiskInv'
    <3>1. dirty' \subseteq {lh[i] : i \in tail'..Len(lh)}
      BY <1>11, <2>1
    <3>2. \A i \in 1..tail'-1 : home'[lh[i]] = logged[i]
      BY <1>10, <2>5
    <3>3. \A q \in Procs : /\ pc'[q] # "write_log" /\ pc'[q] # "write_head" /\ pc'[q] # "clear"
                           /\ pc'[q] # "finish"
      BY <2>3 DEF CommitPlaces
    <3>4. mode' # "recover" /\ head' = lh' /\ logged' \in [1..nlog-1 -> Vals] /\ lh' = lh /\ logged' = logged
      BY <1>1, <1>2, <1>5, SMTT(30) DEF DiskInv
    <3>5. (mode = "run" /\ \A q \in Procs : pc'[q] \notin {"install", "clear"}) => FALSE
      BY <2>3
    <3>6. \A q \in Procs :
            /\ pc'[q] \in {"write_log", "write_head", "install"} => tail' <= Len(lh')
            /\ pc'[q] \in {"write_head", "install", "clear"} =>
                 \A i \in DOMAIN lh' : logged'[i] = cache'[lh'[i]]
            /\ pc'[q] \in {"install", "clear"} => head' = lh'
            /\ pc'[q] = "install" => /\ dirty' \subseteq {lh'[i] : i \in tail'..Len(lh')}
                                     /\ \A i \in 1..tail'-1 : home'[lh'[i]] = logged'[i]
      BY <1>9, <2>5, <3>1, <3>2, <3>4
    <3>7. QED
      BY <1>2, <1>12, <2>5, <3>3, <3>4, <3>5, <3>6 DEF DiskInv
  <2>7. QED
    BY <2>3, <2>4, <2>6 DEF LInv
<1>15. QED
  BY <1>13, <1>14

LEMMA ClearLogStep ==
  ASSUME LInv, NEW p \in Procs, ClearLog(p)
  PROVE  LInv'
<1>1. TypeOK /\ DiskInv /\ CleanMatchesHome /\ OpsInv /\ RoomInv
  BY DEF LInv, LogSound
<1>2. /\ mode = "run" /\ pc[p] = "clear" /\ lh' = <<>> /\ head' = <<>>
      /\ pc' = [pc EXCEPT ![p] = "finish"]
      /\ UNCHANGED <<home, logged, cache, dirty, outstanding, committing, op, buf, tail, mode>>
  BY DEF ClearLog, At, Goto
<1>3. pc[p] \in CommitPlaces
  BY <1>2 DEF CommitPlaces
<1>4. /\ committing /\ Active = {} /\ outstanding = 0
      /\ \A q \in Procs : buf[q] = {} /\ op[q] = {} /\ pc[q] \notin {"op", "logw"}
      /\ \A q \in Procs \ {p} : pc[q] \notin CommitPlaces
  BY <1>3, CommitAlone
<1>5. /\ pc' \in [Procs -> Places] /\ pc'[p] = "finish"
      /\ \A q \in Procs \ {p} : pc'[q] = pc[q]
  BY <1>1, <1>2 DEF TypeOK, Places
<1>6. /\ lh' \in Seq(Blocks) /\ head' \in Seq(Blocks) /\ Len(lh') = 0 /\ IsInjective(lh')
      /\ Range(lh') = {}
  BY <1>2, SMTT(30) DEF IsInjective, Range
<1>7. LogSound'
  BY <1>1, <1>2, <1>5, <1>6, LogAssumption, SMTT(30)
  DEF LogSound, TypeOK, CleanMatchesHome, Locked, LogSuffices
<1>8. OpsInv'
  BY <1>1, <1>2, <1>4, <1>5, SMTT(30) DEF OpsInv
<1>9. Active' = {}
  BY <1>4, <1>5 DEF Active
<1>10. RoomInv'
  <2>1. Len(lh') < nlog
    BY <1>2, LogAssumption, SMTT(30)
  <2>2. QED
    BY <1>2, <1>4, <1>9, <2>1, RoomEmpty
<1>11. CommitterInv'
  BY <1>2, <1>4, <1>5, <1>9 DEF CommitterInv, CommitPlaces
<1>12. DiskInv'
  <2>1. dirty = {}
    BY <1>1, <1>2 DEF DiskInv
  <2>2. \A q \in Procs : pc'[q] \notin CommitPlaces \/ pc'[q] = "finish"
    BY <1>4, <1>5
  <2>3. QED
    BY <1>1, <1>2, <1>6, <2>1, <2>2 DEF DiskInv, CommitPlaces
<1>13. QED
  BY <1>7, <1>8, <1>10, <1>11, <1>12 DEF LInv

LEMMA FinishStep ==
  ASSUME LInv, NEW p \in Procs, Finish(p)
  PROVE  LInv'
<1>1. TypeOK /\ DiskInv /\ CleanMatchesHome /\ OpsInv /\ RoomInv
  BY SMTT(30) DEF LInv, LogSound
<1>2. /\ mode = "run" /\ pc[p] = "finish" /\ committing' = FALSE
      /\ UNCHANGED <<home, logged, head, cache, dirty, lh, outstanding, op, buf, tail, mode>>
  BY DEF Finish, At, diskVars, memVars
<1>3. pc[p] \in CommitPlaces
  BY <1>2 DEF CommitPlaces
<1>4. /\ committing /\ Active = {} /\ outstanding = 0
      /\ \A q \in Procs : buf[q] = {} /\ op[q] = {} /\ pc[q] \notin {"op", "logw"}
      /\ \A q \in Procs \ {p} : pc[q] \notin CommitPlaces
  BY <1>3, CommitAlone, SMTT(30)
<1>5. pc' \in [Procs -> Places] /\ \A q \in Procs : pc'[q] \notin CommitPlaces \cup {"op", "logw"}
  <2>1. WakeupGoto(p, "idle")
    BY DEF Finish
  <2>2. QED
    BY <1>1, <1>4, <2>1 DEF WakeupGoto, TypeOK, Places, CommitPlaces
<1>6. LogSound'
  BY <1>1, <1>2, <1>5 DEF LogSound, TypeOK, CleanMatchesHome, Locked, LogSuffices
<1>7. OpsInv'
  BY <1>1, <1>2, <1>4, <1>5 DEF OpsInv
<1>8. Active' = {}
  BY <1>5 DEF Active
<1>9. lh = <<>>
  BY <1>1, <1>2 DEF DiskInv
<1>10. RoomInv'
  BY <1>1, <1>2, <1>4, <1>8, <1>9, RoomKept
<1>11. CommitterInv'
  BY <1>2, <1>5, <1>8 DEF CommitterInv
<1>12. DiskInv'
  <2>1. head = <<>>
    BY <1>1, <1>2, <1>4 DEF DiskInv, CommitPlaces
  <2>2. QED
    BY <1>1, <1>2, <1>5, <2>1 DEF DiskInv, CommitPlaces
<1>13. QED
  BY <1>6, <1>7, <1>10, <1>11, <1>12, SMTT(30) DEF LInv

LEMMA EvictStep ==
  ASSUME LInv, NEW b \in Blocks, Evict(b)
  PROVE  LInv'
<1>1. /\ b \notin dirty /\ ~Locked(b) /\ mode = "run" /\ cache' = [cache EXCEPT ![b] = home[b]]
      /\ UNCHANGED <<home, logged, head, dirty, lh, outstanding, committing, pc, op, buf, tail, mode>>
  BY DEF Evict, diskVars
<1>2. cache[b] = home[b] /\ cache \in [Blocks -> Vals]
  BY <1>1 DEF LInv, LogSound, CleanMatchesHome, TypeOK
<1>3. cache' = cache
  BY <1>1, <1>2
<1>4. Active' = Active /\ Shares' = Shares
  BY <1>1 DEF Active, Shares
<1>5. LogSound' /\ OpsInv'
  BY <1>1, <1>3, SMTT(30) DEF LInv, LogSound, TypeOK, CleanMatchesHome, Locked, LogSuffices, OpsInv
<1>6. RoomInv' /\ CommitterInv'
  BY <1>1, <1>3, <1>4 DEF LInv, RoomInv, CommitterInv
<1>7. DiskInv'
  BY <1>1, <1>3, SMTT(30) DEF LInv, DiskInv
<1>8. QED
  BY <1>5, <1>6, <1>7 DEF LInv

LEMMA StutterStep ==
  ASSUME LInv, UNCHANGED vars
  PROVE  LInv'
<1>1. Active' = Active /\ Shares' = Shares
  BY DEF vars, Active, Shares
<1>2. LogSound' /\ OpsInv'
  BY DEF vars, LInv, LogSound, TypeOK, CleanMatchesHome, Locked, LogSuffices, OpsInv
<1>3. RoomInv' /\ CommitterInv'
  BY <1>1 DEF vars, LInv, RoomInv, CommitterInv
<1>4. DiskInv'
  BY SMTT(30) DEF vars, LInv, DiskInv
<1>5. QED
  BY <1>2, <1>3, <1>4 DEF LInv

LEMMA CrashStep ==
  ASSUME LInv, Crash
  PROVE  LInv'
<1>1. TypeOK /\ DiskInv /\ CommitterInv /\ RoomInv
  BY DEF LInv, LogSound
<1>2. /\ mode' = "recover" /\ lh' = head /\ cache' = home /\ dirty' = {} /\ outstanding' = 0
      /\ committing' = FALSE /\ pc' = [p \in Procs |-> "idle"] /\ op' = [p \in Procs |-> {}]
      /\ buf' = [p \in Procs |-> {}] /\ tail' = 1 /\ UNCHANGED <<home, logged, head>>
  BY DEF Crash, diskVars
<1>3. head = <<>> \/ head = lh
  <2>1. mode \in {"run", "recover"}
    BY DEF LInv, LogSound, LogSuffices, TypeOK
  <2>2. QED
    BY <1>1, <2>1 DEF DiskInv
<1>4. /\ head \in Seq(Blocks) /\ IsInjective(head) /\ Len(head) <= LOGSIZE /\ Len(head) < nlog
      /\ Len(head) \in Nat
  <2>1. CASE head = <<>>
    BY <2>1, LogAssumption, SMTT(30) DEF IsInjective
  <2>2. CASE head = lh
    BY <1>1, <2>2, SMTT(30) DEF TypeOK, RoomInv
  <2>3. QED
    BY <1>3, <2>1, <2>2
<1>5. LogSound'
  BY <1>1, <1>2, <1>4 DEF LogSound, TypeOK, CleanMatchesHome, LogSuffices, Places
<1>6. OpsInv'
  BY <1>2 DEF OpsInv
<1>7. Active' = {}
  BY <1>2 DEF Active
<1>8. RoomInv'
  BY <1>2, <1>4, <1>7, RoomEmpty
<1>9. CommitterInv'
  BY <1>2, <1>7 DEF CommitterInv, CommitPlaces
<1>10. DiskInv'
  BY <1>1, <1>2, <1>4, SMTT(30) DEF DiskInv
<1>11. QED
  BY <1>5, <1>6, <1>8, <1>9, <1>10, SMTT(30) DEF LInv

LEMMA recover_from_logStep ==
  ASSUME LInv, recover_from_log
  PROVE  LInv'
<1>1. TypeOK /\ OpsInv /\ RoomInv /\ DiskInv /\ CommitterInv
  BY DEF LInv, LogSound
<1>2. /\ mode = "recover" /\ UNCHANGED <<logged, outstanding, committing, pc, op, buf>>
  BY DEF recover_from_log
<1>3. /\ head = lh /\ cache = home /\ dirty = {} /\ tail \in Nat \ {0} /\ tail <= Len(lh) + 1
      /\ DOMAIN lh = 1..Len(lh) /\ Len(lh) \in Nat /\ Active = {} /\ ~committing
  BY <1>1, <1>2, SMTT(30) DEF DiskInv, TypeOK, CommitterInv
<1>4. \A i \in 1..tail-1 : home[lh[i]] = logged[i]
  BY <1>1, <1>2 DEF DiskInv
<1>5. /\ Active' = Active
      /\ \A q \in Procs : /\ pc[q] \notin CommitPlaces /\ pc[q] \notin {"op", "logw"}
                          /\ op[q] = {} /\ buf[q] = {}
  BY <1>1, <1>2, <1>3 DEF Active, CommitterInv, OpsInv
<1>6. CASE tail <= Len(lh) /\ InstallBlock /\ tail' = tail + 1 /\ UNCHANGED <<head, lh, mode>>
  <2>1. tail \in DOMAIN lh
    BY <1>3, <1>6, SMTT(30)
  <2>2. /\ home' \in [Blocks -> Vals] /\ cache' \in [Blocks -> Vals]
        /\ home'[lh[tail]] = logged[tail] /\ cache'[lh[tail]] = logged[tail]
        /\ \A b \in Blocks \ {lh[tail]} : home'[b] = home[b] /\ cache'[b] = cache[b]
        /\ \A j \in DOMAIN lh \ {tail} : lh[j] \in Blocks \ {lh[tail]}
    BY <1>1, <1>6, <2>1, Installed DEF DiskInv, RoomInv
  <2>3. cache' = home'
    BY <1>3, <2>2, SMTT(30)
  <2>4. dirty' = {}
    BY <1>3, <1>6 DEF InstallBlock
  <2>5. \A i \in 1..tail : home'[lh[i]] = logged[i]
    BY <1>3, <1>4, <1>6, <2>1, <2>2, SMTT(30)
  <2>6. LogSound'
    BY <1>1, <1>2, <1>6, <2>2, <2>4 DEF LogSound, TypeOK, CleanMatchesHome, LogSuffices
  <2>7. OpsInv' /\ CommitterInv'
    BY <1>1, <1>2, <1>5, <1>6 DEF OpsInv, CommitterInv
  <2>8. RoomInv'
    BY <1>1, <1>2, <1>3, <1>5, <1>6, RoomKept, SMTT(30)
  <2>9. DiskInv'
    <3>1. tail' \in Nat \ {0} /\ tail' <= Len(lh) + 1 /\ tail' - 1 = tail
      BY <1>3, <1>6, SMTT(30)
    <3>2. \A i \in 1..tail'-1 : home'[lh[i]] = logged[i]
      BY <2>5, <3>1
    <3>3. /\ logged' \in [1..nlog-1 -> Vals] /\ mode' = "recover" /\ lh' = lh /\ head' = lh
          /\ logged' = logged
      BY <1>1, <1>2, <1>3, <1>6 DEF DiskInv
    <3>4. \A q \in Procs : pc'[q] \notin CommitPlaces
      BY <1>2, <1>5
    <3>5. QED
      BY <2>3, <2>4, <3>1, <3>2, <3>3, <3>4 DEF DiskInv, CommitPlaces
  <2>10. QED
    BY <2>6, <2>7, <2>8, <2>9 DEF LInv
<1>7. CASE /\ tail > Len(lh) /\ lh' = <<>> /\ head' = <<>> /\ tail' = 1 /\ mode' = "run"
           /\ UNCHANGED <<home, cache, dirty>>
  <2>1. /\ lh' \in Seq(Blocks) /\ head' \in Seq(Blocks) /\ Len(lh') = 0 /\ IsInjective(lh')
        /\ Range(lh') = {}
    BY <1>7, SMTT(30) DEF IsInjective, Range
  <2>2. LogSound'
    BY <1>1, <1>2, <1>3, <1>7, <2>1, LogAssumption, SMTT(30)
    DEF LogSound, TypeOK, CleanMatchesHome, LogSuffices
  <2>3. OpsInv' /\ CommitterInv'
    BY <1>1, <1>2, <1>5, <1>7 DEF OpsInv, CommitterInv
  <2>4. outstanding' = 0 /\ Len(lh') < nlog
    BY <1>1, <1>2, <1>3, <1>7, <2>1, EmptySet, LogAssumption, SMTT(30) DEF RoomInv
  <2>5. RoomInv'
    BY <1>2, <1>3, <1>5, <1>7, <2>1, <2>4, RoomEmpty
  <2>6. DiskInv'
    <3>1. \A q \in Procs : pc'[q] \notin CommitPlaces
      BY <1>2, <1>5, SMTT(30)
    <3>2. logged' \in [1..nlog-1 -> Vals] /\ dirty' = {}
      BY <1>1, <1>2, <1>3, <1>7 DEF DiskInv
    <3>3. QED
      BY <1>7, <2>1, <3>1, <3>2, SMTT(30) DEF DiskInv, CommitPlaces
  <2>7. QED
    BY <2>2, <2>3, <2>5, <2>6, SMTT(30) DEF LInv
<1>8. QED
  BY <1>6, <1>7 DEF recover_from_log

LEMMA InitLInv ==
  ASSUME Init
  PROVE  LInv
<1>1. TypeOK
  <2>1. lh \in Seq(Blocks) /\ head \in Seq(Blocks) /\ Len(lh) = 0 /\ IsInjective(lh)
    BY SMTT(30) DEF Init, IsInjective
  <2>2. /\ home \in [Blocks -> Vals] /\ cache \in [Blocks -> Vals] /\ dirty \subseteq Blocks
        /\ pc \in [Procs -> Places] /\ op \in [Procs -> SUBSET Blocks]
        /\ DOMAIN logged = 1..nlog-1
    BY LogAssumption DEF Init, Places
  <2>3. outstanding \in Nat /\ committing \in BOOLEAN /\ mode \in {"run", "recover", "panic"}
    BY DEF Init
  <2>4. QED
    BY <2>1, <2>2, <2>3, LogAssumption, SMTT(30) DEF TypeOK
<1>2. CleanMatchesHome /\ LogSuffices /\ OpsInv
  BY DEF Init, CleanMatchesHome, LogSuffices, OpsInv
<1>3. Active = {} /\ Shares = {}
  BY DEF Init, Active, Shares
<1>4. RoomInv
  BY <1>3, EmptySet, LogAssumption, SMTT(30) DEF Init, RoomInv
<1>5. CommitterInv
  BY <1>3 DEF Init, CommitterInv, CommitPlaces
<1>6. DiskInv
  BY LogAssumption, SMTT(30) DEF Init, DiskInv
<1>7. QED
  BY <1>1, <1>2, <1>4, <1>5, <1>6 DEF LInv, LogSound

-----------------------------------------------------------------------------
(***************************************************************************)
(* Each step of the log is a step of AtomicDisk, or changes none of its state. *)
(***************************************************************************)

\* What recovery makes of a header, log blocks and home blocks.
RecoveredFrom(hd, lg, hm) ==
  [b \in Blocks |-> IF \E i \in DOMAIN hd : hd[i] = b
                    THEN lg[CHOOSE i \in DOMAIN hd : hd[i] = b]
                    ELSE hm[b]]

\* An empty header: recovery changes nothing.
LEMMA RecoveredEmpty ==
  ASSUME NEW lg, NEW hm \in [Blocks -> Vals]
  PROVE  RecoveredFrom(<<>>, lg, hm) = hm
<1>1. DOMAIN (<<>>) = {}
  BY SMTT(30)
<1>2. \A b \in Blocks : RecoveredFrom(<<>>, lg, hm)[b] = hm[b]
  BY <1>1 DEF RecoveredFrom
<1>3. QED
  BY <1>2 DEF RecoveredFrom

\* A function agrees with what recovery makes of the disk if it agrees with the log where
\* the header lists a block and with the home blocks elsewhere.
LEMMA RecoveredListed ==
  ASSUME NEW hd \in Seq(Blocks), IsInjective(hd), NEW lg, NEW hm, NEW f \in [Blocks -> Vals],
         \A i \in DOMAIN hd : f[hd[i]] = lg[i],
         \A b \in Blocks \ Range(hd) : f[b] = hm[b]
  PROVE  RecoveredFrom(hd, lg, hm) = f
<1>1. ASSUME NEW b \in Blocks PROVE RecoveredFrom(hd, lg, hm)[b] = f[b]
  <2>1. CASE \E i \in DOMAIN hd : hd[i] = b
    <3> DEFINE j == CHOOSE i \in DOMAIN hd : hd[i] = b
    <3>1. j \in DOMAIN hd /\ hd[j] = b
      BY <2>1
    <3>2. RecoveredFrom(hd, lg, hm)[b] = lg[j]
      BY <2>1 DEF RecoveredFrom
    <3> HIDE DEF j
    <3>3. QED
      BY <3>1, <3>2
  <2>2. CASE ~\E i \in DOMAIN hd : hd[i] = b
    <3>1. b \notin Range(hd)
      BY <2>2 DEF Range
    <3>2. RecoveredFrom(hd, lg, hm)[b] = hm[b]
      BY <2>2 DEF RecoveredFrom
    <3>3. QED
      BY <3>1, <3>2
  <2>3. QED
    BY <2>1, <2>2
<1>2. QED
  BY <1>1, SMTT(30) DEF RecoveredFrom

\* The home of a listed block does not matter.
LEMMA RecoveredSame ==
  ASSUME NEW hd, NEW lg, NEW hm, NEW hn, \A b \in Blocks \ Range(hd) : hn[b] = hm[b]
  PROVE  RecoveredFrom(hd, lg, hn) = RecoveredFrom(hd, lg, hm)
<1>1. \A b \in Blocks : ~(\E i \in DOMAIN hd : hd[i] = b) => hn[b] = hm[b]
  BY DEF Range
<1>2. QED
  BY <1>1 DEF RecoveredFrom

\* The blocks as operations see them.
Current == IF mode = "recover" THEN Recovered ELSE cache
AbstractVars == <<Recovered, Current, Active>>

LEMMA RecoveredDef ==
  /\ Recovered = RecoveredFrom(head, logged, home)
  /\ Recovered' = RecoveredFrom(head', logged', home')
  BY DEF Recovered, RecoveredFrom

\* An operation starts, in begin_op().
LEMMA BeginsOrStays ==
  ASSUME LInv, NEW p \in Procs, Call(p) \/ begin_op(p)
  PROVE  UNCHANGED AbstractVars \/ Abstract!Begin(p)
<1>1. pc \in [Procs -> Places]
  BY DEF LInv, LogSound, TypeOK
<1>2. pc[p] \in {"idle", "begin"} /\ UNCHANGED <<home, logged, head, cache, mode>>
  BY DEF Call, begin_op, At, diskVars, memVars
<1>3. UNCHANGED Recovered /\ UNCHANGED Current
  BY <1>2 DEF Recovered, Current
<1>4. pc' = [pc EXCEPT ![p] = "begin"] \/ pc' = [pc EXCEPT ![p] = "asleep"]
      \/ pc' = [pc EXCEPT ![p] = "op"]
  BY DEF Call, begin_op, Goto
<1>5. (Active' = Active \/ Active' = Active \cup {p}) /\ p \notin Active
  BY <1>1, <1>2, <1>4 DEF Active
<1>6. QED
  BY <1>3, <1>5 DEF AbstractVars, Abstract!Begin, Current

\* An operation writes a block.
LEMMA WritesBlock ==
  ASSUME LInv, LInv', NEW p \in Procs, NEW b \in Blocks, NEW v \in Vals, Modify(p, b, v)
  PROVE  Abstract!Write(p, b, v)
<1>1. TypeOK /\ mode' # "panic"
  BY DEF LInv, LogSound, LogSuffices
<1>2. /\ mode = "run" /\ pc[p] = "op" /\ cache' = [cache EXCEPT ![b] = v]
      /\ UNCHANGED <<home, logged, head>>
  BY DEF Modify, At, diskVars
<1>3. pc' = [pc EXCEPT ![p] = "logw"] /\ mode' = mode
  BY <1>1 DEF Modify, Goto
<1>4. Active' = Active /\ p \in Active
  BY <1>1, <1>2, <1>3 DEF Active, TypeOK
<1>5. UNCHANGED Recovered
  BY <1>2 DEF Recovered
<1>6. Current = cache /\ Current' = cache'
  BY <1>2, <1>3 DEF Current
<1>7. QED
  BY <1>2, <1>4, <1>5, <1>6 DEF Abstract!Write, Current

\* An operation ends, in end_op().
LEMMA EndsOperation ==
  ASSUME LInv, LInv', NEW p \in Procs, end_op(p)
  PROVE  Abstract!End(p)
<1>1. TypeOK /\ CommitterInv
  BY DEF LInv, LogSound
<1>2. mode = "run" /\ pc[p] = "op" /\ p \in Active /\ UNCHANGED <<home, logged, head, cache>>
  BY DEF end_op, At, Active, diskVars, memVars
<1>3. ~committing
  BY <1>1, <1>2 DEF CommitterInv
<1>4. mode' = mode /\ ( \/ pc' = [pc EXCEPT ![p] = "finish"] \/ pc' = [pc EXCEPT ![p] = "write_log"]
                        \/ WakeupGoto(p, "idle"))
  BY <1>3 DEF end_op, Goto
<1>5. Active' = Active \ {p}
  BY <1>1, <1>4 DEF Active, WakeupGoto, TypeOK
<1>6. UNCHANGED Recovered
  BY <1>2 DEF Recovered
<1>7. UNCHANGED Current
  BY <1>2, <1>4, <1>6 DEF Current
<1>8. QED
  BY <1>2, <1>5, <1>6, <1>7 DEF Abstract!End, Current

\* Steps of the log that nobody outside it sees.
LEMMA LogsUnseen ==
  ASSUME LInv, LInv', NEW p \in Procs, log_write(p) \/ write_log(p) \/ Finish(p)
  PROVE  UNCHANGED AbstractVars
<1>1. TypeOK /\ DiskInv
  BY DEF LInv, LogSound
<1>2. UNCHANGED <<home, head, cache, mode>> /\ mode = "run"
  BY DEF log_write, write_log, Finish, At, diskVars, memVars
<1>3. UNCHANGED Recovered
  <2>1. CASE log_write(p) \/ Finish(p)
    BY <1>2, <2>1 DEF log_write, Finish, diskVars, Recovered
  <2>2. CASE write_log(p)
    <3>1. pc[p] = "write_log"
      BY <2>2 DEF write_log, At
    <3>2. \A q \in Procs \ {p} : pc[q] \notin CommitPlaces
      BY <3>1, CommitAlone DEF CommitPlaces
    <3>3. head = <<>>
      BY <1>1, <1>2, <3>1, <3>2 DEF DiskInv, CommitPlaces
    <3>4. Recovered = home /\ Recovered' = home
      BY <1>1, <1>2, <3>3, RecoveredDef, RecoveredEmpty DEF TypeOK
    <3>5. QED
      BY <3>4
  <2>3. QED
    BY <2>1, <2>2
<1>4. Active' = Active
  <2>1. CASE log_write(p)
    BY <1>1, <2>1 DEF log_write, At, Goto, Active, TypeOK
  <2>2. CASE write_log(p)
    BY <1>1, <2>2 DEF write_log, At, Goto, Active, TypeOK
  <2>3. CASE Finish(p)
    BY <1>1, <2>3 DEF Finish, At, WakeupGoto, Active, TypeOK
  <2>4. QED
    BY <2>1, <2>2, <2>3
<1>5. QED
  BY <1>2, <1>3, <1>4 DEF AbstractVars, Current

\* The write of the header commits every operation that has ended, at once.
LEMMA HeaderCommits ==
  ASSUME LInv, LInv', NEW p \in Procs, write_head(p)
  PROVE  Abstract!Commit
<1>1. TypeOK /\ DiskInv /\ CleanMatchesHome
  BY DEF LInv, LogSound
<1>2. /\ mode = "run" /\ pc[p] = "write_head" /\ head' = lh /\ pc' = [pc EXCEPT ![p] = "install"]
      /\ UNCHANGED <<home, logged, cache, dirty, lh, mode>>
  BY DEF write_head, At, Goto, memVars
<1>3. Active = {} /\ \A q \in Procs : buf[q] = {}
  BY <1>2, CommitAlone DEF CommitPlaces
<1>4. Active' = Active
  BY <1>1, <1>2 DEF Active, TypeOK
<1>5. \A b \in Blocks \ Range(lh) : cache[b] = home[b]
  BY <1>1, <1>2, <1>3 DEF DiskInv, CleanMatchesHome, Locked
<1>6. \A i \in DOMAIN lh : cache[lh[i]] = logged[i]
  BY <1>1, <1>2 DEF DiskInv
<1>7. RecoveredFrom(lh, logged, home) = cache
  <2>1. lh \in Seq(Blocks) /\ IsInjective(lh) /\ cache \in [Blocks -> Vals]
    BY <1>1 DEF TypeOK
  <2>2. QED
    BY <1>5, <1>6, <2>1, RecoveredListed, SMTT(30)
<1>8. Recovered' = cache
  BY <1>2, <1>7, RecoveredDef
<1>9. Current = cache /\ Current' = cache
  BY <1>2 DEF Current
<1>10. QED
  BY <1>3, <1>4, <1>8, <1>9 DEF Abstract!Commit, Current

\* Installing a block of the log leaves what recovery would make of the disk.
LEMMA InstallUnseen ==
  ASSUME LInv, InstallBlock, tail \in DOMAIN lh, head = lh, UNCHANGED <<logged, head>>
  PROVE  UNCHANGED Recovered
<1>1. TypeOK /\ DiskInv /\ Len(lh) < nlog
  BY DEF LInv, LogSound, RoomInv
<1>2. /\ \A b \in Blocks \ {lh[tail]} : home'[b] = home[b]
      /\ lh \in Seq(Blocks) /\ IsInjective(lh)
  BY <1>1, Installed, SMTT(30) DEF DiskInv, TypeOK
<1>3. lh[tail] \in Range(lh)
  BY DEF Range
<1>4. \A b \in Blocks \ Range(lh) : home'[b] = home[b]
  BY <1>2, <1>3
<1>5. RecoveredFrom(lh, logged, home') = RecoveredFrom(lh, logged, home)
  BY <1>4, RecoveredSame, SMTT(30)
<1>6. QED
  BY <1>5, RecoveredDef

LEMMA CommitterUnseen ==
  ASSUME LInv, LInv', NEW p \in Procs, install_trans(p) \/ ClearLog(p)
  PROVE  UNCHANGED AbstractVars
<1>1. TypeOK /\ DiskInv /\ DiskInv'
  BY DEF LInv, LogSound
<1>2. mode = "run" /\ mode' = "run" /\ pc[p] \in {"install", "clear"}
  BY DEF install_trans, ClearLog, At
<1>3. Active' = Active
  BY <1>1, <1>2 DEF install_trans, ClearLog, Goto, Active, TypeOK
<1>4. CASE install_trans(p)
  <2>1. InstallBlock /\ UNCHANGED <<logged, head>> /\ pc[p] = "install"
    BY <1>4 DEF install_trans, At
  <2>2. tail \in DOMAIN lh /\ head = lh /\ \A i \in DOMAIN lh : logged[i] = cache[lh[i]]
    BY <1>1, <2>1, SMTT(30) DEF DiskInv, TypeOK
  <2>3. UNCHANGED Recovered
    BY <2>1, <2>2, InstallUnseen
  <2>4. cache' = cache
    <3>1. cache' = [cache EXCEPT ![lh[tail]] = logged[tail]] /\ logged[tail] = cache[lh[tail]]
      BY <2>1, <2>2 DEF InstallBlock
    <3>2. cache \in [Blocks -> Vals]
      BY <1>1 DEF TypeOK
    <3>3. QED
      BY <3>1, <3>2
  <2>5. QED
    BY <1>2, <1>3, <2>3, <2>4 DEF AbstractVars, Current
<1>5. CASE ClearLog(p)
  <2>1. pc[p] = "clear" /\ head' = <<>> /\ UNCHANGED <<home, cache>>
    BY <1>5 DEF ClearLog, At
  <2>2. head = lh /\ \A i \in DOMAIN lh : home[lh[i]] = logged[i]
    BY <1>1, <2>1 DEF DiskInv
  <2>3. lh \in Seq(Blocks) /\ IsInjective(lh) /\ home \in [Blocks -> Vals]
    BY <1>1 DEF TypeOK
  <2>4. Recovered = home
    BY <2>2, <2>3, RecoveredListed, RecoveredDef, SMTT(30)
  <2>5. Recovered' = home
    BY <1>1, <2>1, RecoveredDef, RecoveredEmpty DEF TypeOK
  <2>6. QED
    BY <1>2, <1>3, <2>1, <2>4, <2>5 DEF AbstractVars, Current
<1>6. QED
  BY <1>4, <1>5

\* A crash loses what was not committed, and nothing else.
LEMMA CrashLoses ==
  ASSUME LInv, Crash
  PROVE  Abstract!Crash
<1>1. /\ mode' = "recover" /\ pc' = [p \in Procs |-> "idle"] /\ UNCHANGED <<home, logged, head>>
  BY DEF Crash, diskVars
<1>2. UNCHANGED Recovered
  BY <1>1 DEF Recovered
<1>3. Active' = {}
  BY <1>1 DEF Active
<1>4. Current' = Recovered'
  BY <1>1 DEF Current
<1>5. QED
  BY <1>2, <1>3, <1>4 DEF Abstract!Crash, Current

\* Recovery, interrupted or not, is not seen.
LEMMA RecoveryUnseen ==
  ASSUME LInv, LInv', recover_from_log
  PROVE  UNCHANGED AbstractVars
<1>1. TypeOK /\ DiskInv
  BY DEF LInv, LogSound
<1>2. /\ mode = "recover" /\ UNCHANGED <<logged, pc>>
  BY DEF recover_from_log
<1>3. /\ head = lh /\ cache = home /\ tail \in Nat \ {0} /\ DOMAIN lh = 1..Len(lh) /\ Len(lh) \in Nat
      /\ \A i \in 1..tail-1 : home[lh[i]] = logged[i]
  BY <1>1, <1>2, SMTT(30) DEF DiskInv, TypeOK
<1>4. Active' = Active
  BY <1>2 DEF Active
<1>5. CASE tail <= Len(lh) /\ InstallBlock /\ UNCHANGED <<head, lh, mode>>
  <2>1. tail \in DOMAIN lh
    BY <1>3, <1>5, SMTT(30)
  <2>2. UNCHANGED Recovered
    BY <1>2, <1>3, <1>5, <2>1, InstallUnseen
  <2>3. QED
    BY <1>2, <1>4, <1>5, <2>2 DEF AbstractVars, Current
<1>6. CASE tail > Len(lh) /\ head' = <<>> /\ mode' = "run" /\ UNCHANGED <<home, cache>>
  <2>1. \A i \in DOMAIN lh : home[lh[i]] = logged[i]
    BY <1>3, <1>6, SMTT(30)
  <2>2. lh \in Seq(Blocks) /\ IsInjective(lh) /\ home \in [Blocks -> Vals]
    BY <1>1 DEF TypeOK
  <2>3. Recovered = home
    BY <1>3, <2>1, <2>2, RecoveredListed, RecoveredDef, SMTT(30)
  <2>4. Recovered' = home
    BY <1>6, <2>2, RecoveredDef, RecoveredEmpty
  <2>5. Current = home /\ Current' = home
    BY <1>2, <1>3, <1>6, <2>3 DEF Current
  <2>6. QED
    BY <1>4, <2>3, <2>4, <2>5 DEF AbstractVars
<1>7. QED
  BY <1>5, <1>6 DEF recover_from_log

LEMMA EvictUnseen ==
  ASSUME LInv, NEW b \in Blocks, Evict(b)
  PROVE  UNCHANGED AbstractVars
<1>1. /\ b \notin dirty /\ ~Locked(b) /\ mode = "run" /\ cache' = [cache EXCEPT ![b] = home[b]]
      /\ UNCHANGED <<home, logged, head, pc, mode>>
  BY DEF Evict, diskVars
<1>2. cache[b] = home[b] /\ cache \in [Blocks -> Vals]
  BY <1>1 DEF LInv, LogSound, CleanMatchesHome, TypeOK
<1>3. cache' = cache
  BY <1>1, <1>2
<1>4. UNCHANGED Recovered /\ UNCHANGED Active
  BY <1>1 DEF Recovered, Active
<1>5. QED
  BY <1>1, <1>3, <1>4 DEF AbstractVars, Current

\* Every step of the log is a step of AtomicDisk, or is not seen.
LEMMA AtomicStep ==
  ASSUME LInv, LInv', [Next]_vars
  PROVE  Abstract!Next \/ UNCHANGED AbstractVars
<1>1. CASE UNCHANGED vars
  BY <1>1 DEF vars, AbstractVars, Recovered, Current, Active
<1>2. ASSUME NEW p \in Procs, Call(p) \/ Step(p) \/ end_op(p)
      PROVE  Abstract!Next \/ UNCHANGED AbstractVars
  <2>1. CASE Call(p) \/ begin_op(p)
    BY <2>1, BeginsOrStays DEF Abstract!Next
  <2>2. CASE log_write(p) \/ write_log(p) \/ Finish(p)
    BY <2>2, LogsUnseen
  <2>3. CASE write_head(p)
    BY <2>3, HeaderCommits DEF Abstract!Next
  <2>4. CASE install_trans(p) \/ ClearLog(p)
    BY <2>4, CommitterUnseen
  <2>5. CASE end_op(p)
    BY <2>5, EndsOperation DEF Abstract!Next
  <2>6. QED
    BY <1>2, <2>1, <2>2, <2>3, <2>4, <2>5, SMTT(30) DEF Step
<1>3. ASSUME NEW p \in Procs, NEW b \in Blocks, NEW v \in Vals, Modify(p, b, v)
      PROVE  Abstract!Next \/ UNCHANGED AbstractVars
  BY <1>3, WritesBlock DEF Abstract!Next
<1>4. ASSUME NEW b \in Blocks, Evict(b) PROVE UNCHANGED AbstractVars
  BY <1>4, EvictUnseen
<1>5. CASE Crash
  BY <1>5, CrashLoses DEF Abstract!Next
<1>6. CASE recover_from_log
  BY <1>6, RecoveryUnseen
<1>7. QED
  BY <1>1, <1>2, <1>3, <1>4, <1>5, <1>6 DEF Next

\* The log and AtomicDisk start alike.
LEMMA AtomicInit ==
  ASSUME Init
  PROVE  Abstract!Init
<1>1. Recovered = home
  BY LogAssumption, RecoveredDef, RecoveredEmpty, SMTT(30) DEF Init
<1>2. Active = {}
  BY DEF Init, Active
<1>3. QED
  BY <1>1, <1>2 DEF Init, Abstract!Init
-----------------------------------------------------------------------------
(***************************************************************************)
(* Lemmas about sequences, multiplication and finite sets.                 *)
(***************************************************************************)

INSTANCE FiniteSetTheorems

\* Adding a block that is not listed to the transaction.
LEMMA AppendRange ==
  ASSUME NEW S, NEW s \in Seq(S), NEW e \in S, IsInjective(s), e \notin Range(s)
  PROVE  /\ Append(s, e) \in Seq(S) /\ Len(Append(s, e)) = Len(s) + 1
         /\ Range(Append(s, e)) = Range(s) \cup {e} /\ IsInjective(Append(s, e))
<1>1. /\ Append(s, e) \in Seq(S) /\ Len(Append(s, e)) = Len(s) + 1
      /\ \A i \in 1..Len(s) : Append(s, e)[i] = s[i]
      /\ Append(s, e)[Len(s) + 1] = e
  BY SMTT(30)
<1>2. /\ DOMAIN s = 1..Len(s) /\ DOMAIN Append(s, e) = 1..Len(s) + 1 /\ Len(s) \in Nat
  BY <1>1, SMTT(30)
<1>3. Range(Append(s, e)) = Range(s) \cup {e}
  BY <1>1, <1>2, SMTT(30) DEF Range
<1>4. IsInjective(Append(s, e))
  <2> SUFFICES ASSUME NEW a \in 1..Len(s) + 1, NEW b \in 1..Len(s) + 1,
                      Append(s, e)[a] = Append(s, e)[b]
               PROVE  a = b
    BY <1>2 DEF IsInjective
  <2>1. \A i \in 1..Len(s) : s[i] # e
    BY <1>2 DEF Range
  <2>2. QED
    BY <1>1, <1>2, <2>1, SMTT(30) DEF IsInjective
<1>5. QED
  BY <1>1, <1>3, <1>4

\* Each of n operations keeps one block less than was reckoned with.
LEMMA Product ==
  ASSUME NEW n \in Nat, NEW a \in Nat, NEW c \in Nat, a < c
  PROVE  n * a \in Nat /\ n * c \in Nat /\ n * a + n <= n * c /\ (n + 1) * a = n * a + a
  BY SMTT(30)

\* A finite set of at most n elements can be numbered from 1 to n.
LEMMA Numbering ==
  ASSUME NEW S, IsFiniteSet(S), NEW n \in Nat, Cardinality(S) <= n
  PROVE  \E g \in [S -> 1..n] : \A x, y \in S : g[x] = g[y] => x = y
<1>1. Cardinality(S) \in Nat /\ ExistsBijection(1..Cardinality(S), S)
  BY FS_CardinalityType
<1>2. PICK h \in [1..Cardinality(S) -> S] : \A x \in S : \E i \in 1..Cardinality(S) : h[i] = x
  BY <1>1 DEF ExistsBijection, Bijection, Surjection, Injection
<1> DEFINE g == [x \in S |-> CHOOSE i \in 1..Cardinality(S) : h[i] = x]
<1>3. \A x \in S : g[x] \in 1..Cardinality(S) /\ h[g[x]] = x
  BY <1>2
<1>4. g \in [S -> 1..n]
  BY <1>1, <1>3, SMTT(30)
<1>5. \A x, y \in S : g[x] = g[y] => x = y
  BY <1>3
<1>6. QED
  BY <1>4, <1>5

\* A set of pairs with at most n of them for each first component.
LEMMA Columns ==
  ASSUME NEW A, IsFiniteSet(A), NEW F, NEW n \in Nat,
         \A a \in A : IsFiniteSet(F[a]) /\ Cardinality(F[a]) <= n,
         NEW P, \A x \in P : x = <<x[1], x[2]>> /\ x[1] \in A /\ x[2] \in F[x[1]]
  PROVE  IsFiniteSet(P) /\ Cardinality(P) <= Cardinality(A) * n
<1> DEFINE G(a) == {g \in [F[a] -> 1..n] : \A x, y \in F[a] : g[x] = g[y] => x = y}
           g(a) == CHOOSE h \in G(a) : TRUE
           f == [x \in P |-> <<x[1], g(x[1])[x[2]]>>]
<1>1. \A a \in A : g(a) \in G(a)
  BY Numbering, SMTT(30)
<1>2. f \in [P -> A \X (1..n)]
  BY <1>1, SMTT(30)
<1>3. ASSUME NEW x \in P, NEW y \in P, f[x] = f[y] PROVE x = y
  <2> DEFINE u == g(x[1])[x[2]]
             v == g(y[1])[y[2]]
  <2>0. <<x[1], u>> = <<y[1], v>>
    BY <1>3
  <2> HIDE DEF u, v
  <2>1. x[1] = y[1] /\ u = v
    BY <2>0
  <2>2. x[2] = y[2]
    BY <1>1, <2>1, SMTT(30) DEF u, v
  <2>3. x = <<x[1], x[2]>> /\ y = <<y[1], y[2]>>
    OBVIOUS
  <2>4. QED
    BY <2>1, <2>2, <2>3
<1>4. f \in Injection(P, A \X (1..n))
  BY <1>2, <1>3 DEF Injection, IsInjective
<1>5. IsFiniteSet(1..n) /\ Cardinality(1..n) = n
  BY FS_Interval, SMTT(30)
<1>6. IsFiniteSet(A \X (1..n)) /\ Cardinality(A \X (1..n)) = Cardinality(A) * n
  BY <1>5, FS_Product, SMTT(30)
<1>7. QED
  BY <1>4, <1>6, FS_Injection, SMTT(30)

-----------------------------------------------------------------------------
(***************************************************************************)
(* Operations keep the invariant.                                          *)
(***************************************************************************)

\* While an operation is under way the transaction leaves a log block, and log_write()
\* finds it.
LEMMA RoomLeft ==
  ASSUME TypeOK, OpsInv, RoomInv, Active # {}
  PROVE  Len(lh) + 2 <= LOGSIZE
<1>1. \A x \in Shares : x = <<x[1], x[2]>> /\ x[1] \in Active /\ x[2] \in op[x[1]]
  BY SMTT(30) DEF Shares, Active, OpsInv
<1>2. \A a \in Active : IsFiniteSet(op[a]) /\ Cardinality(op[a]) <= OpBlocks
  BY DEF Active, RoomInv
<1>3. IsFiniteSet(Active) /\ outstanding = Cardinality(Active)
  BY DEF RoomInv
<1>4. OpBlocks \in Nat /\ LOGSIZE \in Nat /\ Len(lh) \in Nat /\ outstanding \in Nat
  BY LogAssumption, SMTT(30) DEF TypeOK
<1>5. IsFiniteSet(Shares) /\ Cardinality(Shares) <= outstanding * OpBlocks
  BY <1>1, <1>2, <1>3, <1>4, Columns
<1>6. Cardinality(Shares) \in Nat
  BY <1>5, FS_CardinalityType
<1>7. Len(lh) + outstanding * OpBlocks + 2 <= LOGSIZE + Cardinality(Shares)
  BY DEF RoomInv
<1>8. outstanding * OpBlocks \in Nat
  BY <1>4, SMTT(30)
<1>9. QED
  BY <1>4, <1>5, <1>6, <1>7, <1>8, SMTT(30)

\* A step in or before begin_op(): only pc changes, and not for who is in an operation.
LEMMA WaitStep ==
  ASSUME LInv, pc' \in [Procs -> Places],
         \A q \in Procs : pc'[q] = pc[q] \/ {pc[q], pc'[q]} \subseteq {"idle", "begin", "asleep"},
         UNCHANGED <<diskVars, memVars, outstanding, committing, op, buf, tail, mode>>
  PROVE  LInv'
<1> USE DEF diskVars, memVars
<1>1. /\ \A q \in Procs, c \in CommitPlaces \cup {"op", "logw"} : pc'[q] = c <=> pc[q] = c
  BY DEF CommitPlaces
<1>2. Active' = Active /\ Shares' = Shares
  BY <1>1 DEF Active, Shares
<1>3. LogSound' /\ OpsInv'
  BY <1>1, SMTT(30) DEF LInv, LogSound, TypeOK, CleanMatchesHome, Locked, LogSuffices, OpsInv
<1>4. RoomInv' /\ CommitterInv'
  BY <1>1, <1>2, SMTT(30) DEF LInv, RoomInv, CommitterInv, CommitPlaces
<1>5. DiskInv'
  BY <1>1, SMTT(30) DEF LInv, DiskInv, CommitPlaces
<1>6. QED
  BY <1>3, <1>4, <1>5 DEF LInv

LEMMA CallStep ==
  ASSUME LInv, NEW p \in Procs, Call(p)
  PROVE  LInv'
<1>1. pc \in [Procs -> Places]
  BY DEF LInv, LogSound, TypeOK
<1>2. pc[p] = "idle" /\ pc' = [pc EXCEPT ![p] = "begin"]
  BY DEF Call, At, Goto
<1>3. QED
  BY <1>1, <1>2, WaitStep DEF Call, Places

LEMMA begin_opStep ==
  ASSUME LInv, NEW p \in Procs, begin_op(p)
  PROVE  LInv'
<1>1. TypeOK
  BY DEF LInv, LogSound
<1>2. CASE committing \/ WouldExhaust
  <2>1. pc[p] = "begin" /\ pc' = [pc EXCEPT ![p] = "asleep"] /\ UNCHANGED outstanding
    BY <1>2 DEF begin_op, At, Goto
  <2>2. QED
    BY <1>1, <2>1, WaitStep, SMTT(30) DEF begin_op, Places, TypeOK
<1>3. CASE ~committing /\ ~WouldExhaust
  <2>1. /\ mode = "run" /\ pc[p] = "begin" /\ pc' = [pc EXCEPT ![p] = "op"]
        /\ outstanding' = outstanding + 1
        /\ UNCHANGED <<home, logged, head, cache, dirty, lh, committing, op, buf, tail, mode>>
    BY <1>3 DEF begin_op, At, Goto, diskVars, memVars
  <2>2. Active' = Active \cup {p} /\ p \notin Active /\ Shares' = Shares
    BY <1>1, <2>1 DEF Active, Shares, TypeOK
  <2>3. LogSound' /\ OpsInv'
    BY <1>1, <2>1, SMTT(30) DEF LInv, LogSound, TypeOK, CleanMatchesHome, Locked, LogSuffices, OpsInv,
       Places
  <2>4. IsFiniteSet(Active') /\ outstanding' = Cardinality(Active')
    BY <2>1, <2>2, FS_AddElement, FS_CardinalityType DEF LInv, RoomInv
  <2>5. Len(lh) + (outstanding + 1) * OpBlocks + 2 <= LOGSIZE + Cardinality(Shares)
    <3>1. Len(lh) + (outstanding + 1) * MAXOPBLOCKS <= LOGSIZE
      BY <1>1, <1>3, LogAssumption, SMTT(30) DEF WouldExhaust, TypeOK
    <3>2. Cardinality(Shares) \in Nat
      BY FS_CardinalityType DEF LInv, RoomInv
    <3>3. (outstanding + 1) * OpBlocks + (outstanding + 1) <= (outstanding + 1) * MAXOPBLOCKS
      BY <1>1, LogAssumption, Product, SMTT(30) DEF TypeOK
    <3>4. /\ (outstanding + 1) * OpBlocks \in Nat /\ (outstanding + 1) * MAXOPBLOCKS \in Nat
          /\ Len(lh) \in Nat /\ outstanding \in Nat
      BY <1>1, LogAssumption, SMTT(30) DEF TypeOK
    <3>5. CASE outstanding > 0
      BY <3>1, <3>2, <3>3, <3>4, <3>5, LogAssumption, SMTT(30)
    <3>6. CASE outstanding = 0
      <4>1. Active = {} /\ lh = <<>>
        BY <1>3, <2>1, <3>6, FS_EmptySet DEF LInv, RoomInv
      <4>2. (outstanding + 1) * OpBlocks = OpBlocks
        BY <3>6, LogAssumption, SMTT(30)
      <4>3. QED
        BY <3>2, <4>1, <4>2, LogAssumption, SMTT(30)
    <3>7. QED
      BY <3>4, <3>5, <3>6, SMTT(30)
  <2>6. RoomInv'
    BY <2>1, <2>2, <2>4, <2>5 DEF LInv, RoomInv
  <2>7. CommitterInv'
    BY <1>1, <1>3, <2>1, <2>2 DEF LInv, CommitterInv, CommitPlaces, TypeOK
  <2>8. DiskInv'
    BY <1>1, <2>1, SMTT(30) DEF LInv, DiskInv, TypeOK
  <2>9. QED
    BY <2>3, <2>6, <2>7, <2>8, SMTT(30) DEF LInv
<1>4. QED
  BY <1>2, <1>3

LEMMA ModifyStep ==
  ASSUME LInv, NEW p \in Procs, NEW b \in Blocks, NEW v \in Vals, Modify(p, b, v)
  PROVE  LInv'
<1>1. TypeOK /\ OpsInv /\ RoomInv
  BY DEF LInv, LogSound
<1>2. mode = "run" /\ pc[p] = "op" /\ ~Locked(b) /\ Cardinality(op[p] \cup {b}) <= OpBlocks
  BY DEF Modify, At
<1>3. p \in Active
  BY <1>2 DEF Active
<1>4. Len(lh) + 2 <= LOGSIZE
  BY <1>1, <1>3, RoomLeft
<1>5. ~(Len(lh) >= LOGSIZE \/ Len(lh) >= nlog - 1)
  BY <1>1, <1>4, LogAssumption, SMTT(30) DEF TypeOK
<1>6. /\ cache' = [cache EXCEPT ![b] = v] /\ op' = [op EXCEPT ![p] = @ \cup {b}]
      /\ pc' = [pc EXCEPT ![p] = "logw"] /\ buf' = [buf EXCEPT ![p] = {b}]
      /\ UNCHANGED <<home, logged, head, dirty, lh, outstanding, committing, tail, mode>>
  BY <1>5 DEF Modify, Goto, diskVars
<1>7. Active' = Active
  BY <1>1, <1>2, <1>6 DEF Active, TypeOK
<1>8. buf[p] = {} /\ \A q \in Procs : b \notin buf[q]
  BY <1>1, <1>2 DEF OpsInv, Locked
<1>9. LogSound'
  <2>1. TypeOK'
    BY <1>1, <1>6 DEF TypeOK, Places
  <2>2. CleanMatchesHome'
    <3> SUFFICES ASSUME NEW c \in Blocks, c \notin dirty, ~Locked(c)'
                 PROVE  cache'[c] = home[c]
      BY <1>6 DEF CleanMatchesHome
    <3>1. c # b /\ ~Locked(c)
      BY <1>1, <1>6, <1>8, SMTT(30) DEF Locked, OpsInv
    <3>2. QED
      BY <1>1, <1>2, <1>6, <3>1 DEF LInv, LogSound, CleanMatchesHome, TypeOK
  <2>3. QED
    BY <1>2, <1>6, <2>1, <2>2 DEF LogSound, LogSuffices
<1>10. OpsInv'
  <2>1. /\ buf' \in [Procs -> SUBSET Blocks] /\ buf'[p] = {b} /\ pc'[p] = "logw"
        /\ op'[p] = op[p] \cup {b}
        /\ \A q \in Procs \ {p} : buf'[q] = buf[q] /\ pc'[q] = pc[q] /\ op'[q] = op[q]
    BY <1>1, <1>6, SMTT(30) DEF OpsInv, TypeOK
  <2>2. op[p] \subseteq Range(lh)
    BY <1>1, <1>8 DEF OpsInv
  <2>3. QED
    BY <1>1, <1>6, <1>8, <2>1, <2>2, SMTT(30) DEF OpsInv
<1>11. RoomInv'
  <2>1. \A q \in Procs : IsFiniteSet(op'[q]) /\ Cardinality(op'[q]) <= OpBlocks
    <3>1. IsFiniteSet(op[p] \cup {b})
      BY <1>1, FS_AddElement DEF RoomInv
    <3>2. QED
      BY <1>1, <1>2, <1>6, <3>1 DEF RoomInv, TypeOK
  <2>2. Shares \subseteq Shares' /\ Shares' \subseteq Shares \cup {<<p, b>>}
    BY <1>1, <1>6, SMTT(30) DEF Shares, TypeOK
  <2>3. IsFiniteSet(Shares')
    BY <1>1, <2>2, FS_AddElement, FS_Subset DEF RoomInv
  <2>4. Cardinality(Shares) <= Cardinality(Shares')
    BY <2>2, <2>3, FS_Subset
  <2>5. Cardinality(Shares) \in Nat /\ Cardinality(Shares') \in Nat
    BY <1>1, <2>3, FS_CardinalityType DEF RoomInv
  <2>6. /\ Len(lh) \in Nat /\ outstanding * OpBlocks \in Nat /\ LOGSIZE \in Nat
    BY <1>1, LogAssumption, SMTT(30) DEF TypeOK
  <2>7. Len(lh) + outstanding * OpBlocks + 2 <= LOGSIZE + Cardinality(Shares')
    BY <1>1, <1>3, <2>4, <2>5, <2>6, SMTT(30) DEF RoomInv
  <2>8. QED
    BY <1>1, <1>6, <1>7, <2>1, <2>3, <2>7 DEF RoomInv
<1>12. CommitterInv'
  BY <1>1, <1>2, <1>6, <1>7 DEF LInv, CommitterInv, CommitPlaces, TypeOK
<1>13. DiskInv'
  <2>1. \A q \in Procs : pc[q] \notin CommitPlaces
    BY <1>3 DEF LInv, CommitterInv
  <2>2. \A q \in Procs : pc'[q] \notin CommitPlaces
    BY <1>1, <1>6, <2>1 DEF CommitPlaces, TypeOK
  <2>3. QED
    BY <1>2, <1>6, <2>1, <2>2, SMTT(30) DEF LInv, DiskInv, CommitPlaces
<1>14. QED
  BY <1>9, <1>10, <1>11, <1>12, <1>13 DEF LInv

LEMMA log_writeStep ==
  ASSUME LInv, NEW p \in Procs, log_write(p)
  PROVE  LInv'
<1>1. TypeOK /\ OpsInv /\ RoomInv
  BY DEF LInv, LogSound
<1>2. /\ mode = "run" /\ pc[p] = "logw" /\ pc' = [pc EXCEPT ![p] = "op"]
      /\ dirty' = dirty \cup buf[p] /\ buf' = [buf EXCEPT ![p] = {}]
      /\ UNCHANGED <<home, logged, head, cache, outstanding, committing, op, tail, mode>>
  BY DEF log_write, At, Goto, diskVars
<1>3. PICK b \in op[p] : buf[p] = {b}
  BY <1>1, <1>2 DEF OpsInv
<1>4. b \in Blocks
  BY <1>1 DEF TypeOK
<1>5. lh' = IF b \in Range(lh) THEN lh ELSE Append(lh, b)
  BY <1>3 DEF log_write
<1>6. /\ lh' \in Seq(Blocks) /\ IsInjective(lh') /\ Range(lh') = Range(lh) \cup {b}
      /\ Len(lh') = IF b \in Range(lh) THEN Len(lh) ELSE Len(lh) + 1
  BY <1>1, <1>4, <1>5, AppendRange, SMTT(30) DEF TypeOK
<1>7. Active' = Active /\ p \in Active
  BY <1>1, <1>2 DEF Active, TypeOK
<1>8. OpsInv'
  BY <1>1, <1>2, <1>3, <1>6, SMTT(30) DEF OpsInv, TypeOK
<1>9. RoomInv'
  <2>1. CASE b \in Range(lh)
    <3>1. lh' = lh /\ Shares' = Shares
      BY <1>2, <1>5, <2>1 DEF Shares
    <3>2. QED
      BY <1>1, <1>2, <1>7, <3>1 DEF RoomInv
  <2>2. CASE b \notin Range(lh)
    <3>1. \A q \in Procs : b \in op[q] => q = p
      BY <1>1, <1>3, <2>2 DEF OpsInv
    <3>2. Shares' = Shares \cup {<<p, b>>}
      BY <1>2, <1>3, <1>4, <1>6, <3>1, SMTT(30) DEF Shares
    <3>3. <<p, b>> \notin Shares
      BY <2>2 DEF Shares
    <3>4. /\ IsFiniteSet(Shares') /\ Cardinality(Shares) \in Nat
          /\ Cardinality(Shares') = Cardinality(Shares) + 1
      BY <1>1, <3>2, <3>3, FS_AddElement, FS_CardinalityType DEF RoomInv
    <3>5. /\ Len(lh) \in Nat /\ outstanding * OpBlocks \in Nat /\ LOGSIZE \in Nat
      BY <1>1, LogAssumption, SMTT(30) DEF TypeOK
    <3>6. Len(lh') + outstanding * OpBlocks + 2 <= LOGSIZE + Cardinality(Shares')
      BY <1>1, <1>6, <1>7, <2>2, <3>4, <3>5, SMTT(30) DEF RoomInv
    <3>7. Len(lh') < nlog
      BY <1>1, <1>6, <1>7, <2>2, <3>5, RoomLeft, LogAssumption, SMTT(30)
    <3>8. QED
      BY <1>1, <1>2, <1>7, <3>4, <3>6, <3>7, SMTT(30) DEF RoomInv
  <2>3. QED
    BY <2>1, <2>2
<1>10. LogSound'
  <2>1. Len(lh') <= LOGSIZE
    BY <1>1, <1>6, <1>7, RoomLeft, LogAssumption, SMTT(30) DEF TypeOK
  <2>2. TypeOK'
    BY <1>1, <1>2, <1>3, <1>4, <1>6, <2>1 DEF TypeOK, Places
  <2>3. CleanMatchesHome'
    BY <1>1, <1>2, <1>3, SMTT(30) DEF LInv, LogSound, CleanMatchesHome, Locked, OpsInv
  <2>4. QED
    BY <1>2, <2>2, <2>3 DEF LogSound, LogSuffices
<1>11. CommitterInv'
  BY <1>1, <1>2, <1>7, SMTT(30) DEF LInv, CommitterInv, CommitPlaces, TypeOK
<1>12. DiskInv'
  <2>1. \A q \in Procs : pc[q] \notin CommitPlaces
    BY <1>7 DEF LInv, CommitterInv
  <2>2. \A q \in Procs : pc'[q] \notin CommitPlaces
    BY <1>1, <1>2, <2>1, SMTT(30) DEF CommitPlaces, TypeOK
  <2>3. QED
    BY <1>2, <1>3, <1>6, <2>1, <2>2, SMTT(30) DEF LInv, DiskInv, CommitPlaces
<1>13. QED
  BY <1>8, <1>9, <1>10, <1>11, <1>12, SMTT(30) DEF LInv

LEMMA end_opStep ==
  ASSUME LInv, NEW p \in Procs, end_op(p)
  PROVE  LInv'
<1>1. TypeOK /\ OpsInv /\ RoomInv /\ CommitterInv /\ DiskInv /\ CleanMatchesHome
  BY DEF LInv, LogSound
<1>2. mode = "run" /\ pc[p] = "op" /\ p \in Active
  BY DEF end_op, At, Active
<1>3. ~committing /\ \A q \in Procs : pc[q] \notin CommitPlaces
  BY <1>1, <1>2 DEF CommitterInv
<1> DEFINE last == IF lh = <<>> THEN "finish" ELSE "write_log"
<1>4. /\ outstanding' = outstanding - 1 /\ op' = [op EXCEPT ![p] = {}]
      /\ committing' = (outstanding' = 0)
      /\ outstanding' = 0 => tail' = 1 /\ pc' = [pc EXCEPT ![p] = last]
      /\ outstanding' # 0 => WakeupGoto(p, "idle") /\ tail' = tail
      /\ UNCHANGED <<home, logged, head, cache, dirty, lh, buf, mode>>
  BY <1>3 DEF end_op, diskVars, memVars, Goto
<1>5. /\ pc' \in [Procs -> Places]
      /\ outstanding' = 0 => pc'[p] = last
      /\ outstanding' # 0 => pc'[p] = "idle"
      /\ \A q \in Procs \ {p} : \/ pc'[q] = pc[q]
                                \/ pc[q] = "asleep" /\ pc'[q] = "begin"
  <2>1. pc \in [Procs -> Places] /\ last \in Places
    BY <1>1 DEF TypeOK, Places
  <2> HIDE DEF last
  <2>2. CASE outstanding' = 0
    <3>1. pc' = [pc EXCEPT ![p] = last]
      BY <1>4, <2>2
    <3>2. QED
      BY <2>1, <2>2, <3>1
  <2>3. CASE outstanding' # 0
    <3>1. WakeupGoto(p, "idle")
      BY <1>4, <2>3
    <3>2. QED
      BY <2>1, <2>3, <3>1 DEF WakeupGoto, Places
  <2>4. QED
    BY <2>2, <2>3
<1>6. Active' = Active \ {p}
  BY <1>5 DEF Active
<1>7. /\ IsFiniteSet(Active') /\ Cardinality(Active') = outstanding' /\ outstanding' \in Nat
      /\ outstanding \in Nat
  <2>1. IsFiniteSet(Active) /\ outstanding = Cardinality(Active) /\ outstanding \in Nat
    BY <1>1, FS_CardinalityType DEF RoomInv
  <2>2. IsFiniteSet(Active') /\ Cardinality(Active') = Cardinality(Active) - 1
    BY <1>2, <1>6, <2>1, FS_RemoveElement
  <2>3. Cardinality(Active') \in Nat
    BY <2>2, FS_CardinalityType
  <2>4. QED
    BY <1>4, <2>1, <2>2, <2>3
<1>8. outstanding' = 0 <=> Active' = {}
  BY <1>7, FS_EmptySet
<1>9. TypeOK'
  BY <1>1, <1>4, <1>5, <1>7 DEF TypeOK
<1>10. LogSound'
  BY <1>1, <1>2, <1>4, <1>9 DEF LogSound, CleanMatchesHome, Locked, LogSuffices
<1>11. OpsInv'
  <2>1. op'[p] = {} /\ \A q \in Procs \ {p} : op'[q] = op[q]
    BY <1>1, <1>4 DEF TypeOK
  <2>2. buf[p] = {}
    BY <1>1, <1>2 DEF OpsInv
  <2>3. QED
    BY <1>1, <1>4, <1>5, <2>1, <2>2, SMTT(30) DEF OpsInv
<1>12. RoomInv'
  <2>1. \A q \in Procs : IsFiniteSet(op'[q]) /\ Cardinality(op'[q]) <= OpBlocks
    BY <1>1, <1>4, FS_EmptySet, LogAssumption, SMTT(30) DEF RoomInv, TypeOK
  <2> DEFINE Own == {p} \X op[p]
  <2>2. Shares' = Shares \ Own
    BY <1>1, <1>4 DEF Shares, TypeOK
  <2>3. IsFiniteSet(Own) /\ Cardinality(Own) <= OpBlocks /\ Cardinality(Own) \in Nat
    <3>1. IsFiniteSet(op[p]) /\ Cardinality(op[p]) <= OpBlocks /\ Cardinality(op[p]) \in Nat
      BY <1>1, FS_CardinalityType DEF RoomInv
    <3>2. IsFiniteSet({p}) /\ Cardinality({p}) = 1
      BY FS_Singleton
    <3>3. IsFiniteSet(Own) /\ Cardinality(Own) = 1 * Cardinality(op[p])
      BY <3>1, <3>2, FS_Product, SMTT(30)
    <3>4. QED
      BY <3>1, <3>3, SMTT(30)
  <2> HIDE DEF Own
  <2>4. /\ IsFiniteSet(Shares') /\ Cardinality(Shares) \in Nat
        /\ Cardinality(Shares') = Cardinality(Shares) - Cardinality(Shares \cap Own)
    BY <1>1, <2>2, FS_Difference, FS_CardinalityType DEF RoomInv
  <2>5. Cardinality(Shares \cap Own) <= Cardinality(Own) /\ Cardinality(Shares \cap Own) \in Nat
    BY <2>3, FS_Intersection, FS_CardinalityType
  <2>6. outstanding * OpBlocks = outstanding' * OpBlocks + OpBlocks /\ outstanding' * OpBlocks \in Nat
    <3>1. outstanding = outstanding' + 1
      BY <1>4, <1>7, SMTT(30)
    <3>2. OpBlocks \in Nat /\ outstanding' \in Nat
      BY <1>7, LogAssumption
    <3>3. QED
      BY <3>1, <3>2, LogAssumption, Product
  <2>7. Len(lh) + outstanding * OpBlocks + 2 <= LOGSIZE + Cardinality(Shares)
    BY <1>1, <1>2 DEF RoomInv
  <2>8. Len(lh) + outstanding' * OpBlocks + 2 <= LOGSIZE + Cardinality(Shares')
    <3>1. Len(lh) \in Nat /\ LOGSIZE \in Nat /\ OpBlocks \in Nat
      BY <1>1, LogAssumption, SMTT(30) DEF TypeOK
    <3>2. QED
      BY <2>3, <2>4, <2>5, <2>6, <2>7, <3>1, SMTT(30)
  <2>9. QED
    BY <1>1, <1>4, <1>7, <1>8, <2>1, <2>4, <2>8 DEF RoomInv
<1>13. CommitterInv'
  <2>1. \A q \in Procs \ {p} : pc'[q] \notin CommitPlaces
    BY <1>3, <1>5 DEF CommitPlaces
  <2>2. pc'[p] \in CommitPlaces <=> outstanding' = 0
    BY <1>5 DEF CommitPlaces
  <2>3. committing' <=> outstanding' = 0
    BY <1>4
  <2>4. QED
    BY <1>2, <1>4, <1>8, <2>1, <2>2, <2>3 DEF CommitterInv
<1>14. DiskInv'
  <2>1. \A q \in Procs \ {p} : pc'[q] \notin CommitPlaces
    BY <1>3, <1>5, SMTT(30) DEF CommitPlaces
  <2>2. pc'[p] = "write_log" => tail' = 1 /\ tail' <= Len(lh)
    BY <1>1, <1>4, <1>5, LogAssumption, SMTT(30) DEF TypeOK
  <2>3. tail' \in Nat \ {0}
    BY <1>1, <1>4, SMTT(30) DEF DiskInv
  <2>4. pc'[p] \in {"write_log", "finish", "idle"} /\ (pc'[p] = "finish" => lh = <<>>)
    BY <1>5
  <2>5. head = <<>>
    BY <1>1, <1>2, <1>3 DEF DiskInv, CommitPlaces
  <2>6. \A q \in Procs : /\ pc'[q] = "write_log" => tail' = 1 /\ tail' <= Len(lh)
                         /\ pc'[q] = "finish" => lh = <<>>
                         /\ pc'[q] \notin {"write_head", "install", "clear"}
    BY <2>1, <2>2, <2>4 DEF CommitPlaces
  <2>7. UNCHANGED <<home, logged, head, cache, dirty, lh, mode>>
    BY <1>4
  <2>8. \A i \in 1..1-1 : logged[i] = cache[lh[i]]
    BY SMTT(30)
  <2>9. \A q \in Procs : pc'[q] = "write_log" => \A i \in 1..tail'-1 : logged'[i] = cache'[lh'[i]]
    BY <2>6, <2>7, <2>8
  <2>10. logged' \in [1..nlog-1 -> Vals] /\ dirty' \subseteq Range(lh') /\ head' = <<>>
    BY <1>1, <1>2, <2>5, <2>7 DEF DiskInv
  <2>11. mode' # "recover"
    BY <1>2, <2>7
  <2>12. QED
    BY <2>3, <2>6, <2>7, <2>9, <2>10, <2>11 DEF DiskInv
<1>15. QED
  BY <1>10, <1>11, <1>12, <1>13, <1>14 DEF LInv

-----------------------------------------------------------------------------
(***************************************************************************)
(* The theorems.                                                           *)
(***************************************************************************)

LEMMA NextLInv ==
  ASSUME LInv, [Next]_vars
  PROVE  LInv'
<1>1. CASE UNCHANGED vars
  BY <1>1, StutterStep
<1>2. ASSUME NEW p \in Procs, Call(p) \/ Step(p) \/ end_op(p) PROVE LInv'
  BY <1>2, CallStep, begin_opStep, log_writeStep, write_logStep, write_headStep,
     install_transStep, ClearLogStep, FinishStep, end_opStep, SMTT(30) DEF Step
<1>3. ASSUME NEW p \in Procs, NEW b \in Blocks, NEW v \in Vals, Modify(p, b, v) PROVE LInv'
  BY <1>3, ModifyStep
<1>4. ASSUME NEW b \in Blocks, Evict(b) PROVE LInv'
  BY <1>4, EvictStep
<1>5. QED
  BY <1>1, <1>2, <1>3, <1>4, CrashStep, recover_from_logStep DEF Next

\* LInv is an invariant of the log, crashes and recovery included.
THEOREM LogInvariance == Spec => []LInv
<1>1. QED
  BY InitLInv, NextLInv, PTL DEF Spec

\* The log never runs full: log_write() does not panic, the transaction lists each block
\* once, and a buffer that bget() may recycle holds what its home block holds.
THEOREM LogStaysSound == Spec => []LogSound
<1>1. LInv => LogSound
  BY DEF LInv
<1>2. QED
  BY <1>1, LogInvariance, PTL

\* The log makes operations atomic: whenever the machine crashes, during recovery included,
\* the disk recovers to the blocks as they were at the last commit, and a commit happens
\* only while no operation is under way.
THEOREM LogIsAtomic == Spec => IsAtomic
<1>1. Init => Abstract!Init
  BY AtomicInit
<1>2. LInv /\ LInv' /\ [Next]_vars =>
        [Abstract!Next]_<<Recovered, IF mode = "recover" THEN Recovered ELSE cache, Active>>
  BY AtomicStep DEF AbstractVars, Current
<1>3. QED
  BY <1>1, <1>2, LogInvariance, PTL DEF Spec, IsAtomic, Abstract!Spec
=============================================================================
