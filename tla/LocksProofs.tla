----------------------------- MODULE LocksProofs -----------------------------
(***************************************************************************)
(* The safety properties of module Locks, for every number of processes    *)
(* and all priorities.                                                     *)
(***************************************************************************)
EXTENDS Locks, Sequences, SequenceTheorems, FiniteSetTheorems, TLAPS

USE SMTT(30), ZenonT(60)

-----------------------------------------------------------------------------
(***************************************************************************)
(* The sleeplock.                                                          *)
(***************************************************************************)

\* The process that acquiresleep() has let through is the one that lk->pid names.
SInv == S!TypeOK /\ \A p \in Procs : s_pc[p] = "in" => s_owner = p

\* A step of a process in acquiresleep(), releasesleep(), sleep() or wakeup().
LEMMA SleepLockStep ==
  ASSUME SInv, NEW p \in Procs, S!ProcNext(p)
  PROVE  SInv'
<1> USE LocksAssumption DEF SInv, S!TypeOK, S!Places, S!Goto
<1>1. CASE S!acquiresleep(p)
  BY <1>1 DEF S!acquiresleep
<1>2. CASE S!releasesleep(p)
  BY <1>2 DEF S!releasesleep
<1>3. CASE S!AcquireLk(p)
  BY <1>3 DEF S!AcquireLk
<1>4. CASE S!TakeLock(p)
  BY <1>4 DEF S!TakeLock
<1>5. CASE S!MustSleep(p)
  BY <1>5 DEF S!MustSleep
<1>6. CASE S!SleepAcquire(p)
  BY <1>6 DEF S!SleepAcquire
<1>7. CASE S!SleepRelease(p)
  BY <1>7 DEF S!SleepRelease
<1>8. CASE S!SleepSched(p)
  BY <1>8 DEF S!SleepSched
<1>9. CASE S!ReleaseLock(p)
  <2>1. CASE s_locked /\ s_owner = p
    <3>1. /\ s_pc[p] = "rel" /\ s_pc' = [s_pc EXCEPT ![p] = "wakeup"]
          /\ s_lk' = p /\ s_locked' = FALSE /\ s_owner' = NoProc
          /\ UNCHANGED <<ptable, panicked>>
      BY <1>9, <2>1, Zenon DEF S!ReleaseLock
    <3>2. QED
      BY <2>1, <3>1, Zenon
  <2>2. CASE ~(s_locked /\ s_owner = p)
    <3>1. panicked' = TRUE /\ UNCHANGED <<s_locked, s_owner, s_lk, s_pc, ptable>>
      BY <1>9, <2>2, Zenon DEF S!ReleaseLock
    <3>2. QED
      BY <3>1
  <2>3. QED
    BY <2>1, <2>2
<1>10. CASE S!WakeupAcquire(p)
  BY <1>10 DEF S!WakeupAcquire
<1>11. CASE S!Wakeup(p)
  BY <1>11 DEF S!Wakeup
<1>12. CASE S!ReleaseLk(p)
  BY <1>12 DEF S!ReleaseLk
<1>13. QED
  BY <1>1, <1>2, <1>3, <1>4, <1>5, <1>6, <1>7, <1>8, <1>9, <1>10, <1>11, <1>12
  DEF S!ProcNext, S!Step

\* Such a step is one of Mutex, or changes nothing that Mutex speaks of.
LEMMA SleepLockRefines ==
  ASSUME SInv, NEW p \in Procs, S!ProcNext(p)
  PROVE  [S!Abstract!Next]_{q \in Procs : s_pc[q] = "in"}
<1> DEFINE inside == {q \in Procs : s_pc[q] = "in"}
<1> USE LocksAssumption DEF SInv, S!TypeOK, S!Goto
<1>1. CASE S!TakeLock(p)
  <2>1. inside = {} /\ inside' = {p}
    BY <1>1 DEF S!TakeLock
  <2>2. QED
    BY <2>1 DEF S!Abstract!Next, S!Abstract!Acquire
<1>2. CASE S!releasesleep(p)
  <2>1. CASE s_pc[p] = "in"
    <3>1. inside = {p} /\ inside' = {}
      BY <1>2, <2>1 DEF S!releasesleep
    <3>2. QED
      BY <3>1 DEF S!Abstract!Next, S!Abstract!Release
  <2>2. CASE s_pc[p] # "in"
    <3>1. inside' = inside
      BY <1>2, <2>2 DEF S!releasesleep
    <3>2. QED
      BY <3>1
  <2>3. QED
    BY <2>1, <2>2
<1>3. CASE ~S!TakeLock(p) /\ ~S!releasesleep(p)
  <2>1. \A q \in Procs : (s_pc[q] = "in") <=> (s_pc'[q] = "in")
    BY <1>3 DEF S!ProcNext, S!Step, S!acquiresleep, S!AcquireLk, S!MustSleep,
         S!SleepAcquire, S!SleepRelease, S!SleepSched, S!ReleaseLock, S!WakeupAcquire,
         S!Wakeup, S!ReleaseLk
  <2>2. inside' = inside
    BY <2>1
  <2>3. QED
    BY <2>2
<1>4. QED
  BY <1>1, <1>2, <1>3
-----------------------------------------------------------------------------
(***************************************************************************)
(* The readers-writer lock.                                                *)
(***************************************************************************)
Readers == {p \in Procs : rw_pc[p] = "reading"}

\* The lock is never held both ways, writer_pid names the writer, sleepers have somebody
\* to wait for, and read_count is the number of readers until one is ended by another.
RWInv ==
  /\ RW!TypeOK /\ RW!WriterKeepsLock
  /\ rw_writer => rw_read_count = 0 /\ rw_writer_pid \in Procs
                  /\ rw_pc[rw_writer_pid] = "writing"
  /\ \A p \in Procs : /\ rw_pc[p] = "rsleep" => rw_writer
                      /\ rw_pc[p] = "wsleep" => (rw_writer \/ rw_read_count > 0)
  /\ ~strayed => rw_read_count = Cardinality(Readers)

LEMMA ReadersFinite == IsFiniteSet(Readers)
<1>1. Readers \in SUBSET Procs
  BY DEF Readers
<1>2. QED
  BY <1>1, LocksAssumption, FS_Subset

\* All but the number of readers.
LEMMA RWLockStep ==
  ASSUME RWInv, NEW p \in Procs, RW!ProcNext(p)
  PROVE  /\ RW!TypeOK' /\ RW!WriterKeepsLock'
         /\ rw_writer' => rw_read_count' = 0 /\ rw_writer_pid' \in Procs
                          /\ rw_pc'[rw_writer_pid'] = "writing"
         /\ \A q \in Procs : /\ rw_pc'[q] = "rsleep" => rw_writer'
                             /\ rw_pc'[q] = "wsleep" => (rw_writer' \/ rw_read_count' > 0)
<1> USE LocksAssumption DEF RWInv, RW!TypeOK, RW!WriterKeepsLock, RW!Places, RW!At
<1>1. CASE RW!rwlock_acquire_read(p)
  <2>1. CASE rw_writer
    BY <1>1, <2>1 DEF RW!rwlock_acquire_read
  <2>2. CASE ~rw_writer
    BY <1>1, <2>2 DEF RW!rwlock_acquire_read
  <2>3. QED
    BY <2>1, <2>2
<1>2. CASE RW!rwlock_acquire_write(p)
  <2>1. CASE rw_writer \/ rw_read_count > 0
    BY <1>2, <2>1 DEF RW!rwlock_acquire_write
  <2>2. CASE ~(rw_writer \/ rw_read_count > 0)
    <3>1. /\ ~rw_writer /\ rw_read_count = 0
          /\ rw_writer' = TRUE /\ rw_writer_pid' = p
          /\ rw_pc' = [rw_pc EXCEPT ![p] = "writing"]
          /\ UNCHANGED <<rw_read_count, strayed, panicked>>
      BY <1>2, <2>2 DEF RW!rwlock_acquire_write
    <3>2. \A q \in Procs : rw_pc'[q] = "rsleep" => rw_pc[q] = "rsleep"
      BY <3>1
    <3>3. QED
      BY <3>1, <3>2
  <2>3. QED
    BY <2>1, <2>2
<1>3. CASE RW!rwlock_release_read(p)
  <2>1. CASE rw_read_count < 1
    <3>1. /\ panicked' = TRUE
          /\ UNCHANGED <<rw_read_count, rw_writer, rw_writer_pid, rw_pc, strayed>>
      BY <1>3, <2>1 DEF RW!rwlock_release_read
    <3>2. QED
      BY <3>1
  <2>2. CASE rw_read_count >= 1
    <3>1. ~rw_writer
      BY <2>2
    <3>2. /\ rw_read_count' = rw_read_count - 1
          /\ rw_pc' = IF rw_read_count = 1 THEN RW!Woken(p) ELSE [rw_pc EXCEPT ![p] = "out"]
          /\ strayed' \in BOOLEAN
          /\ UNCHANGED <<rw_writer, rw_writer_pid, panicked>>
      <4>1. ~(rw_read_count < 1)
        BY <2>2
      <4>2. QED
        BY <1>3, <4>1, Zenon DEF RW!rwlock_release_read
    <3>3. \A q \in Procs : rw_pc[q] \notin {"writing", "rsleep"}
      BY <3>1
    <3>4. \A q \in Procs : rw_pc'[q] \in RW!Places /\ rw_pc'[q] \notin {"writing", "rsleep"}
      BY <3>2, <3>3 DEF RW!Woken
    <3>5. ASSUME NEW q \in Procs, rw_pc'[q] = "wsleep"
          PROVE  rw_read_count' > 0
      BY <2>2, <3>2, <3>5 DEF RW!Woken
    <3>6. rw_pc' \in [Procs -> RW!Places] /\ rw_read_count' \in Nat
      BY <2>2, <3>2, <3>4 DEF RW!Woken
    <3>7. QED
      BY <3>1, <3>2, <3>4, <3>5, <3>6
  <2>3. QED
    BY <2>1, <2>2
<1>4. CASE RW!rwlock_release_write(p)
  <2>1. CASE ~rw_writer \/ rw_writer_pid # p
    <3>1. /\ panicked' = TRUE
          /\ UNCHANGED <<rw_read_count, rw_writer, rw_writer_pid, rw_pc, strayed>>
      BY <1>4, <2>1 DEF RW!rwlock_release_write
    <3>2. QED
      BY <3>1
  <2>2. CASE rw_writer /\ rw_writer_pid = p
    BY <1>4, <2>2, Zenon DEF RW!rwlock_release_write, RW!Woken
  <2>3. QED
    BY <2>1, <2>2
<1>5. QED
  BY <1>1, <1>2, <1>3, <1>4 DEF RW!ProcNext

\* The number of readers.
LEMMA RWLockCount ==
  ASSUME RWInv, NEW p \in Procs, RW!ProcNext(p), ~strayed'
  PROVE  rw_read_count' = Cardinality(Readers')
<1> USE LocksAssumption DEF RWInv, RW!TypeOK, RW!At
<1>1. CASE UNCHANGED rw_read_count /\ Readers' = Readers /\ ~strayed
  BY <1>1
<1>2. CASE /\ rw_pc[p] # "reading" /\ rw_pc' = [rw_pc EXCEPT ![p] = "reading"] /\ ~strayed
           /\ rw_read_count' = rw_read_count + 1
  <2>1. Readers' = Readers \cup {p} /\ p \notin Readers
    BY <1>2 DEF Readers
  <2>2. Cardinality(Readers') = Cardinality(Readers) + 1
    BY <2>1, ReadersFinite, FS_AddElement, Zenon
  <2>3. QED
    BY <1>2, <2>2
<1>3. CASE /\ rw_pc[p] = "reading" /\ ~strayed
           /\ rw_pc' = RW!Woken(p) \/ rw_pc' = [rw_pc EXCEPT ![p] = "out"]
           /\ rw_read_count' = rw_read_count - 1
  <2>1. Readers' = Readers \ {p} /\ p \in Readers
    BY <1>3 DEF Readers, RW!Woken
  <2>2. Cardinality(Readers') = Cardinality(Readers) - 1
    BY <2>1, ReadersFinite, FS_RemoveElement, Zenon
  <2>3. QED
    BY <1>3, <2>2
<1>4. CASE RW!rwlock_acquire_read(p)
  <2>1. CASE rw_writer
    <3>1. UNCHANGED <<rw_read_count, strayed>> /\ Readers' = Readers
      BY <1>4, <2>1, Zenon DEF RW!rwlock_acquire_read, Readers
    <3>2. QED
      BY <3>1, <1>1
  <2>2. CASE ~rw_writer
    <3>1. /\ rw_pc[p] # "reading" /\ rw_pc' = [rw_pc EXCEPT ![p] = "reading"] /\ ~strayed
          /\ rw_read_count' = rw_read_count + 1
      BY <1>4, <2>2 DEF RW!rwlock_acquire_read
    <3>2. QED
      BY <1>2, <3>1
  <2>3. QED
    BY <2>1, <2>2
<1>5. CASE RW!rwlock_acquire_write(p)
  <2>1. UNCHANGED <<rw_read_count, strayed>> /\ Readers' = Readers
    BY <1>5 DEF RW!rwlock_acquire_write, Readers
  <2>2. QED
    BY <2>1, <1>1
<1>6. CASE RW!rwlock_release_read(p)
  <2>1. CASE rw_read_count < 1
    <3>1. UNCHANGED <<rw_read_count, strayed>> /\ Readers' = Readers
      BY <1>6, <2>1 DEF RW!rwlock_release_read, Readers
    <3>2. QED
      BY <3>1, <1>1
  <2>2. CASE rw_read_count >= 1
    <3>1. /\ rw_pc[p] = "reading" /\ ~strayed
          /\ rw_pc' = RW!Woken(p) \/ rw_pc' = [rw_pc EXCEPT ![p] = "out"]
          /\ rw_read_count' = rw_read_count - 1
      <4>1. ~(rw_read_count < 1)
        BY <2>2
      <4>2. QED
        BY <1>6, <4>1, Zenon DEF RW!rwlock_release_read
    <3>2. QED
      BY <1>3, <3>1
  <2>3. QED
    BY <2>1, <2>2
<1>7. CASE RW!rwlock_release_write(p)
  <2>1. UNCHANGED <<rw_read_count, strayed>> /\ Readers' = Readers
    BY <1>7 DEF RW!rwlock_release_write, RW!MayRelease, RW!Woken, Readers
  <2>2. QED
    BY <2>1, <1>1
<1>8. QED
  BY <1>4, <1>5, <1>6, <1>7 DEF RW!ProcNext

\* What the invariant says about who is inside and who sleeps.
LEMMA RWInvImplies ==
  ASSUME RWInv
  PROVE  RW!WriterAlone /\ RW!NoLostWakeup
<1> USE DEF RWInv, RW!TypeOK
<1>1. ~strayed => (rw_read_count = 0 <=> Readers = {})
  BY ReadersFinite, FS_EmptySet
<1>2. RW!WriterAlone
  BY <1>1 DEF RW!WriterAlone, RW!WriterKeepsLock, Readers
<1>3. RW!NoLostWakeup
  BY <1>1 DEF RW!NoLostWakeup, Readers
<1>4. QED
  BY <1>2, <1>3
-----------------------------------------------------------------------------
(***************************************************************************)
(* The priority lock.                                                      *)
(***************************************************************************)
Nodes == [proc : Procs, priority : Nat]

\* Whoever sleeps has a node in the list, which is empty beside a free lock; unless a
\* sleep has been disturbed, whoever is inside is the owner.
PLInv == PL!TypeOK /\ PL!NoIdleLock /\ PL!AcquiredIsOwned

LEMMA NodeFacts ==
  ASSUME NEW w \in Seq(Nodes), NEW i \in DOMAIN w
  PROVE  w[i].proc \in Procs /\ w[i].priority \in Nat
<1>1. w[i] \in Nodes
  OBVIOUS
<1>2. QED
  BY <1>1 DEF Nodes

\* A list without its i-th node.
LEMMA UnlinkedFacts ==
  ASSUME NEW T, NEW s \in Seq(T), NEW i \in DOMAIN s
  PROVE  /\ PL!Unlinked(s, i) \in Seq(T)
         /\ Len(PL!Unlinked(s, i)) = Len(s) - 1
         /\ \A j \in DOMAIN PL!Unlinked(s, i) :
              PL!Unlinked(s, i)[j] = IF j < i THEN s[j] ELSE s[j + 1]
<1> DEFINE a == SubSeq(s, 1, i - 1)
           b == SubSeq(s, i + 1, Len(s))
<1>1. i \in 1..Len(s) /\ Len(s) \in Nat /\ \A j \in 1..Len(s) : s[j] \in T
  OBVIOUS
<1>2. /\ a \in Seq(T) /\ Len(a) = i - 1
      /\ \A j \in 1..(i - 1) : a[j] = s[j]
  <2>1. \A j \in 1..(i - 1) : s[j] \in T
    BY <1>1
  <2>2. QED
    BY <1>1, <2>1, SubSeqProperties, SMTT(30)
<1>3. /\ b \in Seq(T) /\ Len(b) = Len(s) - i
      /\ \A j \in 1..(Len(s) - i) : b[j] = s[i + j]
  <2>1. \A j \in (i + 1)..Len(s) : s[j] \in T
    BY <1>1
  <2>2. QED
    BY <1>1, <2>1, SubSeqProperties, SMTT(30)
<1>4. /\ a \o b \in Seq(T) /\ Len(a \o b) = Len(a) + Len(b)
      /\ \A j \in 1..(Len(a) + Len(b)) : (a \o b)[j] = IF j <= Len(a) THEN a[j] ELSE b[j - Len(a)]
  BY <1>2, <1>3, ConcatProperties, Zenon
<1>5. PL!Unlinked(s, i) = a \o b
  BY DEF PL!Unlinked
<1> HIDE DEF a, b
<1>6. DOMAIN (a \o b) = 1..(Len(s) - 1)
  BY <1>1, <1>2, <1>3, <1>4
<1>7. ASSUME NEW j \in 1..(Len(s) - 1)
      PROVE  (a \o b)[j] = IF j < i THEN s[j] ELSE s[j + 1]
  <2>1. j \in 1..(Len(a) + Len(b))
    BY <1>1, <1>2, <1>3
  <2>2. CASE j < i
    <3>1. j <= Len(a) /\ j \in 1..(i - 1)
      BY <1>1, <1>2, <2>2
    <3>2. (a \o b)[j] = a[j] /\ a[j] = s[j]
      BY <1>2, <1>4, <2>1, <3>1
    <3>3. QED
      BY <2>2, <3>2
  <2>3. CASE ~(j < i)
    <3>1. ~(j <= Len(a)) /\ j - Len(a) \in 1..(Len(s) - i) /\ i + (j - Len(a)) = j + 1
      BY <1>1, <1>2, <2>3
    <3>2. (a \o b)[j] = b[j - Len(a)]
      BY <1>4, <2>1, <3>1
    <3>3. b[j - Len(a)] = s[j + 1]
      BY <1>3, <3>1
    <3>4. QED
      BY <2>3, <3>2, <3>3
  <2>4. QED
    BY <2>2, <2>3, Zenon
<1>8. Len(a \o b) = Len(s) - 1
  BY <1>1, <1>2, <1>3, <1>4
<1>9. QED
  BY <1>4, <1>5, <1>6, <1>7, <1>8, Zenon

\* Every other node stays.
LEMMA UnlinkedKeeps ==
  ASSUME NEW T, NEW s \in Seq(T), NEW i \in DOMAIN s, NEW j \in DOMAIN s, j # i
  PROVE  \E k \in DOMAIN PL!Unlinked(s, i) : PL!Unlinked(s, i)[k] = s[j]
<1> DEFINE r == PL!Unlinked(s, i)
<1>1. r \in Seq(T) /\ Len(r) = Len(s) - 1
      /\ \A k \in DOMAIN r : r[k] = IF k < i THEN s[k] ELSE s[k + 1]
  BY UnlinkedFacts
<1> HIDE DEF r
<1>2. DOMAIN r = 1..(Len(s) - 1) /\ i \in 1..Len(s) /\ j \in 1..Len(s)
  BY <1>1
<1>3. CASE j < i
  <2>1. j \in DOMAIN r /\ r[j] = s[j]
    BY <1>1, <1>2, <1>3
  <2>2. QED
    BY <2>1 DEF r
<1>4. CASE j > i
  <2>1. j - 1 \in DOMAIN r /\ r[j - 1] = s[j]
    BY <1>1, <1>2, <1>4
  <2>2. QED
    BY <2>1 DEF r
<1>5. QED
  BY <1>2, <1>3, <1>4

\* plock_acquire(): the lock is free, or a new node goes to the head of the list.
LEMMA PLockAcquireStep ==
  ASSUME PLInv, NEW p \in Procs, NEW n \in Nat, PL!plock_acquire(p, n)
  PROVE  PLInv'
<1> USE LocksAssumption DEF PLInv, PL!TypeOK, PL!NoIdleLock, PL!AcquiredIsOwned, PL!Places
<1>1. CASE PL!panic
  BY <1>1 DEF PL!panic
<1>2. CASE /\ ~pl_locked /\ pl_locked' = TRUE /\ pl_owner' = p /\ pl_pc[p] = "out"
           /\ pl_pc' = [pl_pc EXCEPT ![p] = "in"]
           /\ UNCHANGED <<pl_waiters, disturbed, panicked>>
  BY <1>2
<1>3. CASE /\ pl_locked /\ pl_waiters' = <<[proc |-> p, priority |-> n]>> \o pl_waiters
           /\ pl_pc' = [pl_pc EXCEPT ![p] = "asleep"]
           /\ UNCHANGED <<pl_locked, pl_owner, disturbed, panicked>>
  <2> DEFINE x == [proc |-> p, priority |-> n]
             w == pl_waiters
  <2>1. /\ <<x>> \in Seq(Nodes) /\ Len(<<x>>) = 1 /\ <<x>>[1] = x /\ x.proc = p
        /\ w \in Seq(Nodes)
    BY DEF Nodes
  <2>2. /\ w' \in Seq(Nodes) /\ Len(w') = 1 + Len(w)
        /\ \A i \in 1..(1 + Len(w)) : w'[i] = IF i <= 1 THEN x ELSE w[i - 1]
    <3>1. w' = <<x>> \o w
      BY <1>3
    <3> HIDE DEF x, w
    <3>2. QED
      BY <2>1, <3>1, ConcatProperties
  <2> HIDE DEF x, w
  <2>3. 1 \in DOMAIN w' /\ w'[1] = x
    BY <2>1, <2>2
  <2>4. \A i \in DOMAIN w : i + 1 \in DOMAIN w' /\ w'[i + 1] = w[i]
    BY <2>1, <2>2
  <2>5. ASSUME NEW q \in Procs, pl_pc'[q] = "asleep"
        PROVE  \E i \in DOMAIN w' : w'[i].proc = q
    <3>1. CASE q = p
      BY <2>1, <2>3, <3>1
    <3>2. CASE q # p
      <4>1. PICK i \in DOMAIN w : w[i].proc = q
        BY <1>3, <2>5, <3>2 DEF w
      <4>2. QED
        BY <2>4, <4>1
    <3>3. QED
      BY <3>1, <3>2
  <2>6. PL!NoIdleLock'
    BY <1>3, <2>5, Zenon DEF w
  <2>7. PL!TypeOK'
    BY <1>3, <2>2 DEF w, Nodes
  <2>8. PL!AcquiredIsOwned'
    BY <1>3
  <2>9. QED
    BY <2>6, <2>7, <2>8
<1>4. QED
  BY <1>1, <1>2, <1>3, Zenon DEF PL!plock_acquire

\* plock_release() of an owner that somebody waits for.
LEMMA PLockHandOverStep ==
  ASSUME PLInv, NEW p \in Procs, pl_owner = p, NEW i \in DOMAIN pl_waiters,
         PL!HandOver(p, i), UNCHANGED <<disturbed, panicked>>
  PROVE  PLInv'
<1> DEFINE w == pl_waiters
           q == w[i].proc
<1> USE LocksAssumption DEF PLInv, PL!TypeOK, PL!NoIdleLock, PL!AcquiredIsOwned, PL!Places
<1>1. w \in Seq(Nodes) /\ q \in Procs
  <2>1. w \in Seq(Nodes)
    BY Zenon DEF Nodes
  <2>2. QED
    BY <2>1, NodeFacts
<1>2. /\ pl_owner' = q /\ w' = PL!Unlinked(w, i) /\ UNCHANGED pl_locked
      /\ pl_pc' = PL!Wakened([pl_pc EXCEPT ![p] = "out"], q)
  BY DEF PL!HandOver
<1>3. w' \in Seq(Nodes)
  BY <1>1, <1>2, UnlinkedFacts
<1>4. pl_locked /\ q # NoProc
  <2>1. pl_owner # NoProc
    BY LocksAssumption
  <2>2. pl_locked
    BY <2>1, Zenon
  <2>3. QED
    BY <1>1, <2>2
<1> HIDE DEF w
<1>5. /\ pl_pc' \in [Procs -> PL!Places]
      /\ \A r \in Procs : pl_pc'[r] = "asleep" => (pl_pc[r] = "asleep" /\ r # q)
      /\ \A r \in Procs : pl_pc'[r] = "in" => (r = q \/ (pl_pc[r] = "in" /\ r # p))
  <2>1. q \in Procs /\ pl_pc \in [Procs -> PL!Places]
    BY <1>1
  <2> HIDE DEF q
  <2>2. QED
    BY <1>2, <2>1 DEF PL!Wakened
<1>6. ASSUME NEW r \in Procs, pl_pc'[r] = "asleep"
      PROVE  \E k \in DOMAIN w' : w'[k].proc = r
  <2>1. PICK j \in DOMAIN w : w[j].proc = r
    BY <1>5, <1>6 DEF w
  <2>2. j # i
    BY <1>5, <1>6, <2>1
  <2>3. PICK k \in DOMAIN w' : w'[k] = w[j]
    <3>1. i \in DOMAIN w
      BY DEF w
    <3>2. QED
      BY <1>1, <1>2, <2>1, <2>2, <3>1, UnlinkedKeeps
  <2>4. QED
    BY <2>1, <2>3
<1>7. PL!TypeOK'
  BY <1>1, <1>2, <1>3, <1>4, <1>5, Zenon DEF w, Nodes
<1>8. PL!NoIdleLock'
  BY <1>2, <1>4, <1>6, Zenon DEF w
<1>9. PL!AcquiredIsOwned'
  BY <1>2, <1>5, Zenon
<1>10. QED
  BY <1>7, <1>8, <1>9

LEMMA PLockStep ==
  ASSUME PLInv, NEW p \in Procs, PL!ProcNext(p)
  PROVE  PLInv'
<1>1. CASE \E n \in Priorities[p] : PL!plock_acquire(p, n)
  <2>1. PICK n \in Priorities[p] : PL!plock_acquire(p, n)
    BY <1>1
  <2>2. n \in Nat
    BY LocksAssumption
  <2>3. QED
    BY <2>1, <2>2, PLockAcquireStep
<1>2. CASE PL!panic
  BY <1>2 DEF PL!panic, PLInv, PL!TypeOK, PL!NoIdleLock, PL!AcquiredIsOwned
<1>3. CASE /\ pl_owner = p /\ pl_waiters = <<>>
           /\ pl_locked' = FALSE /\ pl_owner' = NoProc /\ pl_pc' = [pl_pc EXCEPT ![p] = "out"]
           /\ pl_pc[p] \in {"in", "out"} /\ UNCHANGED <<pl_waiters, disturbed, panicked>>
  BY <1>3, LocksAssumption, Zenon
  DEF PLInv, PL!TypeOK, PL!NoIdleLock, PL!AcquiredIsOwned, PL!Places
<1>4. CASE /\ pl_owner = p /\ UNCHANGED <<disturbed, panicked>>
           /\ \E i \in DOMAIN pl_waiters : PL!IsHighest(i) /\ PL!HandOver(p, i)
  BY <1>4, PLockHandOverStep
<1>5. CASE PL!plock_release(p)
  BY <1>2, <1>3, <1>4, <1>5, Zenon DEF PL!plock_release
<1>6. CASE PL!ChildExit(p)
  BY <1>6 DEF PL!ChildExit, PL!Wakened, PLInv, PL!TypeOK, PL!NoIdleLock,
              PL!AcquiredIsOwned, PL!Places
<1>7. CASE PL!kill(p)
  BY <1>7 DEF PL!kill, PLInv, PL!TypeOK, PL!NoIdleLock, PL!AcquiredIsOwned, PL!Places
<1>8. QED
  BY <1>1, <1>5, <1>6, <1>7, Zenon DEF PL!ProcNext

\* Only a release of the owner passes the lock on, and to a waiter of the highest priority.
LEMMA PLockHandover ==
  ASSUME PLInv, NEW p \in Procs, PL!ProcNext(p)
  PROVE  PL!HandoverStep
<1> DEFINE w == pl_waiters
<1> SUFFICES ASSUME NEW q \in Procs, pl_owner = q, pl_owner' # q
             PROVE  \/ w = <<>> /\ pl_owner' = NoProc
                    \/ \E i \in DOMAIN w :
                         /\ w[i].proc = pl_owner' /\ w' = PL!Unlinked(w, i)
                         /\ \A j \in DOMAIN w' : w'[j].priority <= w[i].priority
  BY Zenon DEF PL!HandoverStep
<1>1. pl_locked /\ w \in Seq(Nodes)
  BY LocksAssumption DEF PLInv, PL!TypeOK, Nodes
<1>2. \/ w = <<>> /\ pl_owner' = NoProc
      \/ \E i \in DOMAIN w : PL!IsHighest(i) /\ PL!HandOver(p, i)
  BY <1>1, Zenon DEF PL!ProcNext, PL!plock_acquire, PL!plock_release, PL!panic,
                     PL!ChildExit, PL!kill
<1>3. ASSUME NEW i \in DOMAIN w, PL!IsHighest(i), PL!HandOver(p, i)
      PROVE  /\ w[i].proc = pl_owner' /\ w' = PL!Unlinked(w, i)
             /\ \A j \in DOMAIN w' : w'[j].priority <= w[i].priority
  <2>1. w[i].proc = pl_owner' /\ w' = PL!Unlinked(w, i)
    BY <1>3 DEF PL!HandOver
  <2>2. \A j \in DOMAIN w : w[j].priority <= w[i].priority
    <3>1. \A j \in DOMAIN w : w[j].priority \in Nat /\ w[i].priority \in Nat
      BY <1>1, <1>3, NodeFacts
    <3>2. \A j \in DOMAIN w : \/ w[i].priority > w[j].priority
                              \/ w[i].priority >= w[j].priority
      BY <1>3, Zenon DEF PL!IsHighest
    <3>3. QED
      BY <3>1, <3>2
  <2>3. ASSUME NEW j \in DOMAIN w'
        PROVE  \E k \in DOMAIN w : w'[j] = w[k]
    <3>1. /\ w' \in Seq(Nodes) /\ Len(w') = Len(w) - 1
          /\ w'[j] = IF j < i THEN w[j] ELSE w[j + 1]
      BY <1>1, <1>3, <2>1, <2>3, UnlinkedFacts, Zenon
    <3>2. i \in 1..Len(w) /\ j \in 1..(Len(w) - 1) /\ DOMAIN w = 1..Len(w)
      BY <1>1, <1>3, <2>3, <3>1
    <3> HIDE DEF w
    <3>3. j \in DOMAIN w /\ j + 1 \in DOMAIN w
      BY <1>1, <3>2
    <3>4. w'[j] = w[j] \/ w'[j] = w[j + 1]
      BY <3>1
    <3>5. QED
      BY <3>3, <3>4, Zenon
  <2>4. QED
    BY <2>1, <2>2, <2>3
<1>4. QED
  BY <1>2, <1>3
-----------------------------------------------------------------------------
(***************************************************************************)
(* The three together: each keeps its invariant while the others move.     *)
(***************************************************************************)
LInv == SInv /\ RWInv /\ PLInv

LEMMA LocksInitially ==
  ASSUME LocksInit
  PROVE  LInv
<1> USE LocksAssumption DEF LocksInit
<1>1. SInv
  BY Zenon DEF S!Init, SInv, S!TypeOK, S!Places
<1>2. RWInv
  <2>1. Readers = {}
    BY DEF RW!Init, Readers
  <2>2. Cardinality(Readers) = 0
    BY <2>1, FS_EmptySet
  <2>3. QED
    BY <2>2, Zenon DEF RW!Init, RWInv, RW!TypeOK, RW!WriterKeepsLock, RW!Places
<1>3. PLInv
  <2>1. PL!NoIdleLock /\ PL!AcquiredIsOwned
    BY DEF PL!Init, PL!NoIdleLock, PL!AcquiredIsOwned
  <2>2. PL!TypeOK
    <3>1. <<>> \in Seq([proc : Procs, priority : Nat])
      BY EmptySeq, Zenon
    <3>2. pl_pc \in [Procs -> PL!Places]
      BY DEF PL!Init, PL!Places
    <3>3. pl_waiters = <<>> /\ pl_locked = FALSE /\ pl_owner = NoProc
          /\ disturbed = FALSE /\ panicked = FALSE
      BY DEF PL!Init
    <3>4. QED
      BY <3>1, <3>2, <3>3, Zenon DEF PL!TypeOK
  <2>3. QED
    BY <2>1, <2>2 DEF PLInv
<1>4. QED
  BY <1>1, <1>2, <1>3 DEF LInv

LEMMA SleepLockIdle ==
  ASSUME SInv, UNCHANGED sVars, panicked' \in BOOLEAN
  PROVE  SInv'
BY DEF SInv, S!TypeOK, sVars

LEMMA RWLockIdle ==
  ASSUME RWInv, UNCHANGED rwVars, panicked' \in BOOLEAN
  PROVE  RWInv'
<1>1. Readers' = Readers
  BY DEF Readers, rwVars
<1>2. QED
  BY <1>1 DEF RWInv, RW!TypeOK, RW!WriterKeepsLock, rwVars

LEMMA PLockIdle ==
  ASSUME PLInv, UNCHANGED plVars, panicked' \in BOOLEAN
  PROVE  PLInv'
BY DEF PLInv, PL!TypeOK, PL!NoIdleLock, PL!AcquiredIsOwned, plVars

LEMMA LocksStep ==
  ASSUME LInv, [LocksNext]_locksVars
  PROVE  LInv'
<1> USE DEF LInv
<1>1. CASE UNCHANGED locksVars
  <2>1. UNCHANGED <<sVars, rwVars, plVars, panicked>> /\ panicked \in BOOLEAN
    BY <1>1 DEF locksVars, SInv, S!TypeOK
  <2>2. QED
    BY <2>1, SleepLockIdle, RWLockIdle, PLockIdle
<1>2. ASSUME NEW p \in Procs, S!ProcNext(p), UNCHANGED <<rwVars, plVars>>
      PROVE  LInv'
  <2>1. SInv' /\ panicked' \in BOOLEAN
    BY <1>2, SleepLockStep DEF SInv, S!TypeOK
  <2>2. QED
    BY <1>2, <2>1, RWLockIdle, PLockIdle
<1>3. ASSUME NEW p \in Procs, RW!ProcNext(p), UNCHANGED <<sVars, plVars>>
      PROVE  LInv'
  <2>1. RWInv'
    BY <1>3, RWLockStep, RWLockCount, Zenon DEF RWInv
  <2>2. panicked' \in BOOLEAN
    BY <2>1 DEF RWInv, RW!TypeOK
  <2>3. QED
    BY <1>3, <2>1, <2>2, SleepLockIdle, PLockIdle
<1>4. ASSUME NEW p \in Procs, PL!ProcNext(p), UNCHANGED <<sVars, rwVars>>
      PROVE  LInv'
  <2>1. PLInv'
    BY <1>4, PLockStep
  <2>2. panicked' \in BOOLEAN
    BY <2>1 DEF PLInv, PL!TypeOK
  <2>3. QED
    BY <1>4, <2>1, <2>2, SleepLockIdle, RWLockIdle
<1>5. QED
  BY <1>1, <1>2, <1>3, <1>4, Zenon DEF LocksNext

\* The invariants of the three locks hold in every reachable state.
THEOREM LocksInvariance == LocksSpec => []LInv
<1>1. LocksInit => LInv
  BY LocksInitially
<1>2. LInv /\ [LocksNext]_locksVars => LInv'
  BY LocksStep
<1>3. QED
  BY <1>1, <1>2, PTL DEF LocksSpec

\* Whoever plock_acquire() or rwlock_acquire_write() lets through has the lock, for any
\* number of processes.
THEOREM AcquirersOwn == LocksSpec => []AcquiredIsOwned
<1>1. LInv => AcquiredIsOwned
  BY RWInvImplies DEF LInv, SInv, RWInv, PLInv, AcquiredIsOwned
<1>2. QED
  BY <1>1, LocksInvariance, PTL

\* Nobody sleeps in rwlock_acquire_read(), rwlock_acquire_write() or plock_acquire()
\* beside a free lock.
THEOREM NoWakeupIsLost == LocksSpec => []NoLostWakeup
<1>1. LInv => NoLostWakeup
  BY RWInvImplies DEF LInv, PLInv, NoLostWakeup
<1>2. QED
  BY <1>1, LocksInvariance, PTL

\* plock_release() hands the lock to a waiter of the highest priority, whatever children
\* exit and whichever waiters are killed.
THEOREM HighestIsServed == LocksSpec => PLockHandoverToHighest
<1>1. LInv /\ [LocksNext]_locksVars => [PL!HandoverStep]_locksVars
  <2> SUFFICES ASSUME LInv, [LocksNext]_locksVars
               PROVE  [PL!HandoverStep]_locksVars
    OBVIOUS
  <2>1. CASE UNCHANGED locksVars
    BY <2>1
  <2>2. ASSUME NEW p \in Procs, PL!ProcNext(p)
        PROVE  PL!HandoverStep
    BY <2>2, PLockHandover DEF LInv
  <2>3. ASSUME UNCHANGED plVars
        PROVE  PL!HandoverStep
    BY <2>3 DEF plVars, PL!HandoverStep
  <2>4. QED
    BY <2>1, <2>2, <2>3, Zenon DEF LocksNext
<1>2. QED
  BY <1>1, LocksInvariance, PTL DEF LocksSpec, PLockHandoverToHighest

\* acquiresleep() and releasesleep() implement a mutex.
THEOREM SleepLockExcludes == LocksSpec => SleepLockIsMutex
<1>1. LocksInit => S!Abstract!Init
  BY DEF LocksInit, S!Init, S!Abstract!Init
<1>2. LInv /\ [LocksNext]_locksVars => [S!Abstract!Next]_{p \in Procs : s_pc[p] = "in"}
  <2> DEFINE inside == {q \in Procs : s_pc[q] = "in"}
  <2> SUFFICES ASSUME LInv, [LocksNext]_locksVars
               PROVE  [S!Abstract!Next]_inside
    OBVIOUS
  <2>1. ASSUME NEW p \in Procs, S!ProcNext(p)
        PROVE  [S!Abstract!Next]_inside
    BY <2>1, SleepLockRefines DEF LInv
  <2>2. ASSUME UNCHANGED sVars
        PROVE  [S!Abstract!Next]_inside
    BY <2>2 DEF sVars
  <2>3. QED
    BY <2>1, <2>2, Zenon DEF LocksNext, locksVars
<1>3. QED
  BY <1>1, <1>2, LocksInvariance, PTL DEF LocksSpec, SleepLockIsMutex, S!IsMutex,
                                          S!Abstract!Spec
=============================================================================
