------------------------------ MODULE BufCache ------------------------------
(***************************************************************************)
(* The buffer cache (bio.c) and the queue of the disk driver (ide.c).      *)
(* bcache.lock and idelock are held throughout the critical sections, so   *)
(* each is one action; the sleeplock of a buffer is what module SleepLock  *)
(* shows it to be, a mutex with an owner.  There is one device, and its    *)
(* commands do not fail.                                                   *)
(***************************************************************************)
EXTENDS Naturals, Sequences, FiniteSets, SequencesExt

CONSTANTS Procs, NoProc,
          NBUF,               \* number of buffers
          Blocks, NoBlock,    \* the blocks of the disk, and none
          Vals, InitVal       \* what a block may hold, and holds at first

\* What is assumed of the constants.
BufCacheConstants ==
  /\ NoProc \notin Procs /\ NoBlock \notin Blocks /\ InitVal \in Vals /\ NBUF \in Nat \ {0}

Bufs == 1..NBUF

VARIABLES
  lru,            \* the list of bcache, most recently used first
  blockno, B_VALID, B_DIRTY, refcnt, data,   \* struct buf
  owner,          \* the process that holds the lock of a buffer
  idequeue,       \* the buffers with a request; the drive works for the first
  drive,          \* what the drive has been told to do
  disk,           \* the blocks on the disk
  pc, b,          \* where each process is, and with which buffer
  panicked,
  latest          \* what has been stored last into each block

bufVars == <<blockno, refcnt, lru>>
ioVars  == <<idequeue, drive, disk>>
vars == <<lru, blockno, B_VALID, B_DIRTY, refcnt, data, owner, idequeue, drive, disk, pc, b,
          panicked, latest>>

\* out: without a buffer; lock: in acquiresleep(); request: in iderw(); sleep: asleep
\* there; test: woken there; using: returned from bread() or bwrite(); drop: in brelse(),
\* the lock released.
Places == {"out", "lock", "request", "sleep", "test", "using", "drop"}

\* The drive does nothing, or reads or writes a block.
Commands == {<<>>} \cup {<<"read", k>> : k \in Blocks}
                   \cup {<<"write", k, v>> : k \in Blocks, v \in Vals}

\* binit(): each buffer is put at the head of the list.
Init ==
  /\ lru = [i \in Bufs |-> NBUF + 1 - i]
  /\ blockno = [i \in Bufs |-> NoBlock]
  /\ B_VALID = [i \in Bufs |-> FALSE] /\ B_DIRTY = [i \in Bufs |-> FALSE]
  /\ refcnt = [i \in Bufs |-> 0] /\ data = [i \in Bufs |-> InitVal]
  /\ owner = [i \in Bufs |-> NoProc]
  /\ idequeue = <<>> /\ drive = <<>> /\ disk = [k \in Blocks |-> InitVal]
  /\ pc = [p \in Procs |-> "out"] /\ b = [p \in Procs |-> 0]
  /\ panicked = FALSE /\ latest = disk

At(p, place) == ~panicked /\ pc[p] = place

Goto(p, place) == pc' = [pc EXCEPT ![p] = place]
-----------------------------------------------------------------------------
(***************************************************************************)
(* bio.c                                                                   *)
(***************************************************************************)

Cached(k) == {i \in Bufs : blockno[i] = k}

\* "Even if refcnt==0, B_DIRTY indicates a buffer is in use"
Unused == {i \in Bufs : refcnt[i] = 0 /\ ~B_DIRTY[i]}

\* The first buffer of the set found from the tail of the list.
IsLeastRecent(i, set) ==
  i \in set /\ \A j \in set : \E m, n \in DOMAIN lru : m >= n /\ lru[m] = i /\ lru[n] = j

Recycle(i, k) ==
  /\ blockno' = [blockno EXCEPT ![i] = k]
  /\ B_VALID' = [B_VALID EXCEPT ![i] = FALSE] /\ B_DIRTY' = [B_DIRTY EXCEPT ![i] = FALSE]
  /\ refcnt' = [refcnt EXCEPT ![i] = 1]

bgetUncached(p, k) ==
  /\ At(p, "out")
  /\ \E i \in Bufs : IsLeastRecent(i, Unused) /\ Recycle(i, k) /\ b' = [b EXCEPT ![p] = i]
  /\ Goto(p, "lock")
  /\ UNCHANGED <<lru, data, owner, ioVars, panicked, latest>>

\* bget() up to acquiresleep(): find block k in the cache or recycle a buffer.
bget(p, k) ==
  /\ At(p, "out")
  /\ \/ /\ \E i \in Cached(k) : /\ refcnt' = [refcnt EXCEPT ![i] = @ + 1]
                                /\ b' = [b EXCEPT ![p] = i]
        /\ Goto(p, "lock")
        /\ UNCHANGED <<blockno, B_VALID, B_DIRTY, panicked>>
     \/ /\ Cached(k) = {}
        /\ \E i \in Bufs : /\ IsLeastRecent(i, Unused) /\ Recycle(i, k)
                           /\ b' = [b EXCEPT ![p] = i]
        /\ Goto(p, "lock")
        /\ UNCHANGED panicked
     \/ /\ Cached(k) = {} /\ Unused = {}
        /\ panicked' = TRUE
        /\ UNCHANGED <<blockno, B_VALID, B_DIRTY, refcnt, pc, b>>
  /\ UNCHANGED <<lru, data, owner, ioVars, latest>>

\* acquiresleep() in bget(), and bread()'s look at the flags.
bread(p) ==
  /\ At(p, "lock") /\ owner[b[p]] = NoProc
  /\ owner' = [owner EXCEPT ![b[p]] = p]
  /\ Goto(p, IF B_VALID[b[p]] THEN "using" ELSE "request")
  /\ UNCHANGED <<bufVars, B_VALID, B_DIRTY, data, ioVars, b, panicked, latest>>

\* The owner changes the data and calls log_write(), which pins the buffer.
Modify(p, v) ==
  /\ At(p, "using")
  /\ data' = [data EXCEPT ![b[p]] = v]
  /\ B_DIRTY' = [B_DIRTY EXCEPT ![b[p]] = TRUE]
  /\ latest' = [latest EXCEPT ![blockno[b[p]]] = v]
  /\ UNCHANGED <<bufVars, B_VALID, owner, ioVars, pc, b, panicked>>

\* bwrite() up to iderw().
bwrite(p) ==
  /\ At(p, "using")
  /\ B_DIRTY' = [B_DIRTY EXCEPT ![b[p]] = TRUE]
  /\ Goto(p, "request")
  /\ UNCHANGED <<bufVars, B_VALID, data, owner, ioVars, b, panicked, latest>>

\* brelse(): releasesleep().
brelse(p) ==
  /\ At(p, "using")
  /\ owner' = [owner EXCEPT ![b[p]] = NoProc]
  /\ Goto(p, "drop")
  /\ UNCHANGED <<bufVars, B_VALID, B_DIRTY, data, ioVars, b, panicked, latest>>

MovedToHead(i) == <<i>> \o SelectSeq(lru, LAMBDA j : j # i)

\* brelse() under bcache.lock: a buffer that nobody waits for moves to the head.
Drop(p) ==
  LET i == b[p]
  IN /\ At(p, "drop")
     /\ refcnt' = [refcnt EXCEPT ![i] = @ - 1]
     /\ lru' = IF refcnt[i] = 1 THEN MovedToHead(i) ELSE lru
     /\ b' = [b EXCEPT ![p] = 0] /\ Goto(p, "out")
     /\ UNCHANGED <<blockno, B_VALID, B_DIRTY, data, owner, ioVars, panicked, latest>>
-----------------------------------------------------------------------------
(***************************************************************************)
(* ide.c                                                                   *)
(***************************************************************************)

\* What idestart() tells the drive to do for buffer i.
Command(i) == IF B_DIRTY[i] THEN <<"write", blockno[i], data[i]>> ELSE <<"read", blockno[i]>>

idestart(queue) == drive' = IF queue = <<>> THEN <<>> ELSE Command(Head(queue))

\* iderw(): queue the request, start the drive if it was idle, and sleep.
iderw(p) ==
  /\ At(p, "request")
  /\ idequeue' = Append(idequeue, b[p])
  /\ IF idequeue = <<>> THEN idestart(idequeue') ELSE UNCHANGED drive
  /\ Goto(p, "sleep")
  /\ UNCHANGED <<bufVars, B_VALID, B_DIRTY, data, owner, disk, b, panicked, latest>>

iderw_wokenDirty(p) ==
  /\ At(p, "test") /\ B_VALID[b[p]] /\ B_DIRTY[b[p]]
  /\ Goto(p, "using")
  /\ UNCHANGED <<bufVars, B_VALID, B_DIRTY, data, owner, ioVars, b, panicked, latest>>

\* The loop of iderw() once woken.
iderw_woken(p) ==
  /\ At(p, "test")
  /\ Goto(p, IF B_VALID[b[p]] /\ ~B_DIRTY[b[p]] THEN "using" ELSE "sleep")
  /\ UNCHANGED <<bufVars, B_VALID, B_DIRTY, data, owner, ioVars, b, panicked, latest>>

\* The drive has done what it was told, and ideintr() answers its interrupt: it
\* completes the first request, wakes whoever waits and starts the next.
ideintr ==
  LET i == Head(idequeue)
  IN /\ ~panicked /\ drive # <<>>
     /\ disk' = IF drive[1] = "write" THEN [disk EXCEPT ![drive[2]] = drive[3]] ELSE disk
     /\ data' = [data EXCEPT ![i] = IF B_DIRTY[i] THEN @ ELSE disk[drive[2]]]
     /\ B_VALID' = [B_VALID EXCEPT ![i] = TRUE] /\ B_DIRTY' = [B_DIRTY EXCEPT ![i] = FALSE]
     /\ pc' = [p \in Procs |-> IF pc[p] = "sleep" /\ b[p] = i THEN "test" ELSE pc[p]]
     /\ idequeue' = Tail(idequeue) /\ idestart(idequeue')
     /\ UNCHANGED <<bufVars, owner, b, panicked, latest>>

Next ==
  \/ \E p \in Procs : \/ \E k \in Blocks : bget(p, k)
                      \/ \E v \in Vals : Modify(p, v)
                      \/ bread(p) \/ bwrite(p) \/ brelse(p) \/ Drop(p)
                      \/ iderw(p) \/ iderw_woken(p)
  \/ ideintr

\* The drive finishes what it is told, and whoever has been woken runs.
Fairness == WF_vars(ideintr) /\ \A p \in Procs : WF_vars(iderw_woken(p))
Spec == Init /\ [][Next]_vars /\ Fairness
-----------------------------------------------------------------------------
(***************************************************************************)
(* Properties.                                                             *)
(***************************************************************************)

\* Type invariant: struct buf and the lists; every buffer is once on the list of bcache.
TypeOK ==
  /\ lru \in [Bufs -> Bufs] /\ \A i \in Bufs : \E n \in Bufs : lru[n] = i
  /\ blockno \in [Bufs -> Blocks \cup {NoBlock}] /\ data \in [Bufs -> Vals]
  /\ B_VALID \in [Bufs -> BOOLEAN] /\ B_DIRTY \in [Bufs -> BOOLEAN]
  /\ refcnt \in [Bufs -> Nat] /\ owner \in [Bufs -> Procs \cup {NoProc}]
  /\ idequeue \in Seq(Bufs) /\ drive \in Commands /\ disk \in [Blocks -> Vals]
  /\ pc \in [Procs -> Places] /\ b \in [Procs -> 0..NBUF] /\ panicked \in BOOLEAN

\* "a synchronization point for disk blocks": a block is in one buffer at most, although
\* bget() lets go of bcache.lock before it has the lock of the buffer.
OneBufferPerBlock ==
  \A i, j \in Bufs : (blockno[i] = blockno[j] /\ blockno[i] # NoBlock) => i = j

\* refcnt counts the processes that use a buffer or wait for it, so none is recycled
\* under them.
RefcntRight == \A i \in Bufs : refcnt[i] = Cardinality({p \in Procs : b[p] = i})

\* The drive works for the first buffer of the queue, which is locked while it waits.
DriveServesHead ==
  /\ (drive = <<>>) <=> (idequeue = <<>>)
  /\ idequeue # <<>> => drive = Command(Head(idequeue))
  /\ \A n \in DOMAIN idequeue : \E p \in Procs : owner[idequeue[n]] = p /\ pc[p] = "sleep"

\* What bread() returns is what was last stored into the block, wherever that is: in
\* the cache, pinned and not yet written, or on the disk, with which a buffer that is
\* valid and not dirty agrees.
ReadsLatest ==
  /\ \A p \in Procs : pc[p] = "using" => data[b[p]] = latest[blockno[b[p]]]
  /\ \A i \in Bufs : (B_VALID[i] /\ ~B_DIRTY[i]) => data[i] = disk[blockno[i]]

\* The cache and the queue of the drive describe what the processes are doing, and what
\* is read is what was stored.
CacheSound == TypeOK /\ OneBufferPerBlock /\ RefcntRight /\ DriveServesHead /\ ReadsLatest

\* Every request is served: who sleeps in iderw() gets its block.
RequestServed ==
  []~panicked => \A p \in Procs : (pc[p] = "sleep") ~> (pc[p] = "using")
=============================================================================
