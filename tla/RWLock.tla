------------------------------- MODULE RWLock -------------------------------
(***************************************************************************)
(* The readers-writer lock (rwlock.c) as rwtest.c makes it available to    *)
(* programs.  rw->lk is held throughout each function except inside        *)
(* sleep(), which gives it up and goes to sleep in one step as far as the  *)
(* other holders of rw->lk can see (module SleepLock shows this), so each  *)
(* passage from one to the next is one action.                             *)
(***************************************************************************)
EXTENDS Integers

CONSTANTS Procs,    \* the processes that use the lock
          NoProc,   \* pid 0, which no process has
          Strays    \* processes that may also release what they do not hold

VARIABLES
  read_count, writer, writer_pid,   \* struct rwlock
  pc,                               \* where each process is
  strayed,                          \* somebody's read has been ended by another process
  panicked                          \* some process has called panic()

vars == <<read_count, writer, writer_pid, pc, strayed, panicked>>

\* out: outside; reading, writing: inside; rsleep, wsleep: asleep on rw in
\* acquire_read, acquire_write; rtest, wtest: woken, about to test again.
Places == {"out", "reading", "writing", "rsleep", "wsleep", "rtest", "wtest"}

\* rwlock_init()
Init ==
  /\ read_count = 0 /\ writer = FALSE /\ writer_pid = NoProc
  /\ pc = [p \in Procs |-> "out"]
  /\ strayed = FALSE /\ panicked = FALSE

At(p, places) == ~panicked /\ pc[p] \in places

rwlock_acquire_read(p) ==
  /\ At(p, {"out", "rtest"})
  /\ \/ /\ writer
        /\ pc' = [pc EXCEPT ![p] = "rsleep"]
        /\ UNCHANGED <<read_count, strayed>>
     \/ /\ ~writer
        /\ read_count' = read_count + 1
        /\ pc' = [pc EXCEPT ![p] = "reading"]
  /\ UNCHANGED <<writer, writer_pid, strayed, panicked>>

acquire_writeOverReaders(p) ==
  /\ At(p, {"out", "wtest"})
  /\ ~writer
  /\ writer' = TRUE /\ writer_pid' = p
  /\ pc' = [pc EXCEPT ![p] = "writing"]
  /\ UNCHANGED <<read_count, strayed, panicked>>

rwlock_acquire_write(p) ==
  /\ At(p, {"out", "wtest"})
  /\ \/ /\ writer \/ read_count > 0
        /\ pc' = [pc EXCEPT ![p] = "wsleep"]
        /\ UNCHANGED <<writer, writer_pid>>
     \/ /\ ~writer /\ read_count <= 0
        /\ writer' = TRUE /\ writer_pid' = p
        /\ pc' = [pc EXCEPT ![p] = "writing"]
  /\ UNCHANGED <<read_count, strayed, panicked>>

WokenReadersOnly(p) ==
  [q \in Procs |-> IF q = p THEN "out" ELSE IF pc[q] = "rsleep" THEN "rtest" ELSE pc[q]]

\* wakeup(rw) by process p, which is then outside: all sleepers test again.
Woken(p) ==
  [q \in Procs |-> IF q = p THEN "out" ELSE
                   IF pc[q] = "rsleep" THEN "rtest" ELSE
                   IF pc[q] = "wsleep" THEN "wtest" ELSE pc[q]]

\* A release is called by a process inside, or by a stray one outside.
MayRelease(p, place) == At(p, {place}) \/ (p \in Strays /\ At(p, {"out"}))

rwlock_release_read(p) ==
  /\ MayRelease(p, "reading")
  /\ \/ /\ read_count < 1
        /\ panicked' = TRUE
        /\ UNCHANGED <<read_count, pc, strayed>>
     \/ /\ read_count >= 1
        /\ read_count' = read_count - 1
        /\ pc' = IF read_count = 1 THEN Woken(p) ELSE [pc EXCEPT ![p] = "out"]
        /\ strayed' = (strayed \/ pc[p] # "reading")
        /\ UNCHANGED panicked
  /\ UNCHANGED <<writer, writer_pid>>

rwlock_release_write(p) ==
  /\ MayRelease(p, "writing")
  /\ \/ /\ ~writer \/ writer_pid # p
        /\ panicked' = TRUE
        /\ UNCHANGED <<writer, writer_pid, pc>>
     \/ /\ writer /\ writer_pid = p
        /\ writer' = FALSE /\ writer_pid' = NoProc
        /\ pc' = Woken(p)
        /\ UNCHANGED panicked
  /\ UNCHANGED <<read_count, strayed>>

ProcNext(p) ==
  \/ rwlock_acquire_read(p) \/ rwlock_acquire_write(p)
  \/ rwlock_release_read(p) \/ rwlock_release_write(p)

Next == \E p \in Procs : ProcNext(p)

Spec == Init /\ [][Next]_vars

\* A woken process tests again, and whoever is inside eventually leaves.
Fairness ==
  \A p \in Procs :
    /\ WF_vars(pc[p] = "rtest" /\ rwlock_acquire_read(p))
    /\ WF_vars(pc[p] = "wtest" /\ rwlock_acquire_write(p))
    /\ WF_vars(pc[p] = "reading" /\ rwlock_release_read(p))
    /\ WF_vars(pc[p] = "writing" /\ rwlock_release_write(p))

FairSpec == Spec /\ Fairness
-----------------------------------------------------------------------------
(***************************************************************************)
(* Properties.                                                             *)
(***************************************************************************)

\* Type invariant: the fields of struct rwlock; read_count never underflows.
TypeOK ==
  /\ read_count \in Nat /\ writer \in BOOLEAN /\ writer_pid \in Procs \cup {NoProc}
  /\ pc \in [Procs -> Places] /\ strayed \in BOOLEAN /\ panicked \in BOOLEAN

\* As long as readers are ended by themselves only, nobody sleeps beside a free lock: a
\* sleeping reader waits for a writer, a sleeping writer for anybody inside.
NoLostWakeup ==
  ~strayed => \A p \in Procs :
    /\ pc[p] = "rsleep" => \E q \in Procs : pc[q] = "writing"
    /\ pc[p] = "wsleep" => \E q \in Procs : pc[q] \in {"reading", "writing"}

\* Whatever stray processes release, the writer stays the owner until it releases
\* the lock itself: rwlock_release_write() panics in anybody else.
WriterKeepsLock == \A p \in Procs : pc[p] = "writing" => (writer /\ writer_pid = p)

\* As long as readers are ended by themselves only, nobody is inside beside a writer.
WriterAlone ==
  ~strayed => \A p, q \in Procs :
    (pc[p] = "writing" /\ p # q) => pc[q] \notin {"reading", "writing"}

\* As long as nobody panics, a reader that has to wait for a writer is woken again.
ReaderWoken ==
  [](~panicked) => \A p \in Procs : (pc[p] = "rsleep") ~> (pc[p] # "rsleep")
=============================================================================
