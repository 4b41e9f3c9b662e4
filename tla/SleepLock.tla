------------------------------ MODULE SleepLock ------------------------------
(***************************************************************************)
(* A sleeplock (sleeplock.c) together with the two spinlocks its callers   *)
(* take inside sleep() and wakeup() (proc.c): lk->lk, which protects the   *)
(* sleeplock, and ptable.lock.  Every step between two operations on a     *)
(* spinlock is one action, so that the hand-over-hand passage from lk->lk  *)
(* to ptable.lock in sleep() is visible.                                   *)
(***************************************************************************)
EXTENDS Naturals

CONSTANTS Procs,   \* the processes that use the sleeplock
          NoProc   \* pid 0, which no process has

VARIABLES
  locked, owner,   \* struct sleeplock: locked, pid
  lk,              \* holder of the spinlock lk->lk, or NoProc
  ptable,          \* holder of ptable.lock, or NoProc
  pc,              \* where each process is
  panicked         \* some process has called panic()

vars == <<locked, owner, lk, ptable, pc, panicked>>

\* out, in: outside and inside the section the sleeplock protects;
\* acq, rel: about to take lk->lk in acquiresleep(), in releasesleep();
\* test: at the while of acquiresleep(), with lk->lk;
\* sleep: in sleep(), about to take ptable.lock; drop: about to release lk->lk;
\* sched: with ptable.lock, about to give up the CPU; asleep: SLEEPING on lk;
\* wakeup: unlocked, about to take ptable.lock; scan: in wakeup1(); done: about
\* to release lk->lk.
Places == {"out", "in", "acq", "rel", "test", "sleep", "drop", "sched", "asleep",
           "wakeup", "scan", "done"}

\* initsleeplock()
Init ==
  /\ locked = FALSE /\ owner = NoProc
  /\ lk = NoProc /\ ptable = NoProc
  /\ pc = [p \in Procs |-> "out"]
  /\ panicked = FALSE

Goto(p, from, to) == ~panicked /\ pc[p] = from /\ pc' = [pc EXCEPT ![p] = to]

\* A process calls acquiresleep(), which starts by taking lk->lk.
acquiresleep(p) ==
  /\ Goto(p, "out", "acq")
  /\ UNCHANGED <<locked, owner, lk, ptable, panicked>>

\* acquire(&lk->lk), at the beginning or on the way out of sleep().
AcquireLk(p) ==
  /\ Goto(p, "acq", "test")
  /\ lk = NoProc /\ lk' = p
  /\ UNCHANGED <<locked, owner, ptable, panicked>>

TakeLockUntested(p) ==
  /\ Goto(p, "test", "in")
  /\ locked' = TRUE /\ owner' = p
  /\ lk' = NoProc
  /\ UNCHANGED <<ptable, panicked>>

\* while (lk->locked) sleep(lk, &lk->lk): the lock is free, take it ...
TakeLock(p) ==
  /\ Goto(p, "test", "in")
  /\ ~locked
  /\ locked' = TRUE /\ owner' = p
  /\ lk' = NoProc
  /\ UNCHANGED <<ptable, panicked>>

\* ... or it is not.
MustSleep(p) ==
  /\ Goto(p, "test", "sleep")
  /\ locked
  /\ UNCHANGED <<locked, owner, lk, ptable, panicked>>

SleepAcquireNothing(p) ==
  /\ Goto(p, "sleep", "drop")
  /\ UNCHANGED <<locked, owner, lk, ptable, panicked>>

\* sleep() takes ptable.lock, then releases lk->lk, and only then sleeps.
SleepAcquire(p) ==
  /\ Goto(p, "sleep", "drop")
  /\ ptable = NoProc /\ ptable' = p
  /\ UNCHANGED <<locked, owner, lk, panicked>>

SleepRelease(p) ==
  /\ Goto(p, "drop", "sched")
  /\ lk' = NoProc
  /\ UNCHANGED <<locked, owner, ptable, panicked>>

\* p->state = SLEEPING; sched().  The scheduler releases ptable.lock.
SleepSched(p) ==
  /\ Goto(p, "sched", "asleep")
  /\ ptable' = NoProc
  /\ UNCHANGED <<locked, owner, lk, panicked>>

\* Any process may call releasesleep().
releasesleep(p) ==
  /\ Goto(p, "in", "rel") \/ Goto(p, "out", "rel")
  /\ UNCHANGED <<locked, owner, lk, ptable, panicked>>

\* releasesleep() panics unless its caller holds the lock, frees it, and goes on
\* to wakeup(lk) with lk->lk still held.
ReleaseLock(p) ==
  /\ lk = NoProc
  /\ \/ /\ locked /\ owner = p
        /\ Goto(p, "rel", "wakeup")
        /\ lk' = p
        /\ locked' = FALSE /\ owner' = NoProc
        /\ UNCHANGED panicked
     \/ /\ ~(locked /\ owner = p)
        /\ pc[p] = "rel" /\ ~panicked
        /\ panicked' = TRUE
        /\ UNCHANGED <<locked, owner, lk, pc>>
  /\ UNCHANGED ptable

WakeupAcquire(p) ==
  /\ Goto(p, "wakeup", "scan")
  /\ ptable = NoProc /\ ptable' = p
  /\ UNCHANGED <<locked, owner, lk, panicked>>

\* wakeup1(): everybody asleep will run again and take lk->lk.
Wakeup(p) ==
  /\ ~panicked /\ pc[p] = "scan"
  /\ pc' = [q \in Procs |-> IF q = p THEN "done" ELSE
                            IF pc[q] = "asleep" THEN "acq" ELSE pc[q]]
  /\ ptable' = NoProc
  /\ UNCHANGED <<locked, owner, lk, panicked>>

ReleaseLk(p) ==
  /\ Goto(p, "done", "out")
  /\ lk' = NoProc
  /\ UNCHANGED <<locked, owner, ptable, panicked>>

Step(p) ==
  \/ AcquireLk(p) \/ TakeLock(p) \/ MustSleep(p)
  \/ SleepAcquire(p) \/ SleepRelease(p) \/ SleepSched(p)
  \/ ReleaseLock(p) \/ WakeupAcquire(p) \/ Wakeup(p) \/ ReleaseLk(p)

ProcNext(p) == acquiresleep(p) \/ releasesleep(p) \/ Step(p)

Next == \E p \in Procs : ProcNext(p)

Spec == Init /\ [][Next]_vars

\* Every process keeps running, spinning for a spinlock included, and whoever
\* holds the sleeplock eventually releases it.
Fairness ==
  \A p \in Procs : /\ WF_vars(Step(p)) /\ SF_vars(AcquireLk(p) \/ ReleaseLock(p))
                   /\ SF_vars(SleepAcquire(p) \/ WakeupAcquire(p))
                   /\ WF_vars(pc[p] = "in" /\ releasesleep(p))

FairSpec == Spec /\ Fairness
-----------------------------------------------------------------------------
(***************************************************************************)
(* Properties.                                                             *)
(***************************************************************************)

\* Type invariant: lk->pid and the holders of the two spinlocks are processes or
\* nobody, and the sleeplock has a pid exactly while it is locked.
TypeOK ==
  /\ locked \in BOOLEAN /\ owner \in Procs \cup {NoProc}
  /\ lk \in Procs \cup {NoProc} /\ ptable \in Procs \cup {NoProc}
  /\ pc \in [Procs -> Places] /\ panicked \in BOOLEAN
  /\ locked <=> owner # NoProc

\* sleep() "Once we hold ptable.lock, we can be guaranteed that we won't miss any
\* wakeup": as long as nobody panics, a process that sleeps in acquiresleep() is woken.
SleeperWoken ==
  [](~panicked) => \A p \in Procs : (pc[p] = "asleep") ~> (pc[p] # "asleep")

\* The sleeplock is a mutex: a process that acquiresleep() has let through is alone
\* inside until it calls releasesleep().
Abstract == INSTANCE Mutex WITH Users <- Procs, inside <- {p \in Procs : pc[p] = "in"}

IsMutex == Abstract!Spec
=============================================================================
