-------------------------------- MODULE Locks --------------------------------
(***************************************************************************)
(* Processes that use the three locks of the kernel on which a process     *)
(* sleeps: a sleeplock, the readers-writer lock and the priority lock.  A  *)
(* process uses one of them at a time, and a panic() stops them all.       *)
(***************************************************************************)
EXTENDS Naturals, FiniteSets

CONSTANTS Procs, NoProc, Strays, Priorities, Parents, Killable

ASSUME LocksAssumption ==
  /\ IsFiniteSet(Procs) /\ NoProc \notin Procs /\ Strays \subseteq Procs
  /\ Priorities \in [Procs -> SUBSET Nat]
  /\ Parents \subseteq Procs /\ Killable \subseteq Procs

VARIABLES
  s_locked, s_owner, s_lk, ptable, s_pc,                     \* the sleeplock
  rw_read_count, rw_writer, rw_writer_pid, rw_pc, strayed,   \* the rwlock
  pl_locked, pl_owner, pl_waiters, pl_pc, disturbed,         \* the plock
  panicked

sVars  == <<s_locked, s_owner, s_lk, ptable, s_pc>>
rwVars == <<rw_read_count, rw_writer, rw_writer_pid, rw_pc, strayed>>
plVars == <<pl_locked, pl_owner, pl_waiters, pl_pc, disturbed>>
locksVars == <<sVars, rwVars, plVars, panicked>>

S == INSTANCE SleepLock WITH locked <- s_locked, owner <- s_owner, lk <- s_lk, pc <- s_pc

RW == INSTANCE RWLock WITH read_count <- rw_read_count, writer <- rw_writer,
                           writer_pid <- rw_writer_pid, pc <- rw_pc

PL == INSTANCE PLock WITH locked <- pl_locked, owner <- pl_owner, waiters <- pl_waiters,
                          pc <- pl_pc

LocksInit == S!Init /\ RW!Init /\ PL!Init

LocksNext ==
  \E p \in Procs :
    \/ /\ rw_pc[p] = "out" /\ pl_pc[p] = "out"
       /\ S!ProcNext(p) /\ UNCHANGED <<rwVars, plVars>>
    \/ /\ s_pc[p] = "out" /\ pl_pc[p] = "out"
       /\ RW!ProcNext(p) /\ UNCHANGED <<sVars, plVars>>
    \/ /\ s_pc[p] = "out" /\ rw_pc[p] = "out"
       /\ PL!ProcNext(p) /\ UNCHANGED <<sVars, rwVars>>

\* Whoever has been woken runs again, and whoever is inside eventually leaves.
LocksFairness == S!Fairness /\ RW!Fairness /\ PL!Fairness
LocksSpec == LocksInit /\ [][LocksNext]_locksVars /\ LocksFairness
-----------------------------------------------------------------------------
(***************************************************************************)
(* Properties: those of the three modules, which say what they are about.  *)
(***************************************************************************)

\* Who acquires a lock has it: plock_acquire() returns to the owner only unless its sleep
\* is disturbed, rwlock_acquire_write() only when nobody else is inside, and a release by
\* somebody else takes the lock from nobody.
AcquiredIsOwned ==
  /\ S!TypeOK /\ RW!TypeOK /\ PL!TypeOK
  /\ RW!WriterAlone /\ RW!WriterKeepsLock /\ PL!AcquiredIsOwned

\* A process that acquiresleep() has let through is alone inside until it calls
\* releasesleep().
SleepLockIsMutex == S!IsMutex

\* Nobody sleeps on a readers-writer lock that nobody is left to release, and
\* plock_release() leaves no waiter behind beside a free lock.
NoLostWakeup == RW!NoLostWakeup /\ PL!NoIdleLock

\* plock_release() hands the lock to a waiter of the highest priority.
PLockHandoverToHighest == [][PL!HandoverStep]_locksVars

\* Whoever sleeps in acquiresleep() or rwlock_acquire_read() is woken, and the highest
\* priority does not starve in plock_acquire().
SleepersServed == S!SleeperWoken /\ RW!ReaderWoken /\ PL!TopServed
=============================================================================
