-------------------------------- MODULE PLock --------------------------------
(***************************************************************************)
(* The priority lock (plock_* in spinlock.c) behind the plock_acquire and  *)
(* plock_release system calls.  pl->lock is held throughout each function  *)
(* except inside sleep(), so each passage is one action.  A waiter sleeps  *)
(* on the channel of its own struct proc, which is also the channel on     *)
(* which exit() wakes the parent of a dying process and on which kill()    *)
(* finds every sleeper.                                                    *)
(***************************************************************************)
EXTENDS Naturals, Sequences

CONSTANTS Procs,       \* the processes that use the lock
          NoProc,      \* the null pointer
          Priorities,  \* for each process, the values it passes to plock_acquire
          Parents,     \* processes a child of which may exit meanwhile
          Killable     \* processes that may be killed while they wait

VARIABLES
  locked, owner,   \* struct plock
  waiters,         \* the list at pl->head, first node first
  pc,              \* where each process is
  disturbed,       \* a waiter has been woken or killed by somebody else
  panicked         \* some process has called panic()

vars == <<locked, owner, waiters, pc, disturbed, panicked>>

\* out: outside; in: back from plock_acquire(); asleep: SLEEPING inside it; lost:
\* killed there, hence RUNNABLE but on no run queue (module Proc).
Places == {"out", "in", "asleep", "lost"}

\* plock_init()
Init ==
  /\ locked = FALSE /\ owner = NoProc /\ waiters = <<>>
  /\ pc = [p \in Procs |-> "out"]
  /\ disturbed = FALSE /\ panicked = FALSE

panic == panicked' = TRUE /\ UNCHANGED <<locked, owner, waiters, pc, disturbed>>

\* The lock is free and p takes it; or p puts a node with its priority at the head
\* of the list and sleeps; or there is no memory for the node.
plock_acquire(p, priority) ==
  /\ ~panicked /\ pc[p] = "out"
  /\ \/ /\ ~locked
        /\ locked' = TRUE /\ owner' = p
        /\ pc' = [pc EXCEPT ![p] = "in"]
        /\ UNCHANGED <<waiters, disturbed, panicked>>
     \/ /\ locked
        /\ waiters' = <<[proc |-> p, priority |-> priority]>> \o waiters
        /\ pc' = [pc EXCEPT ![p] = "asleep"]
        /\ UNCHANGED <<locked, owner, disturbed, panicked>>
     \/ locked /\ panic

IsLowest(i) ==
  \A j \in DOMAIN waiters :
    IF j < i THEN waiters[i].priority < waiters[j].priority
             ELSE waiters[i].priority <= waiters[j].priority

\* The search of plock_release() stops at the first node of the highest priority.
IsHighest(i) ==
  \A j \in DOMAIN waiters :
    IF j < i THEN waiters[i].priority > waiters[j].priority
             ELSE waiters[i].priority >= waiters[j].priority

\* wakeup(q): q, if it is still asleep on its own struct proc, returns from
\* plock_acquire(), which does not look at the lock again.
Wakened(pcs, q) == [pcs EXCEPT ![q] = IF @ = "asleep" THEN "in" ELSE @]

\* *highest_prev = highest->next
Unlinked(list, i) == SubSeq(list, 1, i - 1) \o SubSeq(list, i + 1, Len(list))

\* The node leaves the list and its process becomes the owner.
HandOver(p, i) ==
  /\ owner' = waiters[i].proc
  /\ waiters' = Unlinked(waiters, i)
  /\ pc' = Wakened([pc EXCEPT ![p] = "out"], owner')
  /\ UNCHANGED locked

\* Any process may call plock_release(); all but the owner panic.
plock_release(p) ==
  /\ ~panicked /\ pc[p] \in {"in", "out"}
  /\ \/ owner # p /\ panic
     \/ /\ owner = p /\ waiters = <<>>
        /\ locked' = FALSE /\ owner' = NoProc /\ pc' = [pc EXCEPT ![p] = "out"]
        /\ UNCHANGED <<waiters, disturbed, panicked>>
     \/ /\ owner = p
        /\ \E i \in DOMAIN waiters : IsHighest(i) /\ HandOver(p, i)
        /\ UNCHANGED <<disturbed, panicked>>

\* A child of p calls exit(), which does wakeup1(curproc->parent).
ChildExit(p) ==
  /\ ~panicked /\ p \in Parents /\ pc[p] = "asleep"
  /\ pc' = Wakened(pc, p)
  /\ disturbed' = TRUE
  /\ UNCHANGED <<locked, owner, waiters, panicked>>

\* kill(): RUNNABLE without a run queue.
kill(p) ==
  /\ ~panicked /\ p \in Killable /\ pc[p] = "asleep"
  /\ pc' = [pc EXCEPT ![p] = "lost"]
  /\ disturbed' = TRUE
  /\ UNCHANGED <<locked, owner, waiters, panicked>>

ProcNext(p) ==
  \/ \E priority \in Priorities[p] : plock_acquire(p, priority)
  \/ plock_release(p) \/ ChildExit(p) \/ kill(p)

Next == \E p \in Procs : ProcNext(p)

Spec == Init /\ [][Next]_vars

\* Whoever is inside eventually leaves.
Fairness == \A p \in Procs : WF_vars(pc[p] = "in" /\ plock_release(p))

FairSpec == Spec /\ Fairness
-----------------------------------------------------------------------------
(***************************************************************************)
(* Properties.                                                             *)
(***************************************************************************)

\* Type invariant: struct plock and its list of nodes; owner and locked agree.
TypeOK ==
  /\ locked \in BOOLEAN /\ owner \in Procs \cup {NoProc}
  /\ waiters \in Seq([proc : Procs, priority : Nat])
  /\ pc \in [Procs -> Places] /\ disturbed \in BOOLEAN /\ panicked \in BOOLEAN
  /\ locked <=> owner # NoProc

\* plock_release() never frees the lock over the head of a waiter: a process has a
\* node, or has been made the owner, as long as it sleeps in plock_acquire().
NoIdleLock ==
  /\ ~locked => waiters = <<>>
  /\ \A p \in Procs : pc[p] = "asleep" => \E i \in DOMAIN waiters : waiters[i].proc = p

\* Even with children that exit and waiters that are killed, ownership passes only by a
\* release of the owner.  A release that finds waiters makes one of them the owner, and no
\* node with a higher priority than the new owner's stays behind.
HandoverStep ==
  \A p \in Procs : (owner = p /\ owner' # p) =>
    \/ waiters = <<>> /\ owner' = NoProc
    \/ \E i \in DOMAIN waiters :
         /\ waiters[i].proc = owner' /\ waiters' = Unlinked(waiters, i)
         /\ \A j \in DOMAIN waiters' : waiters'[j].priority <= waiters[i].priority

\* As long as no child of a waiter exits and no waiter is killed, a caller that
\* plock_acquire() has returned to owns the lock.
AcquiredIsOwned == ~disturbed => \A p \in Procs : pc[p] = "in" => owner = p

\* A process whose priority exceeds everybody else's does not starve: as long as nobody
\* panics or disturbs a waiter, it becomes the owner whenever it waits.
TopServed ==
  [](~panicked /\ ~disturbed) =>
    \A p \in Procs :
      (\A q \in Procs \ {p} : \A m \in Priorities[p], n \in Priorities[q] : m > n)
      => (pc[p] = "asleep" ~> owner = p)
=============================================================================
