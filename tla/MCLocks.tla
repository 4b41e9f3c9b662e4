------------------------------- MODULE MCLocks -------------------------------
(***************************************************************************)
(* The locks of the kernel for TLC: spinlocks (Spinlock), the order in     *)
(* which kernel code takes them (LockOrder), and the locks on which a      *)
(* process sleeps (Locks).  They share no state here, so that a behaviour  *)
(* moves one of the three.                                                 *)
(***************************************************************************)
EXTENDS Spinlock, Locks

CONSTANTS Paths, p1, p2, p3

\* p3 alone uses the highest priority; the others may tie.
RankedPriorities == [p \in Procs |-> IF p = p3 THEN {3} ELSE IF p = p2 THEN {1, 2} ELSE {1}]

VARIABLES holder, todo
Order == INSTANCE LockOrder

MCInit == Init /\ LocksInit /\ Order!Init
MCNext ==
  \/ LocksInit /\ Order!Init /\ UNCHANGED <<locksVars, holder, todo>> /\ Next
  \/ Init /\ Order!Init /\ UNCHANGED <<vars, holder, todo>> /\ LocksNext
  \/ Init /\ LocksInit /\ UNCHANGED <<vars, locksVars>> /\ Order!Next
MCSpec == MCInit /\ [][MCNext]_<<vars, locksVars, holder, todo>> /\ LocksFairness

\* Kernel code takes and gives up spinlocks in an order that no panic and no circular
\* waiting comes from, two known pairs of locks excepted (module LockOrder).
OrderSound == Order!OrderSound
=============================================================================
