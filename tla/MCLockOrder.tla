---------------------------- MODULE MCLockOrder ----------------------------
(* The order of spinlocks alone, for TLC. *)
EXTENDS LockOrder
=============================================================================
