-------------------------------- MODULE Mutex --------------------------------
(***************************************************************************)
(* What a lock promises its callers: at most one of them is inside at a    *)
(* time, from the return of its acquire to its call of release.            *)
(***************************************************************************)
CONSTANT Users     \* whoever may hold the lock

VARIABLE inside

Init == inside = {}

Acquire(u) == inside = {} /\ inside' = {u}

Release(u) == inside = {u} /\ inside' = {}

Next == \E u \in Users : Acquire(u) \/ Release(u)

Spec == Init /\ [][Next]_inside
=============================================================================
