----------------------------- MODULE AtomicDisk -----------------------------
(***************************************************************************)
(* What the log promises the file system: the blocks survive a crash as    *)
(* they were at some moment at which no operation was under way, so that   *)
(* of each operation either all writes survive or none.                    *)
(***************************************************************************)
EXTENDS Naturals

CONSTANTS Procs, Blocks, Vals, InitVal

VARIABLES stable,    \* the blocks as they would be found after a crash
          current,   \* the blocks as operations see them
          active     \* the processes inside an operation

Init ==
  /\ stable = [b \in Blocks |-> InitVal]
  /\ current = stable
  /\ active = {}

Begin(p) == p \notin active /\ active' = active \cup {p} /\ UNCHANGED <<stable, current>>

Write(p, b, v) ==
  /\ p \in active
  /\ current' = [current EXCEPT ![b] = v]
  /\ UNCHANGED <<stable, active>>

End(p) == p \in active /\ active' = active \ {p} /\ UNCHANGED <<stable, current>>

Commit == active = {} /\ stable' = current /\ UNCHANGED <<current, active>>

Crash == current' = stable /\ active' = {} /\ UNCHANGED stable

Next == \/ \E p \in Procs : \/ Begin(p) \/ End(p)
                            \/ \E b \in Blocks, v \in Vals : Write(p, b, v)
        \/ Commit \/ Crash

Spec == Init /\ [][Next]_<<stable, current, active>>
=============================================================================
