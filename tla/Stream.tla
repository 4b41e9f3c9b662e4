------------------------------- MODULE Stream -------------------------------
(***************************************************************************)
(* What a pipe promises: a bounded first-in first-out stream.  A writer's  *)
(* bytes enter it in the order of its buffer, all of them unless the write *)
(* fails, and a reader is given the oldest bytes of the stream, each byte  *)
(* once.                                                                   *)
(***************************************************************************)
EXTENDS Naturals, Sequences

CONSTANTS Writers, Readers, Buffers, Capacity

VARIABLES left,    \* for each writer, what its write has not yet delivered
          failed,  \* whether the last write of each writer has failed
          queue,   \* the bytes in the stream
          got      \* for each reader, what its last read returned

Init ==
  /\ left = [w \in Writers |-> <<>>] /\ failed = [w \in Writers |-> FALSE]
  /\ queue = <<>> /\ got = [r \in Readers |-> <<>>]

\* A write of s by w, new or interrupted, delivers the first k bytes, and then
\* waits to deliver the others or fails.
Deliver(w, s, k) ==
  /\ Len(queue) + k <= Capacity
  /\ queue' = queue \o SubSeq(s, 1, k)
  /\ \/ /\ left' = [left EXCEPT ![w] = SubSeq(s, k + 1, Len(s))]
        /\ failed' = [failed EXCEPT ![w] = FALSE]
     \/ /\ left' = [left EXCEPT ![w] = <<>>]
        /\ failed' = [failed EXCEPT ![w] = TRUE]
  /\ UNCHANGED got

\* A read takes the k oldest bytes.
Take(r, k) ==
  /\ got' = [got EXCEPT ![r] = SubSeq(queue, 1, k)]
  /\ queue' = SubSeq(queue, k + 1, Len(queue))
  /\ UNCHANGED <<left, failed>>

Next ==
  \/ \E w \in Writers :
       \E s \in IF left[w] = <<>> THEN Buffers ELSE {left[w]} :
         \E k \in 0..Len(s) : Deliver(w, s, k)
  \/ \E r \in Readers : \E k \in 0..Len(queue) : Take(r, k)

Spec == Init /\ [][Next]_<<left, failed, queue, got>>
=============================================================================
