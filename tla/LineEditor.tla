----------------------------- MODULE LineEditor -----------------------------
(***************************************************************************)
(* What a line editor promises: a key changes one stretch of one line and  *)
(* leaves the cursor behind it, or moves the cursor, or ends the line; and *)
(* a finished line reaches the reader whole, after the lines before it.    *)
(***************************************************************************)
EXTENDS Integers, Sequences

CONSTANT Newline

VARIABLES text, cur,   \* the line, and the number of characters left of the cursor
          out          \* what the reader has got or can get

vars == <<text, cur, out>>

Init == text = <<>> /\ cur = 0 /\ out = <<>>

\* The characters i+1 to j make place for n others.
Splice(i, j, n) ==
  /\ Len(text') = Len(text) - (j - i) + n
  /\ SubSeq(text', 1, i) = SubSeq(text, 1, i)
  /\ SubSeq(text', i + n + 1, Len(text')) = SubSeq(text, j + 1, Len(text))
  /\ cur' = i + n /\ UNCHANGED out

Insert == Len(text') > Len(text) /\ Splice(cur, cur, Len(text') - Len(text))

Delete == \E i, j \in 0..Len(text) : i < j /\ Splice(i, j, 0)

Overwrite == \E i, j \in 0..Len(text) : i < j /\ Splice(i, j, 1)

Move == cur' \in 0..Len(text) /\ UNCHANGED <<text, out>>

Enter == out' = out \o text \o <<Newline>> /\ text' = <<>> /\ cur' = 0

Next == Insert \/ Delete \/ Overwrite \/ Move \/ Enter

Spec == Init /\ [][Next]_vars
=============================================================================
