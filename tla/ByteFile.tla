------------------------------- MODULE ByteFile -------------------------------
(***************************************************************************)
(* What the file system promises of the contents of files: a file is a     *)
(* sequence of bytes; a write at the offset of an open file overwrites and *)
(* extends it there, and moves the offset, in one step; nothing else       *)
(* changes a file but its removal.                                         *)
(***************************************************************************)
EXTENDS Naturals, Sequences

CONSTANTS Inums, Handles, Bytes,
          MaxChunk      \* bytes that are written at once

VARIABLES content,      \* the bytes of each inode
          opened,       \* the inode of each open file, or 0
          off           \* the offset of each open file

vars == <<content, opened, off>>

Init ==
  /\ content = [i \in Inums |-> <<>>]
  /\ opened = [h \in Handles |-> 0] /\ off = [h \in Handles |-> 0]

Overwrite(s, at, d) ==
  [k \in 1..(IF at + Len(d) > Len(s) THEN at + Len(d) ELSE Len(s)) |->
     IF k \in at + 1 .. at + Len(d) THEN d[k - at] ELSE s[k]]

Open(h, i) ==
  /\ opened[h] = 0
  /\ opened' = [opened EXCEPT ![h] = i] /\ off' = [off EXCEPT ![h] = 0]
  /\ UNCHANGED content

Close(h) ==
  /\ opened' = [opened EXCEPT ![h] = 0]
  /\ UNCHANGED <<content, off>>

Write(h) ==
  /\ opened[h] # 0
  /\ \E d \in UNION {[1..n -> Bytes] : n \in 1..MaxChunk} :
       /\ content' = [content EXCEPT ![opened[h]] = Overwrite(@, off[h], d)]
       /\ off' = [off EXCEPT ![h] = @ + Len(d)]
       /\ UNCHANGED opened

\* A read gets what there is between the offset and the end.
Read(h) ==
  /\ opened[h] # 0
  /\ \E n \in 0 .. Len(content[opened[h]]) - off[h] : off' = [off EXCEPT ![h] = @ + n]
  /\ UNCHANGED <<content, opened>>

Remove(i) ==
  /\ \A h \in Handles : opened[h] # i
  /\ content' = [content EXCEPT ![i] = <<>>]
  /\ UNCHANGED <<opened, off>>

Next ==
  \/ \E h \in Handles : Close(h) \/ Write(h) \/ Read(h) \/ \E i \in Inums : Open(h, i)
  \/ \E i \in Inums : Remove(i)

Spec == Init /\ [][Next]_vars
=============================================================================
