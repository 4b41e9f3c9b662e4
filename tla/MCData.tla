------------------------------- MODULE MCData -------------------------------
(***************************************************************************)
(* Instances for TLC of what holds the data of processes: pipes, the       *)
(* blocks of files, the pages of address spaces and the heap that a user   *)
(* program keeps in them.  They share no state, so that a behaviour moves  *)
(* one of them and leaves the others as they begin.                        *)
(***************************************************************************)
EXTENDS Pipe, FileContents, Memory, Heap, TLC

\* Buffers shorter and longer than a pipe of two bytes.
SomeBuffers == {<<"b">>, <<"a", "b", "a">>}

MCPages == 1..15
MCIncrements == {3, 12, -1, -20}

\* A program of one segment, and one of two with ends in the middle of a page.
MCImages == {<<2>>, <<1, 3>>}

Symmetry == Permutations(Handles)

FilesIdle == steps = 0 /\ UNCHANGED contentsVars
MemoryIdle == ncalls = 0 /\ UNCHANGED memoryVars
HeapIdle == heap.freep = null /\ heap.brk = 1 /\ UNCHANGED heapVars
PipeIdle == Init /\ UNCHANGED vars

MCInit == Init /\ ContentsInit /\ MemoryInit /\ HeapInit
MCNext ==
  \/ FilesIdle /\ MemoryIdle /\ HeapIdle /\ Next
  \/ PipeIdle /\ MemoryIdle /\ HeapIdle /\ ContentsNext
  \/ PipeIdle /\ FilesIdle /\ HeapIdle /\ MemoryNext
  \/ PipeIdle /\ FilesIdle /\ MemoryIdle /\ HeapNext
MCSpec == MCInit /\ [][MCNext]_<<vars, contentsVars, memoryVars, heapVars>>
=============================================================================
