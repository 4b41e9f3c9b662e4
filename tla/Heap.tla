--------------------------------- MODULE Heap ---------------------------------
(***************************************************************************)
(* The allocator of user programs (umalloc.c): a circular list of free     *)
(* blocks in the order of their addresses, each with a header of one unit. *)
(* Addresses count units; 0 is the static header base.                     *)
(***************************************************************************)
EXTENDS Naturals, FiniteSets

CONSTANTS HeapMax,     \* units that sbrk() can give
          MinCore,     \* the least that morecore() asks for
          Requests     \* the arguments of malloc(), in units

Units == 1..HeapMax
Addresses == {0} \cup Units
null == HeapMax + 1

ASSUME HeapAssumption ==
  HeapMax \in Nat /\ MinCore \in Nat \ {0} /\ Requests \subseteq Nat \ {0}

VARIABLES heap,     \* freep, ptr and size of each header, and the end of the heap
          core,     \* units that morecore() has obtained
          inuse     \* blocks that the program has, by their headers

heapVars == <<heap, core, inuse>>

HeapInit ==
  /\ heap = [freep |-> null, ptr |-> [a \in Addresses |-> 0], size |-> [a \in Addresses |-> 0],
             brk |-> 1]
  /\ core = {} /\ inuse = {}

RECURSIVE Before(_, _, _)

\* The block of the list after which bp goes, from p on.
Before(h, bp, p) ==
  LET q == h.ptr[p]
  IN IF \/ bp > p /\ bp < q
        \/ p >= q /\ (bp > p \/ bp < q)
     THEN p ELSE Before(h, bp, q)

freeRightOnly(h, bp) ==
  LET p == Before(h, bp, h.freep)
      q == h.ptr[p]
      right == IF bp + h.size[bp] = q
               THEN [h EXCEPT !.size[bp] = @ + h.size[q], !.ptr[bp] = h.ptr[q]]
               ELSE [h EXCEPT !.ptr[bp] = q]
  IN [right EXCEPT !.ptr[p] = bp, !.freep = p]

\* Put the block at bp into the list, joined with its neighbours.
free(h, bp) ==
  LET p == Before(h, bp, h.freep)
      q == h.ptr[p]
      right == IF bp + h.size[bp] = q
               THEN [h EXCEPT !.size[bp] = @ + h.size[q], !.ptr[bp] = h.ptr[q], !.size[q] = 0,
                              !.ptr[q] = 0]
               ELSE [h EXCEPT !.ptr[bp] = q]
      left == IF p + right.size[p] = bp
              THEN [right EXCEPT !.size[p] = @ + right.size[bp], !.ptr[p] = right.ptr[bp],
                                 !.size[bp] = 0, !.ptr[bp] = 0]
              ELSE [right EXCEPT !.ptr[p] = bp]
  IN [left EXCEPT !.freep = p]

Ask(n) == IF n < MinCore THEN MinCore ELSE n

morecore(h, n) == free([h EXCEPT !.size[h.brk] = Ask(n), !.brk = @ + Ask(n)], h.brk)

\* Take n units off the block at p, whose predecessor in the list is prevp: all of it, or
\* its tail.
Take(h, prevp, p, n) ==
  IF h.size[p] = n
  THEN [addr |-> p, heap |-> [h EXCEPT !.ptr[prevp] = h.ptr[p], !.ptr[p] = 0, !.freep = prevp]]
  ELSE LET at == p + h.size[p] - n
       IN [addr |-> at, heap |-> [h EXCEPT !.size[p] = @ - n, !.size[at] = n, !.freep = prevp]]

RECURSIVE Search(_, _, _)

\* The loop of malloc(): once around the list, then after more core.
Search(h, prevp, n) ==
  LET p == h.ptr[prevp]
  IN IF h.size[p] >= n THEN Take(h, prevp, p, n)
     ELSE IF p # h.freep THEN Search(h, p, n)
     ELSE IF h.brk + Ask(n) > HeapMax + 1 THEN [addr |-> null, heap |-> h]
     ELSE LET g == morecore(h, n) IN Search(g, g.freep, n)

malloc(h, n) ==
  LET g == IF h.freep = null THEN [h EXCEPT !.ptr[0] = 0, !.size[0] = 0, !.freep = 0] ELSE h
  IN Search(g, g.freep, n)

\* malloc() of a request, with its header.
Malloc ==
  \E k \in Requests : \E m \in {malloc(heap, k + 1)} :
    /\ heap' = m.heap
    /\ inuse' = IF m.addr = null THEN inuse ELSE inuse \cup {m.addr}
    /\ core' = core \cup heap.brk .. m.heap.brk - 1

Free == \E a \in inuse : \E h \in {free(heap, a)} :
          heap' = h /\ inuse' = inuse \ {a} /\ UNCHANGED core

\* The program calls sbrk() itself, so that the next core is not next to the last.
Sbrk ==
  /\ heap.brk <= HeapMax /\ heap' = [heap EXCEPT !.brk = @ + 1]
  /\ UNCHANGED <<core, inuse>>

HeapNext == Malloc \/ Free \/ Sbrk
HeapSpec == HeapInit /\ [][HeapNext]_heapVars
-----------------------------------------------------------------------------
\* The blocks of the list that starts at a.
RECURSIVE Listed(_, _)
Listed(a, seen) == IF a \in seen THEN seen ELSE Listed(heap.ptr[a], seen \cup {a})

Extent(a) == a .. a + heap.size[a] - 1

\* The free blocks, reached around the circular list from freep, and the blocks in use
\* share no unit and cover all that morecore() obtained; the list goes up through the
\* addresses and wraps once; and no two free blocks touch, since free() joins them: no
\* two callers of malloc() have a unit in common, and no unit is lost however calls of
\* malloc(), free() and sbrk() alternate (umalloc.c).
HeapSound ==
  heap.freep # null =>
    LET list == Listed(heap.freep, {})
        blocks == (list \cup inuse) \ {0}
    IN /\ heap.ptr[CHOOSE a \in list : \A b \in list : b <= a] = 0 /\ 0 \in list
       /\ Cardinality({a \in list : heap.ptr[a] <= a}) = 1
       /\ \A a, b \in blocks : a # b => Extent(a) \cap Extent(b) = {}
       /\ UNION {Extent(a) : a \in blocks} = core
       /\ \A a, b \in list \ {0} : a + heap.size[a] # b
=============================================================================
