---------------------------- MODULE MemoryProofs ----------------------------
(***************************************************************************)
(* The safety of module Memory, for every number of pages and processes and *)
(* every layout of the address spaces: no page has two uses or is lost, the *)
(* spaces are well formed, and fork() copies its caller.                   *)
(***************************************************************************)
EXTENDS MemorySteps

USE ZenonT(30), SMTT(30)

-----------------------------------------------------------------------------
(***************************************************************************)
(* The steps of exec(), fork(), exit() and wait() keep the invariant.      *)
(***************************************************************************)

\* A call that begins to build a space.
LEMMA NewSpaceOK ==
  ASSUME NEW j \in Job, j.call \in {"exec", "fork"}, j.new = NoSpace, j.pc = "setupkvm",
         j.mem = NoPage, j.v = 0, j.oldsz = 0
  PROVE  CallOK(j) /\ CallPages(j) = {} /\ SpaceOK(j.new) /\ j.mem \notin PagesOf(j.new)
<1>1. CallOK(j)
  BY SpaceNone DEF CallOK
<1>2. CallPages(j) = {}
  BY SpaceNone DEF CallPages
<1>3. QED
  BY <1>1, <1>2, SpaceNone

\* exec() begins.
LEMMA execStep ==
  ASSUME MemInv, NEW p \in Procs, NEW image \in Images, exec(p, image)
  PROVE  MemInv'
<1> DEFINE j == [NewSpace(p, "exec") EXCEPT !.segs = image]
<1>1. /\ InUser(p) /\ job' = [job EXCEPT ![p] = j]
      /\ UNCHANGED <<freelist, state, kstack, sz, space, cr3, panic>>
  BY DEF exec
<1>2. /\ state[p] = "RUN" /\ job[p] = NoJob
      /\ Mapped(space[p]) = 0..PGROUNDUP(sz[p]) - 1 /\ sz[p] <= KERNBASE
  BY <1>1, User
<1>3. /\ j \in Job /\ j.mem = NoPage /\ j.new = NoSpace /\ j.pc = "setupkvm"
      /\ j.call = "exec" /\ j.v = 0 /\ j.oldsz = 0
  <2>1. image \in Seq(Nat) /\ NoJob \in Job
    BY MemoryAssumption, NoJobOK
  <2>2. j \in Job
    BY <2>1 DEF NewSpace, Job, JobPlaces
  <2>3. QED
    BY <2>2 DEF NewSpace, NoJob
<1> HIDE DEF j
<1>4. CallOK(j) /\ CallPages(j) = {} /\ SpaceOK(j.new) /\ j.mem \notin PagesOf(j.new)
  BY <1>3, NewSpaceOK
<1>5. job' \in [Procs -> Job] /\ job'[p] = j /\ \A q \in Procs \ {p} : job'[q] = job[q]
  BY <1>1, <1>3 DEF MemInv, MemoryTypes
<1>6. SizesOK("RUN", sz[p], space[p], j)
  BY <1>2, <1>3 DEF SizesOK
<1>7. freelist \subseteq Page /\ CallPages(job[p]) = {}
  BY <1>2, Holding, NoJobOK
<1>8. QED
  BY <1>1, <1>2, <1>3, <1>4, <1>5, <1>6, <1>7, JobStep

\* fork() begins: allocproc().
LEMMA forkStep ==
  ASSUME MemInv, NEW p \in Procs, NEW q \in Procs, fork(p, q)
  PROVE  MemInv'
<1> DEFINE g == kalloc
           ks == kstack[p]
           s == space[p]
           j == [NewSpace(p, "fork") EXCEPT !.child = q]
<1>1. InUser(p) /\ state[q] = "UNUSED" /\ UNCHANGED <<sz, space, cr3, panic>>
  BY DEF fork
<1>2. /\ state[p] = "RUN" /\ job[p] = NoJob /\ Mapped(s) = 0..PGROUNDUP(sz[p]) - 1
      /\ sz[p] <= KERNBASE /\ panic = "none"
  BY <1>1, User
<1>3. CASE freelist = {}
  BY <1>1, <1>3, MemoryStutter DEF fork
<1>4. CASE freelist # {}
  <2>1. /\ freelist' = freelist \ {g} /\ kstack' = [kstack EXCEPT ![q] = g]
        /\ state' = [state EXCEPT ![q] = "EMBRYO"]
        /\ job' = [job EXCEPT ![p] = j]
    BY <1>4 DEF fork
  <2>2. /\ j \in Job /\ j.mem = NoPage /\ j.new = NoSpace /\ j.pc = "setupkvm"
        /\ j.call = "fork" /\ j.child = q /\ j.v = 0 /\ j.oldsz = 0
    <3>1. j \in Job
      BY NoJobOK DEF NewSpace, Job, JobPlaces
    <3>2. QED
      BY <3>1 DEF NewSpace, NoJob
  <2> HIDE DEF j
  <2>3. CallOK(j) /\ CallPages(j) = {}
    BY <2>2, NewSpaceOK
  <2>4. job' = [job EXCEPT ![p] = j]
    BY <2>1
  <2>5. g \in freelist
    BY <1>4, Kalloc
  <2> HIDE DEF g
  <2>6. /\ Owns[p] = PagesOf(s) \cup CallPages(NoJob) \cup ({ks} \ {NoPage})
        /\ ks \notin PagesOf(s) /\ NoPage \notin Page /\ Owns[p] \subseteq Page
        /\ Owns[p] \cap freelist = {} /\ freelist \subseteq Page
    BY <1>2, Holding
  <2>7. /\ job[q] = NoJob /\ space[q] = NoSpace /\ cr3[q] = NoPage /\ kstack[q] = NoPage
        /\ p # q /\ sz[q] <= KERNBASE
    BY <1>1, <1>2, Mine, SMTT(30) DEF StateOK, CallOK, SizesOK
  <2>8. Owns[q] = {}
    <3>1. Owns[q] = PagesOf(NoSpace) \cup CallPages(NoJob) \cup ({NoPage} \ {NoPage})
      BY <2>7, Holding
    <3>2. QED
      BY <3>1, NoJobOK, SpaceNone
  <2>9. MemoryTypes' /\ panic' = "none" /\ \A r \in Procs \ {p, q} : Keeps(r)
    <3>1. g \in MaybePage /\ "EMBRYO" \in States
      BY <2>5, <2>6 DEF MaybePage, States
    <3>2. MemoryTypes'
      BY <1>1, <2>1, <2>2, <2>4, <3>1, SMTT(30) DEF MemInv, MemoryTypes
    <3>3. QED
      BY <1>1, <1>2, <2>1, <2>4, <3>2, SMTT(30) DEF MemInv, MemoryTypes, Keeps
  <2>10. /\ job'[p] = j /\ kstack'[p] = ks /\ space'[p] = s /\ state'[p] = "RUN"
         /\ sz'[p] = sz[p] /\ cr3'[p] = cr3[p]
    BY <1>1, <1>2, <2>1, <2>4, <2>7 DEF MemInv, MemoryTypes
  <2>11. /\ job'[q] = NoJob /\ kstack'[q] = g /\ space'[q] = NoSpace /\ state'[q] = "EMBRYO"
         /\ sz'[q] = sz[q] /\ cr3'[q] = NoPage
    BY <1>1, <2>1, <2>4, <2>7 DEF MemInv, MemoryTypes
  <2>12. TidyProc(q)' /\ Owns'[q] = {g}
    <3>1. g \notin PagesOf(NoSpace) /\ SpaceOK(NoSpace) /\ PagesOf(NoSpace) = {}
      BY SpaceNone
    <3>2. StateOK("EMBRYO", g, NoSpace, NoPage, NoJob)
      BY <2>5, <2>6, NoJobOK DEF StateOK
    <3>3. TidyProc(q)' /\ Owns'[q] = PagesOf(NoSpace) \cup ({g} \ {NoPage})
      BY <2>7, <2>9, <2>11, <3>1, <3>2, Idle
    <3>4. QED
      BY <2>5, <2>6, <3>1, <3>3
  <2>13. TidyProc(p)' /\ Owns'[p] = Owns[p]
    <3>1. NoPage \notin PagesOf(s) /\ PagesOf(NoSpace) = {} /\ SpaceOK(NoSpace)
      BY SpaceNone DEF PagesOf
    <3>2. Apart(ks, s, j)
      BY <2>2, <2>6, <3>1 DEF Apart
    <3>3. SizesOK("RUN", sz[p], s, j)
      BY <1>2, <2>2 DEF SizesOK
    <3>4. StateOK("RUN", ks, s, cr3[p], j)
      BY <1>2, Mine DEF StateOK
    <3>5. TidyProc(p)'
      BY <2>2, <2>3, <2>10, <3>1, <3>2, <3>3, <3>4, Mine DEF TidyProc, Tidy
    <3>6. Owns'[p] = PagesOf(s) \cup ({ks} \ {NoPage})
      BY <2>2, <2>10, <3>1, SMTT(30) DEF Owns, Owned
    <3>7. QED
      BY <2>6, <3>5, <3>6, NoJobOK
  <2>14. ChildInv'
    <3>1. \A r \in Procs : r # p => job'[r] = job[r]
      BY <2>4 DEF MemInv, MemoryTypes
    <3>2. \A r \in Procs : r # q => state'[r] = state[r]
      BY <2>1 DEF MemInv, MemoryTypes
    <3>3. \A r \in Procs : job[r].call = "fork" =>
            job[r].child # q /\ job[r].child \in Procs /\ state[job[r].child] = "EMBRYO"
      BY <1>1 DEF MemInv, MemoryTypes, ChildInv, Job
    <3>4. \A r \in Procs : job'[r].call = "fork" => state'[job'[r].child] = "EMBRYO"
      BY <2>2, <2>10, <2>11, <3>1, <3>2, <3>3, SMTT(30)
    <3>5. \A r, t \in Procs : job'[r].call = "fork" /\ job'[t].call = "fork"
                                /\ job'[r].child = job'[t].child => r = t
      BY <2>2, <2>10, <3>1, <3>3, SMTT(30) DEF MemInv, ChildInv
    <3>6. QED
      BY <3>4, <3>5 DEF ChildInv
  <2>15. /\ freelist' \subseteq Page /\ Owns'[p] \cap freelist' = {} /\ Owns'[q] \cap freelist' = {}
         /\ Owns'[p] \cap Owns'[q] = {}
         /\ Owns'[p] \cup Owns'[q] \cup freelist' = Owns[p] \cup Owns[q] \cup freelist
    BY <2>1, <2>5, <2>6, <2>8, <2>12, <2>13
  <2>16. QED
    BY <2>7, <2>9, <2>12, <2>13, <2>14, <2>15, PairStep, SMTT(30)
<1>5. QED
  BY <1>3, <1>4

\* setupkvm(): the directory.
LEMMA setupkvmStep ==
  ASSUME MemInv, NEW p \in Procs, setupkvm(p)
  PROVE  MemInv'
<1> DEFINE j == job[p]
           g == kalloc
           r == [j EXCEPT !.new.dir = g, !.pc = "kmap"]
<1>1. j.pc = "setupkvm" /\ state[p] = "RUN" /\ UNCHANGED <<sz, space, cr3, panic>>
  BY Mine DEF setupkvm, At, StateOK
<1>2. /\ CallOK(j) /\ SizesOK("RUN", sz[p], space[p], j) /\ j \in Job
  BY <1>1, Mine
<1>3. /\ j.call \in {"exec", "fork"} /\ j.new = NoSpace /\ j.mem = NoPage /\ CallPages(j) = {}
      /\ j.v = 0 /\ j.oldsz = 0
  BY <1>1, <1>2, SpaceNone DEF CallOK, CallPages
<1>4. CASE freelist = {}
  BY <1>1, <1>3, <1>4, BadStep DEF setupkvm
<1>5. CASE freelist # {}
  <2>1. freelist' = freelist \ {g} /\ UNCHANGED <<kstack, state>> /\ g \in freelist
    BY <1>5, Kalloc DEF setupkvm
  <2>2. job' = [job EXCEPT ![p] = r]
    BY <1>5 DEF setupkvm, MemInv, MemoryTypes
  <2>3. freelist \subseteq Page /\ NoPage \notin Page
    BY Holding
  <2> HIDE DEF g
  <2>4. /\ r.new = [NoSpace EXCEPT !.dir = g] /\ r.pc = "kmap" /\ r.call = j.call
        /\ r.mem = NoPage /\ r.v = 0 /\ r.oldsz = 0 /\ r.child = j.child
    BY <1>2, <1>3 DEF Job
  <2>5. /\ r.new \in Space /\ SpaceOK(r.new) /\ r.new.dir = g /\ PagesOf(r.new) = {g}
        /\ Mapped(r.new) = {} /\ \A k \in 0..NPDE : r.new.tab[k] = NoPage
    BY <2>1, <2>3, <2>4, SpaceDir, SMTT(30)
  <2>6. r \in Job
    BY <1>2, <2>5 DEF Job, JobPlaces
  <2> HIDE DEF r
  <2>7. job' \in [Procs -> Job] /\ job'[p] = r /\ \A q \in Procs \ {p} : job'[q] = job[q]
    BY <2>2, <2>6 DEF MemInv, MemoryTypes
  <2>8. CallOK(r)
    BY <1>3, <2>1, <2>3, <2>4, <2>5 DEF CallOK
  <2>9. SizesOK("RUN", sz[p], space[p], r)
    BY <1>1, <1>2, <1>3, <2>4 DEF SizesOK
  <2>10. CallPages(r) = {g} /\ r.mem \notin PagesOf(r.new)
    BY <2>1, <2>3, <2>4, <2>5 DEF CallPages
  <2>11. /\ freelist' \subseteq Page /\ CallPages(r) \cap freelist' = {}
         /\ CallPages(r) \cup freelist' = CallPages(j) \cup freelist
    BY <1>3, <2>1, <2>3, <2>10
  <2>12. QED
    BY <1>1, <2>1, <2>4, <2>5, <2>7, <2>8, <2>9, <2>10, <2>11, JobStep, SMTT(30)
<1>6. QED
  BY <1>4, <1>5

\* What exec() or fork() frees when it gives up between two pages.
LEMMA Built ==
  ASSUME MemInv, NEW p \in Procs, job[p].call \in {"exec", "fork"},
         job[p].pc \notin {"user", "setupkvm", "map", "copymap"}
  PROVE  freevm(job[p].new) = CallPages(job[p]) /\ job[p].mem = NoPage
<1>1. job[p].new.dir # NoPage /\ job[p].mem = NoPage /\ job[p].new \in Space
  BY Mine DEF CallOK
<1>2. freevm(job[p].new) = PagesOf(job[p].new)
  BY <1>1, SpaceFreed
<1>3. QED
  BY <1>1, <1>2 DEF CallPages

\* setupkvm(): the kernel's page table.
LEMMA KernelMapStep ==
  ASSUME MemInv, NEW p \in Procs, KernelMap(p)
  PROVE  MemInv'
<1> DEFINE j == job[p]
           g == kalloc
           to == IF j.call = "fork" THEN "copy" ELSE "segment"
           r == [j EXCEPT !.new.tab[NPDE] = g, !.pc = to]
<1>1. j.pc = "kmap" /\ state[p] = "RUN" /\ UNCHANGED <<sz, space, cr3, panic>>
  BY Mine DEF KernelMap, At, StateOK
<1>2. /\ CallOK(j) /\ SizesOK("RUN", sz[p], space[p], j) /\ j \in Job /\ j.new \in Space
      /\ SpaceOK(j.new)
  BY <1>1, Mine
<1>3. /\ j.call \in {"exec", "fork"} /\ j.mem = NoPage /\ Mapped(j.new) = {}
      /\ (\A k \in 0..NPDE : j.new.tab[k] = NoPage) /\ j.v = 0 /\ j.oldsz = 0
      /\ j.new.dir # NoPage
  BY <1>1, <1>2 DEF CallOK
<1>4. CASE freelist = {}
  BY <1>1, <1>3, <1>4, BadStep, Built DEF KernelMap
<1>5. CASE freelist # {}
  <2>1. freelist' = freelist \ {g} /\ UNCHANGED <<kstack, state>> /\ g \in freelist
    BY <1>5, Kalloc DEF KernelMap
  <2>2. job' = [job EXCEPT ![p] = r]
    BY <1>5 DEF KernelMap, MemInv, MemoryTypes
  <2>3. /\ freelist \subseteq Page /\ NoPage \notin Page /\ CallPages(j) \subseteq Owns[p]
        /\ Owns[p] \cap freelist = {}
    BY Holding
  <2> HIDE DEF g
  <2>4. /\ r.new = [j.new EXCEPT !.tab[NPDE] = g] /\ r.pc = to /\ r.call = j.call
        /\ r.mem = NoPage /\ r.v = 0 /\ r.oldsz = 0 /\ r.child = j.child
    BY <1>2, <1>3 DEF Job
  <2>5. NPDE \in 0..NPDE /\ g \in Page /\ g \notin PagesOf(j.new)
    BY <2>1, <2>3, MemoryAssumption, SMTT(30) DEF CallPages
  <2>6. /\ r.new \in Space /\ SpaceOK(r.new) /\ r.new.dir = j.new.dir /\ Mapped(r.new) = {}
        /\ PagesOf(r.new) = PagesOf(j.new) \cup {g}
    <3> HIDE DEF r
    <3>1. QED
      BY <1>2, <1>3, <2>4, <2>5, SpaceTable, SMTT(30)
  <2>7. r \in Job
    BY <1>2, <2>6 DEF Job, JobPlaces
  <2> HIDE DEF r
  <2>8. job' \in [Procs -> Job] /\ job'[p] = r /\ \A q \in Procs \ {p} : job'[q] = job[q]
    BY <2>2, <2>7, SMTT(30) DEF MemInv, MemoryTypes
  <2>9. CallOK(r)
    BY <1>3, <2>4, <2>6 DEF CallOK
  <2>10. SizesOK("RUN", sz[p], space[p], r)
    <3>1. r.new.user = {}
      BY <2>6 DEF SpaceOK
    <3>2. 0 .. 0 - 1 = {}
      BY SMTT(30)
    <3>3. PGROUNDUP(0) = 0 /\ 0 <= KERNBASE /\ PGROUNDUP(sz[p]) >= 0
      BY SpaceEnd, RoundNat, Mine, SMTT(30)
    <3>4. Mapped(space[p]) = 0..PGROUNDUP(sz[p]) - 1 /\ sz[p] <= KERNBASE
      BY <1>1, <1>2, <1>3 DEF SizesOK
    <3>5. QED
      BY <1>3, <2>4, <2>6, <3>1, <3>2, <3>3, <3>4 DEF SizesOK
  <2>11. CallPages(r) = CallPages(j) \cup {g} /\ r.mem \notin PagesOf(r.new)
    <3>1. NoPage \notin PagesOf(r.new)
      BY DEF PagesOf
    <3>2. QED
      BY <1>3, <2>4, <2>6, <3>1 DEF CallPages
  <2>12. /\ freelist' \subseteq Page /\ CallPages(r) \cap freelist' = {}
         /\ CallPages(r) \cup freelist' = CallPages(j) \cup freelist
    BY <2>1, <2>3, <2>11
  <2>13. QED
    BY <1>1, <2>1, <2>4, <2>6, <2>8, <2>9, <2>10, <2>11, <2>12, JobStep, SMTT(30)
<1>6. QED
  BY <1>4, <1>5, SMTT(30)

\* exec() goes on with a segment or the stack.
LEMMA SegmentStep ==
  ASSUME MemInv, NEW p \in Procs, Segment(p)
  PROVE  MemInv'
<1> DEFINE j == job[p]
           stack == j.segs = <<>>
           old == IF stack THEN PGROUNDUP(j.oldsz) * PGSIZE ELSE j.oldsz
           end == IF stack THEN old + 2 * PGSIZE ELSE Head(j.segs)
           size == IF end < old THEN old ELSE end
           r == [j EXCEPT !.pc = "alloc", !.oldsz = old, !.newsz = size,
                          !.v = PGROUNDUP(old), !.stack = stack,
                          !.segs = IF stack THEN @ ELSE Tail(@)]
<1>1. j.pc = "segment" /\ state[p] = "RUN" /\ UNCHANGED <<sz, space, cr3, panic>>
  BY Mine DEF Segment, At, StateOK
<1>2. /\ CallOK(j) /\ SizesOK("RUN", sz[p], space[p], j) /\ j \in Job /\ j.new \in Space
      /\ SpaceOK(j.new)
  BY <1>1, Mine
<1>3. /\ j.call = "exec" /\ j.mem = NoPage /\ Mapped(j.new) = 0..PGROUNDUP(j.oldsz) - 1
      /\ j.oldsz <= KERNBASE /\ j.new.dir # NoPage
  BY <1>1, <1>2 DEF CallOK, SizesOK
<1>4. CASE Bad(p, freevm(j.new))
  BY <1>1, <1>3, <1>4, BadStep, Built
<1>5. CASE /\ end < KERNBASE /\ size # 0 /\ job' = [job EXCEPT ![p] = r]
           /\ UNCHANGED <<freelist, kstack, state>>
  <2>1. j.oldsz \in Nat /\ j.segs \in Seq(Nat) /\ PGSIZE \in Nat /\ KERNBASE \in Nat
    BY <1>2, MemoryAssumption, SpaceEnd DEF Job
  <2>2. /\ old \in Nat /\ PGROUNDUP(old) = PGROUNDUP(j.oldsz) /\ PGROUNDUP(old) \in Nat
    <3>1. PGROUNDUP(j.oldsz) \in Nat
      BY <2>1, RoundNat
    <3>2. PGROUNDUP(j.oldsz) * PGSIZE \in Nat
          /\ PGROUNDUP(PGROUNDUP(j.oldsz) * PGSIZE) = PGROUNDUP(j.oldsz)
      BY <3>1, RoundPages
    <3>3. QED
      BY <2>1, <3>1, <3>2
  <2>3. end \in Nat
    <3>1. CASE stack
      <4>1. 2 * PGSIZE \in Nat
        BY <2>1, SMTT(30)
      <4>2. QED
        BY <2>2, <3>1, <4>1, SMTT(30)
    <3>2. CASE ~stack
      BY <2>1, <3>2, SMTT(30)
    <3>3. QED
      BY <3>1, <3>2
  <2>4. stack => old <= end
    <3>1. 2 * PGSIZE \in Nat
      BY <2>1, SMTT(30)
    <3>2. QED
      BY <2>2, <3>1, SMTT(30)
  <2>5. ~stack => old = j.oldsz
    OBVIOUS
  <2> HIDE DEF old, end
  <2>6. size \in Nat /\ old <= size /\ size <= KERNBASE
    BY <1>3, <1>5, <2>1, <2>2, <2>3, <2>4, <2>5, SMTT(30)
  <2>7. /\ r.pc = "alloc" /\ r.oldsz = old /\ r.newsz = size /\ r.v = PGROUNDUP(old)
        /\ r.call = "exec" /\ r.mem = NoPage /\ r.new = j.new
    BY <1>2, <1>3 DEF Job
  <2>8. r \in Job
    <3>1. (IF stack THEN j.segs ELSE Tail(j.segs)) \in Seq(Nat) /\ stack \in BOOLEAN
      BY <2>1, SMTT(30)
    <3> HIDE DEF stack, size
    <3>2. QED
      BY <1>2, <2>2, <2>6, <3>1 DEF Job, JobPlaces
  <2> HIDE DEF size, r, stack
  <2>9. job' \in [Procs -> Job] /\ job'[p] = r /\ \A q \in Procs \ {p} : job'[q] = job[q]
    BY <1>5, <2>8 DEF MemInv, MemoryTypes
  <2>10. CallOK(r)
    BY <1>3, <2>7 DEF CallOK
  <2>11. SizesOK("RUN", sz[p], space[p], r)
    <3>1. PGROUNDUP(old) <= PGROUNDUP(size)
      BY <2>2, <2>6, RoundOrder
    <3>2. Mapped(space[p]) = 0..PGROUNDUP(sz[p]) - 1 /\ sz[p] <= KERNBASE
      BY <1>1, <1>2, <1>3 DEF SizesOK
    <3>3. QED
      BY <1>3, <2>2, <2>6, <2>7, <3>1, <3>2, SMTT(30) DEF SizesOK
  <2>12. CallPages(r) = CallPages(j)
    BY <1>3, <2>7 DEF CallPages
  <2>13. /\ CallPages(j) \cap freelist = {} /\ freelist \subseteq Page
         /\ j.mem \notin PagesOf(j.new)
    BY Holding
  <2>14. QED
    BY <1>1, <1>2, <1>3, <1>5, <2>7, <2>9, <2>10, <2>11, <2>12, <2>13, JobStep, SMTT(30)
<1>6. QED
  BY <1>4, <1>5 DEF Segment

\* exec() commits to the new space, or gives up.
LEMMA CommitStep ==
  ASSUME MemInv, NEW p \in Procs, Commit(p)
  PROVE  MemInv'
<1> DEFINE j == job[p]
           ks == kstack[p]
           guard == PGROUNDUP(j.newsz) - 2
           s == [j.new EXCEPT !.user = @ \ {guard}]
           r == [j EXCEPT !.new = space[p], !.pc = "freeold"]
<1>1. j.pc = "commit" /\ state[p] = "RUN" /\ UNCHANGED panic /\ panic = "none"
  BY Mine DEF Commit, At, StateOK
<1>2. /\ CallOK(j) /\ SizesOK("RUN", sz[p], space[p], j) /\ j \in Job /\ j.new \in Space
      /\ SpaceOK(j.new) /\ space[p] \in Space /\ SpaceOK(space[p]) /\ space[p].dir # NoPage
      /\ ks # NoPage
  BY <1>1, Mine DEF StateOK
<1>3. /\ j.call = "exec" /\ j.mem = NoPage /\ Mapped(j.new) = 0..PGROUNDUP(j.newsz) - 1
      /\ j.newsz <= KERNBASE /\ j.new.dir # NoPage /\ j.newsz \in Nat
  BY <1>1, <1>2 DEF CallOK, SizesOK, Job
<1> HIDE DEF guard
<1>4. s \in Space /\ SpaceOK(s) /\ s.dir = j.new.dir /\ Mapped(s) = Mapped(j.new)
      /\ PagesOf(s) = PagesOf(j.new)
  BY <1>2, SpaceUser, SMTT(30)
<1> HIDE DEF s
<1>5. CASE Bad(p, freevm(s)) /\ UNCHANGED <<space, sz, cr3>>
  <2>1. freevm(s) = CallPages(j)
    BY <1>3, <1>4, SpaceFreed DEF CallPages
  <2>2. QED
    BY <1>1, <1>3, <1>5, <2>1, BadStep
<1>6. CASE /\ space' = [space EXCEPT ![p] = s] /\ sz' = [sz EXCEPT ![p] = j.newsz]
           /\ cr3' = [cr3 EXCEPT ![p] = s.dir] /\ job' = [job EXCEPT ![p] = r]
           /\ UNCHANGED <<freelist, kstack, state>>
  <2>1. /\ r.new = space[p] /\ r.pc = "freeold" /\ r.call = "exec" /\ r.mem = NoPage
    BY <1>2, <1>3 DEF Job
  <2>2. r \in Job
    BY <1>2 DEF Job, JobPlaces
  <2> HIDE DEF r
  <2>3. MemoryTypes' /\ panic' = "none" /\ \A q \in Procs \ {p} : Keeps(q)
    <3>1. s.dir \in MaybePage
      BY <1>4 DEF Space
    <3>2. QED
      BY <1>1, <1>3, <1>4, <1>6, <2>2, <3>1, SMTT(30) DEF MemInv, MemoryTypes, Keeps
  <2>4. /\ state'[p] = "RUN" /\ kstack'[p] = ks /\ sz'[p] = j.newsz /\ space'[p] = s
        /\ cr3'[p] = s.dir /\ job'[p] = r /\ freelist' = freelist
    BY <1>1, <1>6 DEF MemInv, MemoryTypes
  <2>5. CallOK(r)
    BY <1>2, <2>1 DEF CallOK
  <2>6. SizesOK("RUN", j.newsz, s, r)
    BY <1>3, <1>4, <2>1 DEF SizesOK
  <2>7. StateOK("RUN", ks, s, s.dir, r)
    BY <1>2, <1>3, <1>4 DEF StateOK
  <2>8. /\ Owns[p] = PagesOf(space[p]) \cup CallPages(j) \cup ({ks} \ {NoPage})
        /\ PagesOf(space[p]) \cap CallPages(j) = {}
        /\ ks \notin PagesOf(space[p]) \cup CallPages(j)
        /\ Owns[p] \cap freelist = {} /\ freelist \subseteq Page
    BY Holding
  <2>9. CallPages(j) = PagesOf(s) /\ NoPage \notin PagesOf(s) /\ NoPage \notin PagesOf(space[p])
    BY <1>3, <1>4 DEF CallPages, PagesOf
  <2>10. Apart(ks, s, r)
    BY <1>2, <2>1, <2>8, <2>9, SMTT(30) DEF Apart
  <2>11. TidyProc(p)'
    BY <1>2, <1>4, <2>1, <2>4, <2>5, <2>6, <2>7, <2>10 DEF TidyProc, Tidy
  <2>12. Owns'[p] = Owns[p]
    BY <2>1, <2>4, <2>8, <2>9, SMTT(30) DEF Owns, Owned
  <2>13. QED
    BY <1>1, <2>1, <2>3, <2>4, <2>8, <2>11, <2>12, OwnStep
<1>7. job' = [job EXCEPT ![p].new = space[p], ![p].pc = "freeold"]
        => job' = [job EXCEPT ![p] = r]
  BY DEF MemInv, MemoryTypes
<1>8. QED
  BY <1>5, <1>6, <1>7 DEF Commit, s, guard

\* exec() frees the old space.
LEMMA FreeOldStep ==
  ASSUME MemInv, NEW p \in Procs, FreeOld(p)
  PROVE  MemInv'
<1>1. job[p].pc = "freeold" /\ job[p].call = "exec"
  BY Mine DEF FreeOld, At, CallOK
<1>2. freevm(job[p].new) = CallPages(job[p])
  BY <1>1, Built
<1>3. QED
  BY <1>1, <1>2, ReturnStep DEF FreeOld

\* What copyuvm() has done when it comes to a page.
LEMMA CopyFacts ==
  ASSUME MemInv, NEW p \in Procs, job[p].pc \in {"copy", "copymap"}
  PROVE  /\ job[p].v \in Nat /\ sz[p] \in Nat /\ sz[p] <= KERNBASE /\ PGROUNDUP(sz[p]) \in Nat
         /\ job[p].call = "fork" /\ state[p] = "RUN"
         /\ Mapped(space[p]) = 0..PGROUNDUP(sz[p]) - 1 /\ Mapped(job[p].new) = 0..job[p].v - 1
         /\ job[p].new.user = space[p].user \cap (0..job[p].v - 1)
         /\ job[p].v <= PGROUNDUP(sz[p]) /\ space[p].user \subseteq Mapped(space[p])
         /\ job[p].pc = "copymap" => job[p].v < PGROUNDUP(sz[p])
         /\ job[p].v < PGROUNDUP(sz[p]) => job[p].v \in Mapped(space[p]) /\ job[p].v \in Vpages
<1> DEFINE j == job[p]
<1>1. j.v \in Nat /\ sz[p] \in Nat /\ PGROUNDUP(sz[p]) \in Nat
  BY Mine, RoundNat DEF Job
<1>2. j.call = "fork" /\ state[p] = "RUN"
  BY Mine DEF CallOK, StateOK
<1>3. SizesOK("RUN", sz[p], space[p], j)
  BY <1>2, Mine
<1>4. /\ sz[p] <= KERNBASE
      /\ Mapped(space[p]) = 0..PGROUNDUP(sz[p]) - 1 /\ Mapped(j.new) = 0..j.v - 1
      /\ j.new.user = space[p].user \cap (0..j.v - 1)
      /\ j.v <= PGROUNDUP(sz[p]) /\ (j.pc = "copymap" => j.v < PGROUNDUP(sz[p]))
  BY <1>2, <1>3 DEF SizesOK
<1>5. space[p].user \subseteq Mapped(space[p])
  BY Mine DEF SpaceOK
<1>6. 0..PGROUNDUP(sz[p]) - 1 \subseteq Vpages
  BY <1>1, <1>4, SpaceEnd
<1>7. j.v < PGROUNDUP(sz[p]) => j.v \in 0..PGROUNDUP(sz[p]) - 1
  BY <1>1, SMTT(30)
<1>8. QED
  BY <1>1, <1>2, <1>4, <1>5, <1>6, <1>7, SMTT(30)

\* A page for the copy: the parent's is there, and copyuvm() does not panic.
LEMMA CopyPageStep ==
  ASSUME MemInv, NEW p \in Procs, CopyPage(p)
  PROVE  MemInv'
<1> DEFINE j == job[p]
           g == kalloc
           r == [j EXCEPT !.mem = g, !.pc = "copymap"]
<1>1. j.pc = "copy" /\ j.v * PGSIZE < sz[p]
  BY DEF CopyPage, At
<1>2. /\ j.v \in Nat /\ sz[p] \in Nat /\ j.call = "fork" /\ state[p] = "RUN"
      /\ Mapped(space[p]) = 0..PGROUNDUP(sz[p]) - 1 /\ Mapped(j.new) = 0..j.v - 1
      /\ j.new.user = space[p].user \cap (0..j.v - 1) /\ sz[p] <= KERNBASE
      /\ j.v < PGROUNDUP(sz[p]) => j.v \in Mapped(space[p]) /\ j.v \in Vpages
  BY <1>1, CopyFacts
<1>3. j.v < PGROUNDUP(sz[p]) /\ PGROUNDUP(sz[p]) \in Nat
  BY <1>1, <1>2, RoundUp
<1>4. space[p].tab[PDX(j.v)] # NoPage /\ space[p].pte[j.v] # NoPage
  <2>1. SpaceOK(space[p])
    BY Mine
  <2>2. QED
    BY <1>2, <1>3, <2>1 DEF SpaceOK, Mapped
<1>5. UNCHANGED <<sz, space, cr3, panic>>
  BY <1>4 DEF CopyPage
<1>6. CASE freelist = {}
  BY <1>1, <1>2, <1>4, <1>5, <1>6, BadStep, Built DEF CopyPage
<1>7. CASE freelist # {}
  <2>1. freelist' = freelist \ {g} /\ UNCHANGED <<kstack, state>> /\ g \in freelist
    BY <1>4, <1>7, Kalloc DEF CopyPage
  <2>2. job' = [job EXCEPT ![p] = r]
    BY <1>4, <1>7 DEF CopyPage, MemInv, MemoryTypes
  <2>3. /\ freelist \subseteq Page /\ NoPage \notin Page /\ CallPages(j) \subseteq Owns[p]
        /\ Owns[p] \cap freelist = {} /\ j \in Job /\ j.new \in Space /\ SpaceOK(j.new)
        /\ CallOK(j) /\ j.mem = NoPage
    BY <1>1, Holding, Mine, SMTT(30) DEF CallOK
  <2> HIDE DEF g
  <2>4. /\ r.new = j.new /\ r.pc = "copymap" /\ r.call = "fork" /\ r.mem = g /\ r.v = j.v
        /\ r.child = j.child
    BY <1>2, <2>3 DEF Job
  <2>5. r \in Job
    BY <2>1, <2>3 DEF Job, JobPlaces, MaybePage
  <2> HIDE DEF r
  <2>6. job' \in [Procs -> Job] /\ job'[p] = r /\ \A q \in Procs \ {p} : job'[q] = job[q]
    BY <2>2, <2>5 DEF MemInv, MemoryTypes
  <2>7. CallOK(r)
    BY <1>1, <1>2, <2>1, <2>3, <2>4 DEF CallOK
  <2>8. SizesOK("RUN", sz[p], space[p], r)
    BY <1>2, <1>3, <2>4, SMTT(30) DEF SizesOK
  <2>9. /\ CallPages(j) = PagesOf(j.new) /\ CallPages(r) = CallPages(j) \cup {g}
        /\ r.mem \notin PagesOf(r.new)
    BY <2>1, <2>3, <2>4 DEF CallPages
  <2>10. /\ freelist' \subseteq Page /\ CallPages(r) \cap freelist' = {}
         /\ CallPages(r) \cup freelist' = CallPages(j) \cup freelist
    BY <2>1, <2>3, <2>9
  <2>11. QED
    BY <1>2, <1>5, <2>1, <2>3, <2>4, <2>6, <2>7, <2>8, <2>9, <2>10, JobStep, SMTT(30)
<1>8. QED
  BY <1>6, <1>7

\* The copy is mapped.
LEMMA CopyMapStep ==
  ASSUME MemInv, NEW p \in Procs, CopyMap(p)
  PROVE  MemInv'
<1> DEFINE j == job[p]
           k == PDX(j.v)
           need == j.new.tab[k] = NoPage
           t == IF need THEN kalloc ELSE j.new.tab[k]
           m == [j.new EXCEPT !.tab[k] = t, !.pte[j.v] = j.mem,
                              !.user = @ \cup ({j.v} \cap space[p].user)]
           r == [j EXCEPT !.new = m, !.mem = NoPage, !.v = @ + 1, !.pc = "copy"]
<1>1. j.pc = "copymap" /\ UNCHANGED <<sz, space, cr3, panic>>
  BY DEF CopyMap, At
<1>2. /\ j.v \in Nat /\ sz[p] \in Nat /\ j.call = "fork" /\ state[p] = "RUN"
      /\ Mapped(space[p]) = 0..PGROUNDUP(sz[p]) - 1 /\ Mapped(j.new) = 0..j.v - 1
      /\ j.new.user = space[p].user \cap (0..j.v - 1) /\ sz[p] <= KERNBASE
      /\ j.v < PGROUNDUP(sz[p]) /\ PGROUNDUP(sz[p]) \in Nat /\ j.v \in Vpages
  BY <1>1, CopyFacts
<1>3. /\ j \in Job /\ j.new \in Space /\ SpaceOK(j.new) /\ CallOK(j) /\ j.mem \in Page
  BY <1>1, Mine DEF CallOK, Job, MaybePage
<1>4. /\ j.mem \notin PagesOf(j.new) /\ CallPages(j) \subseteq Owns[p] /\ NoPage \notin Page
      /\ Owns[p] \cap freelist = {} /\ freelist \subseteq Page
  BY Holding
<1>5. CallPages(j) = PagesOf(j.new) \cup {j.mem}
  BY <1>3, <1>4 DEF CallPages
<1>6. CASE need /\ freelist = {}
  <2>1. Bad(p, freevm(j.new) \cup {j.mem})
    BY <1>6 DEF CopyMap
  <2>2. j.new.dir # NoPage
    BY <1>1, <1>2, <1>3 DEF CallOK
  <2>3. freevm(j.new) \cup {j.mem} = CallPages(j)
    BY <1>3, <1>5, <2>2, SpaceFreed
  <2>4. QED
    BY <1>1, <1>2, <2>1, <2>3, BadStep
<1>7. CASE ~(need /\ freelist = {})
  <2>1. /\ freelist' = IF need THEN freelist \ {t} ELSE freelist
        /\ job' = [job EXCEPT ![p] = r] /\ UNCHANGED <<kstack, state>>
    BY <1>7 DEF CopyMap
  <2>2. \/ need /\ t \in freelist /\ freelist' = freelist \ {t}
        \/ ~need /\ t = j.new.tab[k] /\ freelist' = freelist
    BY <1>7, <2>1, Kalloc
  <2>3. /\ j.new.pte[j.v] = NoPage /\ CallPages(j) \cap freelist = {}
    BY <1>2, <1>4, SMTT(30) DEF Mapped
  <2>4. \/ t \in freelist /\ freelist' = freelist \ {t}
        \/ t \in PagesOf(j.new) /\ freelist' = freelist
    BY <1>2, <2>2, Directory DEF PagesOf
  <2>5. /\ m \in Space /\ SpaceOK(m) /\ m.dir = j.new.dir /\ Mapped(m) = Mapped(j.new) \cup {j.v}
        /\ PagesOf(m) = PagesOf(j.new) \cup {j.mem, t}
        /\ m.user = j.new.user \cup ({j.v} \cap space[p].user)
    <3>1. /\ t \in Page
          /\ \/ t = j.new.tab[PDX(j.v)]
             \/ j.new.tab[PDX(j.v)] = NoPage /\ t # j.mem /\ t \notin PagesOf(j.new)
      BY <1>3, <1>4, <1>5, <2>2, <2>3, <2>4, PageIn
    <3>2. /\ m = MapAt(j.new, j.v, j.mem, t, {j.v} \cap space[p].user)
          /\ ({j.v} \cap space[p].user) \in SUBSET {j.v}
      BY DEF MapAt
    <3> HIDE DEF m, t, need, k
    <3>3. QED
      BY <1>2, <1>3, <1>4, <2>3, <3>1, <3>2, MapOne, SMTT(30)
  <2>6. /\ r.new = m /\ r.mem = NoPage /\ r.v = j.v + 1 /\ r.pc = "copy" /\ r.call = "fork"
        /\ r.child = j.child
    <3> HIDE DEF m
    <3>1. QED
      BY <1>2, <1>3 DEF Job
  <2>7. r \in Job
    <3> HIDE DEF m
    <3>1. j.v + 1 \in Nat /\ NoPage \in MaybePage /\ "copy" \in JobPlaces
      BY <1>2, SMTT(30) DEF MaybePage, JobPlaces
    <3>2. QED
      BY <1>3, <2>5, <3>1 DEF Job
  <2> HIDE DEF m, r, t, need, k
  <2>8. job' \in [Procs -> Job] /\ job'[p] = r /\ \A q \in Procs \ {p} : job'[q] = job[q]
    BY <2>1, <2>7 DEF MemInv, MemoryTypes
  <2>9. CallOK(r)
    BY <1>1, <1>2, <1>3, <2>5, <2>6 DEF CallOK
  <2>10. SizesOK("RUN", sz[p], space[p], r)
    <3>1. Mapped(m) = 0..j.v
      BY <1>2, <2>5, SMTT(30)
    <3>2. m.user = space[p].user \cap (0..j.v)
      BY <1>2, <2>5, SMTT(30)
    <3>3. 0..(j.v + 1) - 1 = 0..j.v /\ j.v + 1 <= PGROUNDUP(sz[p])
      BY <1>2, SMTT(30)
    <3>4. QED
      BY <1>2, <2>6, <3>1, <3>2, <3>3, SMTT(30) DEF SizesOK
  <2>11. CallPages(r) = PagesOf(m) /\ r.mem \notin PagesOf(m)
    BY <2>6 DEF CallPages, PagesOf
  <2>12. /\ freelist' \subseteq Page /\ CallPages(r) \cap freelist' = {}
         /\ CallPages(r) \cup freelist' = CallPages(j) \cup freelist
    <3>1. CallPages(r) = CallPages(j) \cup {t} /\ PagesOf(j.new) \subseteq CallPages(j)
      BY <1>5, <2>5, <2>11
    <3>2. QED
      BY <1>4, <2>3, <2>4, <3>1
  <2>13. QED
    BY <1>1, <1>2, <2>1, <2>6, <2>5, <2>8, <2>9, <2>10, <2>11, <2>12, JobStep
<1>8. QED
  BY <1>6, <1>7

\* fork() gives the copy to the child.
LEMMA ForkDoneStep ==
  ASSUME MemInv, NEW p \in Procs, ForkDone(p), NEW q \in Procs, q = job[p].child
  PROVE  MemInv'
<1> DEFINE j == job[p]
<1>1. j.pc = "copy" /\ j.v * PGSIZE >= sz[p] /\ panic = "none"
  BY DEF ForkDone, At
<1>2. /\ j.v \in Nat /\ sz[p] \in Nat /\ j.call = "fork" /\ state[p] = "RUN"
      /\ Mapped(space[p]) = 0..PGROUNDUP(sz[p]) - 1 /\ Mapped(j.new) = 0..j.v - 1
      /\ sz[p] <= KERNBASE /\ j.v <= PGROUNDUP(sz[p]) /\ PGROUNDUP(sz[p]) \in Nat
  BY <1>1, CopyFacts
<1>3. j.v = PGROUNDUP(sz[p])
  <2>1. PGROUNDUP(sz[p]) <= j.v
    BY <1>1, <1>2, Beyond
  <2>2. QED
    BY <1>2, <2>1, SMTT(30)
<1>4. /\ q \in Procs \ {p} /\ state[q] = "EMBRYO" /\ job[q] = NoJob /\ kstack[q] \in Page
      /\ Owns[q] = {kstack[q]}
  BY <1>2, Child
<1>5. /\ space' = [space EXCEPT ![q] = j.new] /\ sz' = [sz EXCEPT ![q] = sz[p]]
      /\ cr3' = [cr3 EXCEPT ![q] = j.new.dir] /\ state' = [state EXCEPT ![q] = "RUN"]
      /\ job' = [job EXCEPT ![p] = NoJob] /\ UNCHANGED <<freelist, kstack, panic>>
  BY DEF ForkDone, Return
<1>6. /\ j \in Job /\ j.new \in Space /\ SpaceOK(j.new) /\ j.new.dir # NoPage /\ j.mem = NoPage
      /\ StateOK("RUN", kstack[p], space[p], cr3[p], j) /\ SpaceOK(space[p])
  BY <1>1, <1>2, Mine DEF CallOK
<1>7. MemoryTypes' /\ panic' = "none" /\ \A r \in Procs \ {p, q} : Keeps(r)
  <2>1. "RUN" \in States /\ j.new.dir \in MaybePage
    BY <1>6 DEF States, Space
  <2>2. MemoryTypes'
    BY <1>2, <1>5, <1>6, <2>1, NoJobOK, SMTT(30) DEF MemInv, MemoryTypes
  <2>3. QED
    BY <1>1, <1>5, <2>2 DEF MemInv, MemoryTypes, Keeps
<1>8. /\ job'[p] = NoJob /\ kstack'[p] = kstack[p] /\ space'[p] = space[p] /\ state'[p] = "RUN"
      /\ sz'[p] = sz[p] /\ cr3'[p] = cr3[p]
  BY <1>2, <1>4, <1>5 DEF MemInv, MemoryTypes
<1>9. /\ job'[q] = NoJob /\ kstack'[q] = kstack[q] /\ space'[q] = j.new /\ state'[q] = "RUN"
      /\ sz'[q] = sz[p] /\ cr3'[q] = j.new.dir
  BY <1>4, <1>5 DEF MemInv, MemoryTypes
<1>10. /\ Owns[p] = PagesOf(space[p]) \cup PagesOf(j.new) \cup ({kstack[p]} \ {NoPage})
       /\ PagesOf(space[p]) \cap PagesOf(j.new) = {}
       /\ kstack[p] \notin PagesOf(space[p]) \cup PagesOf(j.new) /\ NoPage \notin Page
       /\ Owns[p] \cap freelist = {} /\ freelist \subseteq Page
  <2>1. CallPages(j) = PagesOf(j.new)
    BY <1>6 DEF CallPages
  <2>2. QED
    BY <2>1, Holding
<1>11. Owns[p] \cap Owns[q] = {} /\ Owns[q] \cap freelist = {}
  BY <1>4 DEF MemInv, Divides
<1>12. TidyProc(p)' /\ Owns'[p] = PagesOf(space[p]) \cup ({kstack[p]} \ {NoPage})
  <2>1. StateOK("RUN", kstack[p], space[p], cr3[p], NoJob)
    BY <1>6 DEF StateOK
  <2>2. QED
    BY <1>2, <1>6, <1>7, <1>8, <1>10, <2>1, Idle, SMTT(30)
<1>13. TidyProc(q)' /\ Owns'[q] = PagesOf(j.new) \cup {kstack[q]}
  <2>1. StateOK("RUN", kstack[q], j.new, j.new.dir, NoJob)
    BY <1>4, <1>6, <1>10 DEF StateOK
  <2>2. kstack[q] \notin PagesOf(j.new)
    BY <1>4, <1>10, <1>11
  <2>3. TidyProc(q)' /\ Owns'[q] = PagesOf(j.new) \cup ({kstack[q]} \ {NoPage})
    BY <1>2, <1>3, <1>6, <1>7, <1>9, <2>1, <2>2, Idle, SMTT(30)
  <2>4. QED
    BY <1>4, <1>10, <2>3
<1>14. ChildInv'
  <2>1. \A r \in Procs : job'[r].call = "fork" => r # p /\ job'[r] = job[r]
    BY <1>5, <1>8, NoJobOK DEF MemInv, MemoryTypes
  <2>2. \A r \in Procs : job'[r].call = "fork" => job[r].child # q
    BY <1>2, <2>1, SMTT(30) DEF MemInv, ChildInv
  <2>3. \A r \in Procs : job'[r].call = "fork" =>
          job[r].call = "fork" /\ job'[r].child = job[r].child /\ job[r].child \in Procs
    BY <2>1 DEF MemInv, MemoryTypes, Job
  <2>4. \A r \in Procs \ {q} : state'[r] = state[r]
    BY <1>5 DEF MemInv, MemoryTypes
  <2>5. QED
    BY <2>2, <2>3, <2>4, SMTT(30) DEF MemInv, ChildInv
<1>15. /\ Owns'[p] \cap freelist' = {} /\ Owns'[q] \cap freelist' = {}
       /\ Owns'[p] \cap Owns'[q] = {} /\ freelist' \subseteq Page
       /\ Owns'[p] \cup Owns'[q] \cup freelist' = Owns[p] \cup Owns[q] \cup freelist
  BY <1>4, <1>5, <1>10, <1>11, <1>12, <1>13, SMTT(30)
<1>16. QED
  BY <1>4, <1>7, <1>12, <1>13, <1>14, <1>15, PairStep

\* exit().
LEMMA exitStep ==
  ASSUME MemInv, NEW p \in Procs, exit(p)
  PROVE  MemInv'
<1>1. /\ state[p] = "RUN" /\ job[p].pc = "user" /\ panic = "none"
      /\ state' = [state EXCEPT ![p] = "ZOMBIE"] /\ cr3' = [cr3 EXCEPT ![p] = NoPage]
      /\ UNCHANGED <<freelist, kstack, sz, space, job, panic>>
  BY DEF exit, At
<1>2. job[p] = NoJob /\ SpaceOK(space[p]) /\ sz[p] <= KERNBASE
      /\ StateOK("RUN", kstack[p], space[p], cr3[p], NoJob)
  BY <1>1, Mine DEF CallOK, SizesOK
<1>3. MemoryTypes' /\ panic' = "none" /\ \A q \in Procs \ {p} : Keeps(q)
  BY <1>1 DEF MemInv, MemoryTypes, Keeps, MaybePage, States
<1>4. /\ job'[p] = NoJob /\ kstack'[p] = kstack[p] /\ space'[p] = space[p]
      /\ state'[p] = "ZOMBIE" /\ sz'[p] = sz[p] /\ cr3'[p] = NoPage
  BY <1>1, <1>2 DEF MemInv, MemoryTypes
<1>5. StateOK("ZOMBIE", kstack[p], space[p], NoPage, NoJob)
  BY <1>2, NoJobOK DEF StateOK
<1>6. /\ Owns[p] = PagesOf(space[p]) \cup CallPages(NoJob) \cup ({kstack[p]} \ {NoPage})
      /\ kstack[p] \notin PagesOf(space[p]) /\ Owns[p] \cap freelist = {}
      /\ freelist \subseteq Page
  BY <1>2, Holding
<1>7. TidyProc(p)' /\ Owns'[p] = PagesOf(space[p]) \cup ({kstack[p]} \ {NoPage})
  BY <1>2, <1>3, <1>4, <1>5, <1>6, Idle
<1>8. Owns'[p] = Owns[p] /\ freelist' = freelist
  BY <1>1, <1>6, <1>7, NoJobOK
<1>9. QED
  BY <1>1, <1>3, <1>4, <1>6, <1>7, <1>8, NoJobOK, OwnStep

\* wait() frees what a zombie still has.
LEMMA waitStep ==
  ASSUME MemInv, NEW p \in Procs, NEW q \in Procs, wait(p, q)
  PROVE  MemInv'
<1>1. /\ state[q] = "ZOMBIE" /\ panic = "none"
      /\ freelist' = freelist \cup {kstack[q]} \cup freevm(space[q])
      /\ kstack' = [kstack EXCEPT ![q] = NoPage] /\ state' = [state EXCEPT ![q] = "UNUSED"]
      /\ space' = [space EXCEPT ![q] = NoSpace] /\ sz' = [sz EXCEPT ![q] = 0]
      /\ UNCHANGED <<cr3, job, panic>>
  BY DEF wait, InUser, At
<1>2. /\ job[q] = NoJob /\ space[q] \in Space /\ space[q].dir # NoPage /\ kstack[q] # NoPage
      /\ cr3[q] = NoPage
  BY <1>1, Mine DEF StateOK, CallOK
<1>3. freevm(space[q]) = PagesOf(space[q])
  BY <1>2, SpaceFreed
<1>4. /\ Owns[q] = PagesOf(space[q]) \cup CallPages(NoJob) \cup ({kstack[q]} \ {NoPage})
      /\ Owns[q] \subseteq Page /\ freelist \subseteq Page
  BY <1>2, Holding
<1>5. freelist' = freelist \cup Owns[q]
  BY <1>1, <1>2, <1>3, <1>4, NoJobOK, SMTT(30)
<1>6. MemoryTypes' /\ panic' = "none" /\ \A r \in Procs \ {q} : Keeps(r)
  <2>1. NoPage \in MaybePage /\ "UNUSED" \in States /\ NoSpace \in Space /\ 0 \in Nat
    BY SpaceNone DEF MaybePage, States
  <2>2. QED
    BY <1>1, <2>1 DEF MemInv, MemoryTypes, Keeps
<1>7. /\ job'[q] = NoJob /\ kstack'[q] = NoPage /\ space'[q] = NoSpace
      /\ state'[q] = "UNUSED" /\ sz'[q] = 0 /\ cr3'[q] = NoPage
  BY <1>1, <1>2 DEF MemInv, MemoryTypes
<1>8. TidyProc(q)' /\ Owns'[q] = PagesOf(NoSpace) \cup ({NoPage} \ {NoPage})
  <2>1. StateOK("UNUSED", NoPage, NoSpace, NoPage, NoJob)
    BY NoJobOK DEF StateOK
  <2>2. SpaceOK(NoSpace) /\ NoPage \notin PagesOf(NoSpace)
    BY SpaceNone
  <2>3. 0 <= KERNBASE
    BY SpaceEnd, SMTT(30)
  <2>4. QED
    BY <1>6, <1>7, <2>1, <2>2, <2>3, Idle, SMTT(30)
<1>9. Owns'[q] = {}
  BY <1>8, SpaceNone
<1>10. /\ freelist' \subseteq Page /\ Owns'[q] \cap freelist' = {}
       /\ Owns'[q] \cup freelist' = Owns[q] \cup freelist
  BY <1>4, <1>5, <1>9
<1>11. QED
  BY <1>1, <1>6, <1>7, <1>8, <1>10, NoJobOK, OwnStep

\* Every step of the memory keeps MemInv.
LEMMA MemoryStep ==
  ASSUME MemInv, [MemoryNext]_memoryVars
  PROVE  MemInv'
<1>1. CASE UNCHANGED memoryVars
  BY <1>1, MemoryStutter DEF memoryVars
<1>2. ASSUME NEW p \in Procs, Call(p)
      PROVE  MemInv'
  <2>1. ASSUME NEW n \in Increments, growproc(p, n)
        PROVE  MemInv'
    BY <2>1, growprocStep
  <2>2. ASSUME NEW image \in Images, exec(p, image)
        PROVE  MemInv'
    BY <2>2, execStep
  <2>3. ASSUME NEW q \in Procs, fork(p, q)
        PROVE  MemInv'
    BY <2>3, forkStep
  <2>4. QED
    BY <1>2, <2>1, <2>2, <2>3 DEF Call
<1>3. ASSUME NEW p \in Procs, Work(p)
      PROVE  MemInv'
  <2>1. CASE AllocPage(p) \/ MapPage(p) \/ AllocDone(p)
    BY <2>1, AllocPageStep, MapPageStep, AllocDoneStep
  <2>2. CASE setupkvm(p) \/ KernelMap(p) \/ Segment(p) \/ Commit(p) \/ FreeOld(p)
    BY <2>2, setupkvmStep, KernelMapStep, SegmentStep, CommitStep, FreeOldStep
  <2>3. CASE CopyPage(p) \/ CopyMap(p)
    BY <2>3, CopyPageStep, CopyMapStep
  <2>4. CASE ForkDone(p)
    <3>1. job[p].child \in Procs
      BY Mine DEF Job
    <3>2. QED
      BY <2>4, <3>1, ForkDoneStep
  <2>5. CASE exit(p)
    BY <2>5, exitStep
  <2>6. ASSUME NEW q \in Procs, wait(p, q)
        PROVE  MemInv'
    BY <2>6, waitStep, SMTT(30)
  <2>7. QED
    BY <1>3, <2>1, <2>2, <2>3, <2>4, <2>5, <2>6, SMTT(30) DEF Work
<1>4. QED
  BY <1>1, <1>2, <1>3 DEF MemoryNext

-----------------------------------------------------------------------------
(***************************************************************************)
(* The first process, and the invariant.                                   *)
(***************************************************************************)

\* The space that userinit() makes.
LEMMA FirstSpace ==
  ASSUME NEW f \in [FirstPages -> Page], Distinct(f), NEW s,
         s = [dir |-> f["dir"],
              tab |-> [k \in 0..NPDE |-> CASE k = NPDE -> f["ktab"] [] k = 0 -> f["tab"]
                                           [] OTHER -> NoPage],
              pte |-> [v \in Vpages |-> IF v = 0 THEN f["code"] ELSE NoPage], user |-> {0}]
  PROVE  /\ s \in Space /\ SpaceOK(s) /\ Mapped(s) = {0} /\ s.dir = f["dir"]
         /\ s.dir # NoPage /\ f["kstack"] \in Page /\ f["kstack"] \notin PagesOf(s)
         /\ PagesOf(s) \cup {f["kstack"]} = {f[x] : x \in DOMAIN f}
<1>1. /\ f["dir"] \in Page /\ f["ktab"] \in Page /\ f["tab"] \in Page /\ f["code"] \in Page
      /\ f["kstack"] \in Page /\ NoPage \notin Page
      /\ {f[x] : x \in DOMAIN f} = {f["dir"], f["ktab"], f["tab"], f["code"], f["kstack"]}
  BY MemoryAssumption DEF FirstPages
<1>2. /\ f["dir"] \notin {f["ktab"], f["tab"], f["code"], f["kstack"]}
      /\ f["ktab"] \notin {f["tab"], f["code"], f["kstack"]}
      /\ f["tab"] \notin {f["code"], f["kstack"]} /\ f["code"] # f["kstack"]
  BY DEF Distinct, FirstPages
<1>3. NPDE \in Nat /\ NPDE > 0 /\ 0 \in 0..NPDE /\ NPDE \in 0..NPDE
  BY MemoryAssumption, SMTT(30)
<1>4. 0 \in Vpages /\ PDX(0) = 0
  <2>1. PGROUNDUP(1) = 1 /\ 1 <= KERNBASE
    <3>1. PGSIZE \in Nat /\ PGSIZE > 0 /\ KERNBASE \in Nat /\ KERNBASE > 0
      BY SpaceEnd, MemoryAssumption, SMTT(30)
    <3>2. PGSIZE \div PGSIZE = 1
      BY <3>1, SMTT(30)
    <3>3. QED
      BY <3>1, <3>2, SMTT(30) DEF PGROUNDUP
  <2>2. 0..PGROUNDUP(1) - 1 \subseteq Vpages
    BY <2>1, SpaceEnd
  <2>3. 0 \in Vpages
    BY <2>1, <2>2, SMTT(30)
  <2>4. PPT \in Nat /\ PPT > 0
    BY MemoryAssumption, SMTT(30)
  <2>5. PDX(0) = 0
    BY <2>4, SMTT(30) DEF PDX
  <2>6. QED
    BY <2>3, <2>5
<1>5. /\ s.dir = f["dir"] /\ s.user = {0} /\ s.tab[NPDE] = f["ktab"] /\ s.tab[0] = f["tab"]
      /\ s.pte[0] = f["code"]
  BY <1>3, <1>4, SMTT(30)
<1>6. /\ \A k \in 0..NPDE \ {0, NPDE} : s.tab[k] = NoPage
      /\ \A v \in Vpages \ {0} : s.pte[v] = NoPage
  OBVIOUS
<1>7. s \in Space
  <2>1. [k \in 0..NPDE |-> CASE k = NPDE -> f["ktab"] [] k = 0 -> f["tab"]
                             [] OTHER -> NoPage] \in [0..NPDE -> MaybePage]
    BY <1>1 DEF MaybePage
  <2>2. [v \in Vpages |-> IF v = 0 THEN f["code"] ELSE NoPage] \in [Vpages -> MaybePage]
    BY <1>1 DEF MaybePage
  <2>3. f["dir"] \in MaybePage /\ {0} \in SUBSET Vpages
    BY <1>1, <1>4 DEF MaybePage
  <2>4. QED
    BY <2>1, <2>2, <2>3 DEF Space
<1>8. Mapped(s) = {0}
  BY <1>1, <1>4, <1>5, <1>6 DEF Mapped
<1>9. PagesOf(s) = {f["dir"], f["ktab"], f["tab"], f["code"]}
  <2>1. {s.tab[k] : k \in 0..NPDE} \ {NoPage} = {f["ktab"], f["tab"]}
    BY <1>1, <1>3, <1>5, <1>6, SMTT(30)
  <2>2. {s.pte[v] : v \in Vpages} \ {NoPage} = {f["code"]}
    BY <1>1, <1>4, <1>5, <1>6
  <2>3. QED
    BY <1>1, <1>5, <2>1, <2>2 DEF PagesOf
<1>10. Once(s)
  <2>1. \A k \in 0..NPDE : s.tab[k] # NoPage =>
          (k = 0 /\ s.tab[k] = f["tab"]) \/ (k = NPDE /\ s.tab[k] = f["ktab"])
    BY <1>5, <1>6
  <2>2. \A v \in Vpages : s.pte[v] # NoPage => v = 0 /\ s.pte[v] = f["code"]
    BY <1>5, <1>6
  <2>3. QED
    BY <1>1, <1>2, <1>5, <2>1, <2>2, SMTT(30) DEF Once
<1>11. SpaceOK(s)
  BY <1>1, <1>4, <1>5, <1>8, <1>10 DEF SpaceOK
<1>12. QED
  BY <1>1, <1>2, <1>5, <1>7, <1>8, <1>9, <1>11

\* userinit() makes MemInv true.
LEMMA MemoryInitInv ==
  ASSUME MemoryInit
  PROVE  MemInv
<1> DEFINE f == CHOOSE g \in [FirstPages -> Page] : Distinct(g)
           s == [dir |-> f["dir"],
                 tab |-> [k \in 0..NPDE |-> CASE k = NPDE -> f["ktab"] [] k = 0 -> f["tab"]
                                              [] OTHER -> NoPage],
                 pte |-> [v \in Vpages |-> IF v = 0 THEN f["code"] ELSE NoPage], user |-> {0}]
<1>1. f \in [FirstPages -> Page] /\ Distinct(f)
  BY MemoryAssumption
<1>2. /\ freelist = Page \ {f[x] : x \in DOMAIN f} /\ panic = "none"
      /\ state = [p \in Procs |-> IF p = initproc THEN "RUN" ELSE "UNUSED"]
      /\ kstack = [p \in Procs |-> IF p = initproc THEN f["kstack"] ELSE NoPage]
      /\ sz = [p \in Procs |-> IF p = initproc THEN PGSIZE ELSE 0]
      /\ space = [p \in Procs |-> IF p = initproc THEN s ELSE NoSpace]
      /\ cr3 = [p \in Procs |-> IF p = initproc THEN f["dir"] ELSE NoPage]
      /\ job = [p \in Procs |-> NoJob]
  BY DEF MemoryInit
<1> HIDE DEF f
<1>3. /\ s \in Space /\ SpaceOK(s) /\ Mapped(s) = {0} /\ s.dir = f["dir"]
      /\ s.dir # NoPage /\ f["kstack"] \in Page /\ f["kstack"] \notin PagesOf(s)
      /\ PagesOf(s) \cup {f["kstack"]} = {f[x] : x \in DOMAIN f}
  BY <1>1, FirstSpace
<1> HIDE DEF s
<1>4. /\ initproc \in Procs /\ PGSIZE \in Nat /\ PGSIZE > 0 /\ NoPage \notin Page
      /\ PPT \in Nat /\ PPT > 0 /\ NPDE \in Nat /\ NPDE > 0
  BY MemoryAssumption, SMTT(30)
<1>5. /\ NoSpace \in Space /\ SpaceOK(NoSpace) /\ PagesOf(NoSpace) = {}
      /\ NoJob \in Job /\ NoJob.new = NoSpace /\ NoJob.mem = NoPage /\ NoJob.pc = "user"
      /\ NoJob.call = "none"
  BY SpaceNone, NoJobOK
<1>6. MemoryTypes
  <2>1. f["dir"] \in MaybePage /\ f["kstack"] \in MaybePage /\ NoPage \in MaybePage
    BY <1>3 DEF Space, MaybePage
  <2>2. QED
    BY <1>2, <1>3, <1>4, <1>5, <2>1 DEF MemoryTypes, States
<1>7. /\ Owned(f["kstack"], s, NoJob) = {f[x] : x \in DOMAIN f}
      /\ Owned(NoPage, NoSpace, NoJob) = {}
  <2>1. NoPage \notin PagesOf(s)
    BY DEF PagesOf
  <2>2. QED
    BY <1>3, <1>4, <1>5, <2>1 DEF Owned
<1>8. Owns = [p \in Procs |-> IF p = initproc THEN {f[x] : x \in DOMAIN f} ELSE {}]
  BY <1>2, <1>4, <1>7 DEF Owns
<1>9. Divides(Owns, freelist)
  <2>1. {f[x] : x \in DOMAIN f} \subseteq Page
    BY <1>1
  <2>2. QED
    BY <1>2, <1>4, <1>8, <2>1 DEF Divides
<1>10. CallOK(NoJob)
  BY <1>5 DEF CallOK
<1>11. PGROUNDUP(PGSIZE) = 1 /\ PGSIZE <= KERNBASE /\ KERNBASE \in Nat
  <2>1. PGROUNDUP(1 * PGSIZE) = 1 /\ 1 * PGSIZE = PGSIZE
    BY <1>4, RoundPages, SMTT(30)
  <2>2. 0 \in Mapped(s) /\ Mapped(s) \subseteq Vpages
    BY <1>3 DEF Mapped
  <2>3. PGSIZE <= KERNBASE
    <3>1. NPDE * PPT \in Nat /\ NPDE * PPT >= 1
      BY SpaceEnd, SMTT(30)
    <3>2. PGSIZE <= (NPDE * PPT) * PGSIZE
      <4> DEFINE n == NPDE * PPT
      <4>1. n \in Nat /\ n >= 1
        BY <3>1
      <4> HIDE DEF n
      <4>2. PGSIZE <= n * PGSIZE
        BY <1>4, <4>1, SMTT(30)
      <4>3. QED
        BY <4>2 DEF n
    <3>3. QED
      BY <1>4, <3>2 DEF KERNBASE
  <2>4. QED
    BY <2>1, <2>3, SpaceEnd
<1>12. Tidy("RUN", f["kstack"], PGSIZE, s, f["dir"], NoJob)
  <2>1. StateOK("RUN", f["kstack"], s, f["dir"], NoJob)
    BY <1>3, <1>4 DEF StateOK
  <2>2. 0..1 - 1 = {0}
    BY SMTT(30)
  <2>3. SizesOK("RUN", PGSIZE, s, NoJob)
    BY <1>3, <1>5, <1>11, <2>2 DEF SizesOK
  <2>4. Apart(f["kstack"], s, NoJob)
    <3>1. NoPage \notin PagesOf(s)
      BY SMTT(30) DEF PagesOf
    <3>2. QED
      BY <1>3, <1>4, <1>5, <3>1 DEF Apart
  <2>5. QED
    BY <1>3, <1>5, <1>10, <2>1, <2>3, <2>4, SMTT(30) DEF Tidy
<1>13. Tidy("UNUSED", NoPage, 0, NoSpace, NoPage, NoJob)
  <2>1. StateOK("UNUSED", NoPage, NoSpace, NoPage, NoJob)
    BY <1>5 DEF StateOK
  <2>2. SizesOK("UNUSED", 0, NoSpace, NoJob)
    BY <1>5, <1>11, SMTT(30) DEF SizesOK
  <2>3. Apart(NoPage, NoSpace, NoJob)
    BY <1>5 DEF Apart
  <2>4. QED
    BY <1>5, <1>10, <2>1, <2>2, <2>3 DEF Tidy
<1>14. \A p \in Procs : TidyProc(p)
  BY <1>2, <1>12, <1>13 DEF TidyProc
<1>15. ChildInv
  BY <1>2, <1>5 DEF ChildInv
<1>16. QED
  BY <1>2, <1>6, <1>9, <1>14, <1>15 DEF MemInv

\* The inductive invariant.  Each process's pages are its own and each is in one place of
\* it (Divides, Tidy); a child that fork() is filling belongs to one parent (ChildInv); and
\* what a call has built is exactly what its step says, so that the error path of exec(),
\* fork() or sbrk() (vm.c, exec.c, proc.c) frees it, all of it and nothing else.
THEOREM MemoryInvariance == MemorySpec => []MemInv
<1>1. MemoryInit => MemInv
  BY MemoryInitInv
<1>2. MemInv /\ [MemoryNext]_memoryVars => MemInv'
  BY MemoryStep
<1>3. QED
  BY <1>1, <1>2, PTL DEF MemorySpec

-----------------------------------------------------------------------------
(***************************************************************************)
(* What the invariant says of the pages, of the spaces and of fork().      *)
(***************************************************************************)

\* The places of a space hold its pages ...
LEMMA PlacePages ==
  ASSUME NEW s
  PROVE  PagesOf(s) = {a[3] : a \in PlacesIn(s)} \ {NoPage}
<1>1. ASSUME NEW g \in PagesOf(s)
      PROVE  \E a \in PlacesIn(s) : a[3] = g
  <2>1. CASE g = s.dir
    <3>1. <<"dir", 0, s.dir>> \in PlacesIn(s)
      BY DEF PlacesIn
    <3>2. QED
      BY <2>1, <3>1
  <2>2. ASSUME NEW k \in 0..NPDE, g = s.tab[k]
        PROVE  \E a \in PlacesIn(s) : a[3] = g
    <3>1. <<"tab", k, s.tab[k]>> \in PlacesIn(s)
      BY DEF PlacesIn
    <3>2. QED
      BY <2>2, <3>1
  <2>3. ASSUME NEW v \in Vpages, g = s.pte[v]
        PROVE  \E a \in PlacesIn(s) : a[3] = g
    <3>1. <<"pte", v, s.pte[v]>> \in PlacesIn(s)
      BY DEF PlacesIn
    <3>2. QED
      BY <2>3, <3>1
  <2>4. QED
    BY <2>1, <2>2, <2>3 DEF PagesOf
<1>2. ASSUME NEW a \in PlacesIn(s), a[3] # NoPage
      PROVE  a[3] \in PagesOf(s)
  BY <1>2, SMTT(30) DEF PlacesIn, PagesOf
<1>3. NoPage \notin PagesOf(s)
  BY DEF PagesOf
<1>4. QED
  BY <1>1, <1>2, <1>3

\* ... and each page is in one of them.
LEMMA PlaceOnce ==
  ASSUME NEW s, Once(s), NEW a \in PlacesIn(s), NEW b \in PlacesIn(s), a[3] = b[3],
         a[3] # NoPage
  PROVE  a = b
<1> DEFINE Dir(x) == x = <<"dir", 0, s.dir>>
           Tab(x) == \E k \in 0..NPDE : x = <<"tab", k, s.tab[k]>>
           Pte(x) == \E v \in Vpages : x = <<"pte", v, s.pte[v]>>
<1>1. (Dir(a) \/ Tab(a) \/ Pte(a)) /\ (Dir(b) \/ Tab(b) \/ Pte(b))
  BY DEF PlacesIn
<1>2. CASE Dir(a) /\ Dir(b)
  BY <1>2
<1>3. CASE Tab(a) /\ Tab(b)
  BY <1>3, SMTT(30) DEF Once
<1>4. CASE Pte(a) /\ Pte(b)
  BY <1>4, SMTT(30) DEF Once
<1>5. CASE (Dir(a) /\ Tab(b)) \/ (Tab(a) /\ Dir(b))
  BY <1>5, SMTT(30) DEF Once
<1>6. CASE (Dir(a) /\ Pte(b)) \/ (Pte(a) /\ Dir(b))
  BY <1>6, SMTT(30) DEF Once
<1>7. CASE (Tab(a) /\ Pte(b)) \/ (Pte(a) /\ Tab(b))
  BY <1>7, SMTT(30) DEF Once
<1>8. QED
  BY <1>1, <1>2, <1>3, <1>4, <1>5, <1>6, <1>7

\* The parts of a process that hold pages, and the places in each.
LEMMA UseOf ==
  ASSUME NEW u \in Uses
  PROVE  /\ u.proc \in Procs /\ u.at[3] # NoPage
         /\ u = [proc |-> u.proc, of |-> u.of, at |-> u.at]
         /\ \/ u.of = "space" /\ u.at \in PlacesIn(space[u.proc])
            \/ u.of = "new" /\ u.at \in PlacesIn(job[u.proc].new)
            \/ u.of = "kstack" /\ u.at = <<"kstack", 0, kstack[u.proc]>>
            \/ u.of = "mem" /\ u.at = <<"mem", 0, job[u.proc].mem>>
<1>1. PICK p \in Procs :
        \/ u \in [proc : {p}, of : {"space"}, at : PlacesIn(space[p])]
        \/ u \in [proc : {p}, of : {"new"}, at : PlacesIn(job[p].new)]
        \/ u \in [proc : {p}, of : {"kstack"}, at : {<<"kstack", 0, kstack[p]>>}]
        \/ u \in [proc : {p}, of : {"mem"}, at : {<<"mem", 0, job[p].mem>>}]
  BY DEF Uses
<1>2. u.at[3] # NoPage
  BY DEF Uses
<1>3. u.proc = p /\ u = [proc |-> u.proc, of |-> u.of, at |-> u.at]
  BY <1>1
<1>4. QED
  BY <1>1, <1>2, <1>3

\* A place with a page is a use.
LEMMA OfUse ==
  ASSUME NEW p \in Procs, NEW o, NEW a, a[3] # NoPage,
         \/ o = "space" /\ a \in PlacesIn(space[p])
         \/ o = "new" /\ a \in PlacesIn(job[p].new)
         \/ o = "kstack" /\ a = <<"kstack", 0, kstack[p]>>
         \/ o = "mem" /\ a = <<"mem", 0, job[p].mem>>
  PROVE  a[3] \in {u.at[3] : u \in Uses}
<1> DEFINE u == [proc |-> p, of |-> o, at |-> a]
<1>1. \/ u \in [proc : {p}, of : {"space"}, at : PlacesIn(space[p])]
      \/ u \in [proc : {p}, of : {"new"}, at : PlacesIn(job[p].new)]
      \/ u \in [proc : {p}, of : {"kstack"}, at : {<<"kstack", 0, kstack[p]>>}]
      \/ u \in [proc : {p}, of : {"mem"}, at : {<<"mem", 0, job[p].mem>>}]
  OBVIOUS
<1>2. u.at[3] # NoPage
  OBVIOUS
<1>3. u \in Uses
  BY <1>1, <1>2, SMTT(30) DEF Uses
<1>4. QED
  BY <1>3, SMTT(30)

\* The pages of a process are those of its uses.
LEMMA UsePages ==
  ASSUME MemInv, NEW u \in Uses
  PROVE  /\ u.at[3] \in Owns[u.proc]
         /\ u.of = "space" => u.at[3] \in PagesOf(space[u.proc])
         /\ u.of = "new" => u.at[3] \in PagesOf(job[u.proc].new)
         /\ u.of = "kstack" => u.at[3] = kstack[u.proc]
         /\ u.of = "mem" => u.at[3] = job[u.proc].mem
<1>1. /\ u.proc \in Procs /\ u.at[3] # NoPage
      /\ \/ u.of = "space" /\ u.at \in PlacesIn(space[u.proc])
         \/ u.of = "new" /\ u.at \in PlacesIn(job[u.proc].new)
         \/ u.of = "kstack" /\ u.at = <<"kstack", 0, kstack[u.proc]>>
         \/ u.of = "mem" /\ u.at = <<"mem", 0, job[u.proc].mem>>
  BY UseOf
<1>2. /\ u.of = "space" => u.at[3] \in PagesOf(space[u.proc])
      /\ u.of = "new" => u.at[3] \in PagesOf(job[u.proc].new)
  BY <1>1, PlacePages
<1>3. /\ u.of = "kstack" => u.at[3] = kstack[u.proc]
      /\ u.of = "mem" => u.at[3] = job[u.proc].mem
  BY <1>1, SMTT(30)
<1>4. u.at[3] \in Owns[u.proc]
  BY <1>1, <1>2, <1>3 DEF Owns, Owned
<1>5. QED
  BY <1>2, <1>3, <1>4

\* No page has two uses.
LEMMA UseOnce ==
  ASSUME MemInv, NEW u \in Uses, NEW w \in Uses, u.at[3] = w.at[3]
  PROVE  u = w
<1>1. u.proc \in Procs /\ w.proc \in Procs /\ u.at[3] # NoPage
  BY UseOf
<1>2. u.at[3] \in Owns[u.proc] /\ w.at[3] \in Owns[w.proc]
  BY UsePages
<1>3. PICK p \in Procs : u.proc = p /\ w.proc = p
  BY <1>1, <1>2 DEF MemInv, Divides
<1>4. TidyProc(p)
  BY DEF MemInv
<1>5. Once(space[p]) /\ Once(job[p].new) /\ Apart(kstack[p], space[p], job[p])
  BY <1>4 DEF TidyProc, Tidy, SpaceOK
<1>6. u.of = w.of
  <2>1. /\ u.of \in {"space", "new", "kstack", "mem"} /\ w.of \in {"space", "new", "kstack", "mem"}
    BY UseOf
  <2>2. /\ u.of = "space" => u.at[3] \in PagesOf(space[p])
        /\ u.of = "new" => u.at[3] \in PagesOf(job[p].new)
        /\ u.of = "kstack" => u.at[3] = kstack[p]
        /\ u.of = "mem" => u.at[3] = job[p].mem
    BY <1>3, UsePages
  <2>3. /\ w.of = "space" => w.at[3] \in PagesOf(space[p])
        /\ w.of = "new" => w.at[3] \in PagesOf(job[p].new)
        /\ w.of = "kstack" => w.at[3] = kstack[p]
        /\ w.of = "mem" => w.at[3] = job[p].mem
    BY <1>3, UsePages
  <2>4. QED
    BY <1>1, <1>5, <2>1, <2>2, <2>3 DEF Apart
<1>7. u.at = w.at
  <2>1. /\ \/ u.of = "space" /\ u.at \in PlacesIn(space[p])
           \/ u.of = "new" /\ u.at \in PlacesIn(job[p].new)
           \/ u.of = "kstack" /\ u.at = <<"kstack", 0, kstack[p]>>
           \/ u.of = "mem" /\ u.at = <<"mem", 0, job[p].mem>>
    BY <1>3, UseOf
  <2>2. /\ \/ w.of = "space" /\ w.at \in PlacesIn(space[p])
           \/ w.of = "new" /\ w.at \in PlacesIn(job[p].new)
           \/ w.of = "kstack" /\ w.at = <<"kstack", 0, kstack[p]>>
           \/ w.of = "mem" /\ w.at = <<"mem", 0, job[p].mem>>
    BY <1>3, UseOf
  <2>3. CASE u.of = "space"
    BY <1>1, <1>5, <1>6, <2>1, <2>2, <2>3, PlaceOnce, SMTT(30)
  <2>4. CASE u.of = "new"
    BY <1>1, <1>5, <1>6, <2>1, <2>2, <2>4, PlaceOnce, SMTT(30)
  <2>5. CASE u.of \in {"kstack", "mem"}
    BY <1>6, <2>1, <2>2, <2>5, SMTT(30)
  <2>6. QED
    BY <2>1, <2>3, <2>4, <2>5
<1>8. QED
  <2>1. /\ u = [proc |-> u.proc, of |-> u.of, at |-> u.at]
        /\ w = [proc |-> w.proc, of |-> w.of, at |-> w.at]
    BY UseOf
  <2>2. QED
    BY <1>3, <1>6, <1>7, <2>1, SMTT(30)

\* Every page that is not free has a use.
LEMMA OwnUse ==
  ASSUME MemInv, NEW p \in Procs, NEW g \in Owns[p]
  PROVE  g \in {u.at[3] : u \in Uses}
<1>1. /\ g # NoPage
      /\ \/ g \in PagesOf(space[p]) \/ g \in PagesOf(job[p].new)
         \/ g = kstack[p] \/ g = job[p].mem
  BY DEF Owns, Owned
<1>2. CASE g \in PagesOf(space[p])
  <2>1. PICK a \in PlacesIn(space[p]) : a[3] = g
    BY <1>2, PlacePages
  <2>2. QED
    BY <1>1, <2>1, OfUse
<1>3. CASE g \in PagesOf(job[p].new)
  <2>1. PICK a \in PlacesIn(job[p].new) : a[3] = g
    BY <1>3, PlacePages
  <2>2. QED
    BY <1>1, <2>1, OfUse
<1>4. CASE g = kstack[p]
  <2> DEFINE a == <<"kstack", 0, kstack[p]>>
  <2>1. a[3] = g
    BY <1>4
  <2> HIDE DEF a
  <2>2. a[3] \in {u.at[3] : u \in Uses}
    BY <1>1, <2>1, OfUse DEF a
  <2>3. QED
    BY <2>1, <2>2
<1>5. CASE g = job[p].mem
  <2> DEFINE a == <<"mem", 0, job[p].mem>>
  <2>1. a[3] = g
    BY <1>5
  <2> HIDE DEF a
  <2>2. a[3] \in {u.at[3] : u \in Uses}
    BY <1>1, <2>1, OfUse DEF a
  <2>3. QED
    BY <2>1, <2>2, SMTT(30)
<1>6. QED
  BY <1>1, <1>2, <1>3, <1>4, <1>5

\* No page is lost, freed in use or given away twice, for any number of processes, pages
\* and calls, and whenever kalloc() fails (kalloc.c, vm.c, exec.c, proc.c).
THEOREM PagesStaySound == MemorySpec => []PagesSound
<1>1. ASSUME MemInv
      PROVE  PagesSound
  <2>1. freelist \subseteq Page
    BY <1>1 DEF MemInv, Divides
  <2>2. ASSUME NEW g \in Page \ freelist
        PROVE  g \in {u.at[3] : u \in Uses}
    <3>1. PICK p \in Procs : g \in Owns[p]
      BY <1>1 DEF MemInv, Divides
    <3>2. QED
      BY <1>1, <3>1, OwnUse
  <2>3. ASSUME NEW u \in Uses
        PROVE  u.at[3] \in Page \ freelist
    <3>1. u.proc \in Procs /\ u.at[3] \in Owns[u.proc]
      BY <1>1, UseOf, UsePages
    <3>2. QED
      BY <1>1, <3>1 DEF MemInv, Divides
  <2>4. Page \ freelist = {u.at[3] : u \in Uses}
    BY <2>2, <2>3
  <2>5. \A u, w \in Uses : u.at[3] = w.at[3] => u = w
    BY <1>1, UseOnce
  <2>6. QED
    BY <2>1, <2>4, <2>5 DEF PagesSound
<1>2. QED
  BY <1>1, MemoryInvariance, PTL

\* The kernel does not panic; the directory that is loaded is the process's own and not
\* free; and a process in user mode has the pages below its size and no others.
THEOREM SpacesStaySound == MemorySpec => []SpaceSound
<1>1. ASSUME MemInv
      PROVE  SpaceSound
  <2>1. panic = "none"
    BY <1>1 DEF MemInv
  <2>2. ASSUME NEW p \in Procs, cr3[p] # NoPage
        PROVE  cr3[p] = space[p].dir /\ cr3[p] \notin freelist
    <3>1. cr3[p] = space[p].dir
      BY <1>1, <2>2, Mine DEF StateOK
    <3>2. cr3[p] \in PagesOf(space[p])
      BY <2>2, <3>1 DEF PagesOf
    <3>3. QED
      BY <1>1, <3>1, <3>2, Holding
  <2>3. ASSUME NEW p \in Procs, InUser(p)
        PROVE  Mapped(space[p]) = 0..PGROUNDUP(sz[p]) - 1
    BY <1>1, <2>3, User
  <2>4. QED
    BY <2>1, <2>2, <2>3 DEF SpaceSound, LoadedInUse
<1>2. QED
  BY <1>1, MemoryInvariance, PTL

\* What fork() gives to the child is a copy of the parent's space.
LEMMA ForkCopy ==
  ASSUME MemInv, NEW p \in Procs, ForkDone(p), NEW q \in Procs, q = job[p].child
  PROVE  /\ sz'[q] = sz[p] /\ Mapped(space'[q]) = Mapped(space[p])
         /\ space'[q].user = space[p].user
         /\ PagesAt(space'[q], Vpages) \cap PagesAt(space[p], Vpages) \subseteq {NoPage}
<1> DEFINE j == job[p]
<1>1. j.pc = "copy" /\ j.v * PGSIZE >= sz[p]
  BY DEF ForkDone, At
<1>2. /\ j.v \in Nat /\ sz[p] \in Nat /\ j.v <= PGROUNDUP(sz[p]) /\ PGROUNDUP(sz[p]) \in Nat
      /\ Mapped(space[p]) = 0..PGROUNDUP(sz[p]) - 1 /\ Mapped(j.new) = 0..j.v - 1
      /\ j.new.user = space[p].user \cap (0..j.v - 1)
      /\ space[p].user \subseteq Mapped(space[p])
  BY <1>1, CopyFacts
<1>3. j.v = PGROUNDUP(sz[p])
  <2>1. PGROUNDUP(sz[p]) <= j.v
    BY <1>1, <1>2, Beyond
  <2>2. QED
    BY <1>2, <2>1, SMTT(30)
<1>4. space'[q] = j.new /\ sz'[q] = sz[p]
  BY DEF ForkDone, MemInv, MemoryTypes
<1>5. PagesOf(space[p]) \cap PagesOf(j.new) = {}
  BY Holding DEF CallPages
<1>6. PagesAt(j.new, Vpages) \cap PagesAt(space[p], Vpages) \subseteq {NoPage}
  BY <1>5 DEF PagesAt, PagesOf
<1>7. Mapped(j.new) = Mapped(space[p]) /\ j.new.user = space[p].user
  BY <1>2, <1>3
<1>8. QED
  BY <1>4, <1>6, <1>7

\* Only the step of fork() that gives the copy away ends the call of a process that has
\* copied all of its pages.
LEMMA CopyEnds ==
  ASSUME MemInv, [MemoryNext]_memoryVars, NEW p \in Procs, job[p].pc = "copy",
         job[p].v * PGSIZE >= sz[p], job'[p].pc = "user"
  PROVE  ForkDone(p)
<1>1. job \in [Procs -> Job]
  BY DEF MemInv, MemoryTypes
<1>2. job'[p] # job[p] /\ job[p].pc # "user"
  OBVIOUS
<1>3. ~(UNCHANGED memoryVars)
  BY <1>2 DEF memoryVars
<1>4. PICK r \in Procs : Call(r) \/ Work(r)
  BY <1>3 DEF MemoryNext
<1>5. CASE r = p
  <2>1. ~Call(p)
    BY <1>2 DEF Call, growproc, exec, fork, InUser, At
  <2>2. ~(AllocPage(p) \/ MapPage(p) \/ AllocDone(p))
    BY DEF AllocPage, MapPage, AllocDone, At
  <2>3. ~(setupkvm(p) \/ KernelMap(p) \/ Segment(p) \/ Commit(p) \/ FreeOld(p) \/ CopyMap(p))
    BY DEF setupkvm, KernelMap, Segment, Commit, FreeOld, CopyMap, At
  <2>4. ~(exit(p) \/ \E q \in Procs : wait(p, q))
    BY <1>2 DEF exit, wait, InUser, At
  <2>5. ~CopyPage(p)
    <3>1. job[p].v \in Nat /\ sz[p] \in Nat /\ PGSIZE \in Nat
      BY CopyFacts, MemoryAssumption
    <3>2. job[p].v * PGSIZE \in Nat
      BY <3>1, SMTT(30)
    <3>3. ~(job[p].v * PGSIZE < sz[p])
      BY <3>1, <3>2, SMTT(30)
    <3>4. QED
      BY <3>3 DEF CopyPage
  <2>6. QED
    BY <1>4, <1>5, <2>1, <2>2, <2>3, <2>4, <2>5, SMTT(30) DEF Work
<1>6. CASE r # p
  <2>1. ASSUME NEW x, job' = [job EXCEPT ![r] = x]
        PROVE  FALSE
    BY <1>1, <1>2, <1>6, <2>1
  <2>2. job' # job
    BY <1>2
  <2>3. ~Return(r)
    BY <2>1 DEF Return
  <2>4. ~(\E pages : Bad(r, pages))
    BY <2>3 DEF Bad
  <2>5. ~AllocFails(r)
    BY <2>3 DEF AllocFails
  <2>6. ~(\E s, j : SetTarget(r, s, j))
    BY <2>1 DEF SetTarget
  <2>7. ~Call(r)
    BY <2>1, <2>2, <2>3 DEF Call, growproc, exec, fork
  <2>8. ~AllocPage(r)
    BY <1>1, <1>2, <1>6, <2>5 DEF AllocPage
  <2>9. ~MapPage(r)
    BY <2>2, <2>5, <2>6 DEF MapPage, Panic
  <2>10. ~AllocDone(r)
    BY <1>1, <1>2, <1>6, <2>3 DEF AllocDone
  <2>11. ~(setupkvm(r) \/ KernelMap(r) \/ CopyPage(r))
    BY <1>1, <1>2, <1>6, <2>2, <2>4 DEF setupkvm, KernelMap, CopyPage, Panic
  <2>12. ~(Segment(r) \/ CopyMap(r))
    BY <2>1, <2>4 DEF Segment, CopyMap
  <2>13. ~(Commit(r) \/ FreeOld(r) \/ ForkDone(r))
    BY <1>1, <1>2, <1>6, <2>3, <2>4 DEF Commit, FreeOld, ForkDone
  <2>14. ~(exit(r) \/ \E q \in Procs : wait(r, q))
    BY <2>2 DEF exit, wait
  <2>15. QED
    BY <1>4, <2>7, <2>8, <2>9, <2>10, <2>11, <2>12, <2>13, <2>14, SMTT(30) DEF Work
<1>7. QED
  BY <1>5, <1>6

\* fork() copies: the child starts with its parent's size, the same pages and the same of
\* them accessible, on pages of its own (copyuvm() in vm.c, fork() in proc.c).
THEOREM ForkIsCopy == MemorySpec => ForkCopies
<1>1. ASSUME MemInv, [MemoryNext]_memoryVars, NEW p \in Procs, At(p, "copy"),
             job'[p].pc = "user", job[p].v * PGSIZE >= sz[p], NEW q, q = job[p].child
      PROVE  /\ sz'[q] = sz[p] /\ Mapped(space'[q]) = Mapped(space[p])
             /\ space'[q].user = space[p].user
             /\ PagesAt(space'[q], Vpages) \cap PagesAt(space[p], Vpages) \subseteq {NoPage}
  <2>1. job[p].pc = "copy" /\ q \in Procs
    BY <1>1, Mine DEF At, Job
  <2>2. ForkDone(p)
    BY <1>1, <2>1, CopyEnds
  <2>3. QED
    BY <1>1, <2>1, <2>2, ForkCopy
<1> DEFINE Copies ==
      \A p \in Procs : At(p, "copy") /\ job'[p].pc = "user" /\ job[p].v * PGSIZE >= sz[p] =>
        LET q == job[p].child
        IN /\ sz'[q] = sz[p] /\ Mapped(space'[q]) = Mapped(space[p])
           /\ space'[q].user = space[p].user
           /\ PagesAt(space'[q], Vpages) \cap PagesAt(space[p], Vpages) \subseteq {NoPage}
<1>2. MemInv /\ [MemoryNext]_memoryVars => [Copies]_memoryVars
  BY <1>1
<1>3. QED
  BY <1>2, MemoryInvariance, PTL DEF MemorySpec, ForkCopies
=============================================================================
