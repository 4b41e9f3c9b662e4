-------------------------------- MODULE Memory --------------------------------
(***************************************************************************)
(* Physical pages and address spaces: the page allocator (kalloc.c), page  *)
(* tables (vm.c) and the calls that build, grow, copy and free address     *)
(* spaces (exec.c; growproc, fork, exit and wait of proc.c).               *)
(*                                                                         *)
(* A call is a sequence of kalloc()s, between which other processes take   *)
(* and give back pages.  The pages that one call frees at a stretch come   *)
(* back in one step: a kalloc() between two of its kfree()s finds what one *)
(* before or after them finds.  Sizes are in units, PGSIZE to a page.      *)
(***************************************************************************)
EXTENDS Integers, Sequences

CONSTANTS Procs, initproc,
          Page,        \* physical pages
          NoPage,
          PGSIZE,      \* units in a page
          PPT,         \* pages that a page table maps
          NPDE,        \* entries of a page directory for user addresses; the next one
                       \* stands for the kernel's
          UintMod,     \* 2^32
          Increments,  \* arguments of sbrk()
          Images,      \* programs: the ends of their segments
          MaxCalls     \* bound on the number of sbrk(), exec() and fork()

Vpages   == 0 .. NPDE * PPT - 1
KERNBASE == NPDE * PPT * PGSIZE
PDX(v)   == v \div PPT
PGROUNDUP(x) == (x + PGSIZE - 1) \div PGSIZE     \* as a page number

\* The pages of the first process.
FirstPages == {"kstack", "dir", "ktab", "tab", "code"}
Distinct(f) == \A x, y \in DOMAIN f : f[x] = f[y] => x = y

ASSUME MemoryAssumption ==
  /\ initproc \in Procs /\ NoPage \notin Page
  /\ \E f \in [FirstPages -> Page] : Distinct(f)
  /\ PGSIZE \in Nat \ {0} /\ PPT \in Nat \ {0} /\ NPDE \in Nat \ {0}
  /\ UintMod \in Nat /\ UintMod >= 2 * KERNBASE
  /\ Increments \subseteq Int /\ Images \subseteq Seq(Nat) /\ MaxCalls \in Nat

VARIABLES
  freelist,    \* kmem.freelist, as a set: the code does not compare pages
  state,       \* UNUSED, EMBRYO, RUN (whatever it is doing) or ZOMBIE
  kstack, sz,  \* struct proc
  space,       \* what pgdir leads to
  cr3,         \* the page directory that is loaded when the process runs
  job,         \* the system call that the process is in
  panic,
  ncalls

memoryVars == <<freelist, state, kstack, sz, space, cr3, job, panic, ncalls>>

\* An address space: its directory, its page tables, the page at each user page number
\* and the page numbers with PTE_U.
NoSpace == [dir |-> NoPage, tab |-> [k \in 0..NPDE |-> NoPage],
            pte |-> [v \in Vpages |-> NoPage], user |-> {}]

\* A process in user mode is in no call.  Of a call: the next step pc, the space that it
\* builds, the page that it has got and not yet mapped, the page number v up to which it
\* has come, the sizes between which it grows, what is left to load of a program, whether
\* it is at the stack of it, and the child of fork().
NoJob == [pc |-> "user", call |-> "none", new |-> NoSpace, mem |-> NoPage, v |-> 0,
          oldsz |-> 0, newsz |-> 0, segs |-> <<>>, stack |-> FALSE, child |-> initproc]

\* init, as userinit() makes it: a page of code.
MemoryInit ==
  LET f == CHOOSE g \in [FirstPages -> Page] : Distinct(g)
      code == [dir |-> f["dir"],
               tab |-> [k \in 0..NPDE |-> CASE k = NPDE -> f["ktab"] [] k = 0 -> f["tab"]
                                            [] OTHER -> NoPage],
               pte |-> [v \in Vpages |-> IF v = 0 THEN f["code"] ELSE NoPage], user |-> {0}]
      Of(p, x, none) == IF p = initproc THEN x ELSE none
  IN /\ freelist = Page \ {f[x] : x \in DOMAIN f}
     /\ state = [p \in Procs |-> Of(p, "RUN", "UNUSED")]
     /\ kstack = [p \in Procs |-> Of(p, f["kstack"], NoPage)]
     /\ sz = [p \in Procs |-> Of(p, PGSIZE, 0)]
     /\ space = [p \in Procs |-> Of(p, code, NoSpace)]
     /\ cr3 = [p \in Procs |-> Of(p, f["dir"], NoPage)]
     /\ job = [p \in Procs |-> NoJob] /\ panic = "none" /\ ncalls = 0
-----------------------------------------------------------------------------
\* The page that kalloc() takes, when there is one.
kalloc == CHOOSE g \in freelist : TRUE

Mapped(s) == {v \in Vpages : s.pte[v] # NoPage}

DeallocDown(s, oldsz, newsz) ==
  {v \in Mapped(s) : v >= newsz \div PGSIZE /\ v * PGSIZE < oldsz}

\* The page numbers that deallocuvm() from oldsz to newsz unmaps: it rounds newsz up and
\* passes over tables that are missing.
Dealloc(s, oldsz, newsz) == {v \in Mapped(s) : v >= PGROUNDUP(newsz) /\ v * PGSIZE < oldsz}

Unmap(s, vs) == [s EXCEPT !.pte = [v \in Vpages |-> IF v \in vs THEN NoPage ELSE @[v]],
                          !.user = @ \ vs]
PagesAt(s, vs) == {s.pte[v] : v \in vs}

\* The pages that freevm() frees: those of user addresses, the tables, the directory.
freevm(s) ==
  PagesAt(s, Dealloc(s, KERNBASE, 0)) \cup {s.tab[k] : k \in {j \in 0..NPDE : s.tab[j] # NoPage}}
  \cup {s.dir}

At(p, pc) == panic = "none" /\ job[p].pc = pc
Goto(p, pc) == job' = [job EXCEPT ![p].pc = pc]
Return(p) == job' = [job EXCEPT ![p] = NoJob]
Panic(why) == panic' = why /\ UNCHANGED <<freelist, state, kstack, sz, space, cr3, job>>

\* The space that the call of p works on: its own for sbrk().
Target(p) == IF job[p].call = "sbrk" THEN space[p] ELSE job[p].new

SetTarget(p, s, j) ==
  IF job[p].call = "sbrk"
  THEN space' = [space EXCEPT ![p] = s] /\ job' = [job EXCEPT ![p] = j]
  ELSE job' = [job EXCEPT ![p] = [j EXCEPT !.new = s]] /\ UNCHANGED space

\* A process runs user code as long as it has a page of it.
InUser(p) ==
  At(p, "user") /\ state[p] = "RUN" /\ Mapped(space[p]) \cap space[p].user # {}
-----------------------------------------------------------------------------
(***************************************************************************)
(* sbrk().                                                                 *)
(***************************************************************************)
\* growproc(n): sums are unsigned.  Growing starts the loop of allocuvm(); shrinking to
\* 0 frees the pages, and then fails without setting the size.
growproc(p, n) ==
  /\ InUser(p)
  /\ LET new == (sz[p] + n) % UintMod
         gone == IF new >= sz[p] THEN {} ELSE Dealloc(space[p], sz[p], new)
     IN \/ /\ n > 0
           /\ IF new >= KERNBASE \/ new < sz[p] THEN UNCHANGED job
              ELSE job' = [job EXCEPT ![p] = [NoJob EXCEPT !.pc = "alloc", !.call = "sbrk",
                             !.v = PGROUNDUP(sz[p]), !.oldsz = sz[p], !.newsz = new]]
           /\ UNCHANGED <<freelist, sz, space>>
        \/ /\ n < 0
           /\ freelist' = freelist \cup PagesAt(space[p], gone)
           /\ space' = [space EXCEPT ![p] = Unmap(@, gone)]
           /\ sz' = [sz EXCEPT ![p] = IF new = 0 \/ new >= @ THEN @ ELSE new]
           /\ UNCHANGED job
  /\ UNCHANGED <<state, kstack, cr3, panic>>

AllocFailsKeeping(p) ==
  LET s == Target(p)
      vs == Dealloc(s, job[p].newsz, job[p].oldsz)
  IN IF job[p].call = "sbrk"
     THEN /\ freelist' = freelist \cup PagesAt(s, vs)
          /\ space' = [space EXCEPT ![p] = Unmap(s, vs)] /\ Return(p)
     ELSE freelist' = freelist \cup freevm(s) /\ Return(p) /\ UNCHANGED space

\* What is given back when allocuvm() fails, with the page that is not mapped.
AllocFails(p) ==
  LET j == job[p]
      s == Target(p)
      vs == Dealloc(s, j.newsz, j.oldsz)
      mem == IF j.mem = NoPage THEN {} ELSE {j.mem}
  IN IF j.call = "sbrk"
     THEN /\ freelist' = freelist \cup PagesAt(s, vs) \cup mem
          /\ space' = [space EXCEPT ![p] = Unmap(s, vs)] /\ Return(p)
     ELSE /\ freelist' = freelist \cup freevm(s) \cup mem
          /\ Return(p) /\ UNCHANGED space

\* allocuvm(): a page of memory ...
AllocPage(p) ==
  /\ At(p, "alloc") /\ job[p].v * PGSIZE < job[p].newsz
  /\ IF freelist = {} THEN AllocFails(p)
     ELSE /\ freelist' = freelist \ {kalloc}
          /\ job' = [job EXCEPT ![p].mem = kalloc, ![p].pc = "map"]
          /\ UNCHANGED space
  /\ UNCHANGED <<state, kstack, sz, cr3, panic>>

\* ... and mappages(), which may need a page table.
MapPage(p) ==
  /\ At(p, "map")
  /\ LET j == job[p]
         s == Target(p)
         k == PDX(j.v)
         need == s.tab[k] = NoPage
         t == IF need THEN kalloc ELSE s.tab[k]
         mapped == [s EXCEPT !.tab[k] = t, !.pte[j.v] = j.mem, !.user = @ \cup {j.v}]
     IN IF need /\ freelist = {} THEN AllocFails(p) /\ UNCHANGED panic
        ELSE IF s.pte[j.v] # NoPage THEN Panic("remap")
        ELSE /\ freelist' = IF need THEN freelist \ {kalloc} ELSE freelist
             /\ SetTarget(p, mapped, [j EXCEPT !.mem = NoPage, !.v = @ + 1, !.pc = "alloc"])
             /\ UNCHANGED panic
  /\ UNCHANGED <<state, kstack, sz, cr3>>

\* allocuvm() has all its pages.  exec() goes on with its next segment or its stack.
AllocDone(p) ==
  /\ At(p, "alloc") /\ job[p].v * PGSIZE >= job[p].newsz
  /\ IF job[p].call = "sbrk"
     THEN sz' = [sz EXCEPT ![p] = job[p].newsz] /\ Return(p)
     ELSE /\ job' = [job EXCEPT ![p].oldsz = job[p].newsz,
                                ![p].pc = IF job[p].stack THEN "commit" ELSE "segment"]
          /\ UNCHANGED sz
  /\ UNCHANGED <<freelist, state, kstack, space, cr3, panic>>
-----------------------------------------------------------------------------
(***************************************************************************)
(* exec() and fork() build a space; a failure frees what there is of it.   *)
(***************************************************************************)
NewSpace(p, call) == [NoJob EXCEPT !.pc = "setupkvm", !.call = call]

\* A program is a readable file with a good header; otherwise exec() has failed by now.
exec(p, image) ==
  /\ InUser(p) /\ job' = [job EXCEPT ![p] = [NewSpace(p, "exec") EXCEPT !.segs = image]]
  /\ UNCHANGED <<freelist, state, kstack, sz, space, cr3, panic>>

\* fork(): allocproc() takes a slot and a kernel stack.
fork(p, q) ==
  /\ InUser(p) /\ state[q] = "UNUSED"
  /\ IF freelist = {} THEN UNCHANGED <<freelist, state, kstack, job>>
     ELSE /\ freelist' = freelist \ {kalloc} /\ kstack' = [kstack EXCEPT ![q] = kalloc]
          /\ state' = [state EXCEPT ![q] = "EMBRYO"]
          /\ job' = [job EXCEPT ![p] = [NewSpace(p, "fork") EXCEPT !.child = q]]
  /\ UNCHANGED <<sz, space, cr3, panic>>

\* Give up the call of p, freeing pages.  fork() frees the child's kernel stack as well.
Bad(p, pages) ==
  LET q == job[p].child IN
  /\ Return(p)
  /\ IF job[p].call = "fork"
     THEN /\ freelist' = freelist \cup pages \cup {kstack[q]}
          /\ kstack' = [kstack EXCEPT ![q] = NoPage] /\ state' = [state EXCEPT ![q] = "UNUSED"]
     ELSE freelist' = freelist \cup pages /\ UNCHANGED <<kstack, state>>

\* setupkvm(): the directory ...
setupkvm(p) ==
  /\ At(p, "setupkvm")
  /\ IF freelist = {} THEN Bad(p, {})
     ELSE /\ freelist' = freelist \ {kalloc}
          /\ job' = [job EXCEPT ![p].new.dir = kalloc, ![p].pc = "kmap"]
          /\ UNCHANGED <<kstack, state>>
  /\ UNCHANGED <<sz, space, cr3, panic>>

\* ... and the page table of the kernel.
KernelMap(p) ==
  /\ At(p, "kmap")
  /\ IF freelist = {} THEN Bad(p, freevm(job[p].new))
     ELSE /\ freelist' = freelist \ {kalloc}
          /\ job' = [job EXCEPT ![p].new.tab[NPDE] = kalloc,
                                ![p].pc = IF job[p].call = "fork" THEN "copy" ELSE "segment"]
          /\ UNCHANGED <<kstack, state>>
  /\ UNCHANGED <<sz, space, cr3, panic>>

\* The next segment of a program, which may prove unreadable, or its stack of two pages
\* on the next page boundary: allocuvm() from oldsz to the end of it.
Segment(p) ==
  /\ At(p, "segment")
  /\ LET j == job[p]
         stack == j.segs = <<>>
         old == IF stack THEN PGROUNDUP(j.oldsz) * PGSIZE ELSE j.oldsz
         end == IF stack THEN old + 2 * PGSIZE ELSE Head(j.segs)
         size == IF end < old THEN old ELSE end
     IN \/ /\ ~stack \/ end >= KERNBASE
           /\ Bad(p, freevm(j.new))
        \/ /\ end < KERNBASE /\ size # 0
           /\ job' = [job EXCEPT ![p] = [j EXCEPT !.pc = "alloc", !.oldsz = old, !.newsz = size,
                        !.v = PGROUNDUP(old), !.stack = stack,
                        !.segs = IF stack THEN @ ELSE Tail(@)]]
           /\ UNCHANGED <<freelist, kstack, state>>
  /\ UNCHANGED <<sz, space, cr3, panic>>

\* clearpteu() below the stack, and the arguments, which may not fit: copyout() stops at
\* the page that is not the user's.  Then the new image is committed and loaded ...
Commit(p) ==
  /\ At(p, "commit")
  /\ LET j == job[p]
         guard == PGROUNDUP(j.newsz) - 2
         s == [j.new EXCEPT !.user = @ \ {guard}]
     IN \/ Bad(p, freevm(s)) /\ UNCHANGED <<space, sz, cr3>>
        \/ /\ space' = [space EXCEPT ![p] = s] /\ sz' = [sz EXCEPT ![p] = j.newsz]
           /\ cr3' = [cr3 EXCEPT ![p] = s.dir]
           /\ job' = [job EXCEPT ![p].new = space[p], ![p].pc = "freeold"]
           /\ UNCHANGED <<freelist, kstack, state>>
  /\ UNCHANGED panic

\* ... and the old one freed.
FreeOld(p) ==
  /\ At(p, "freeold")
  /\ freelist' = freelist \cup freevm(job[p].new) /\ Return(p)
  /\ UNCHANGED <<state, kstack, sz, space, cr3, panic>>

\* copyuvm(): each page of the parent, up to its size ...
CopyPage(p) ==
  /\ At(p, "copy") /\ job[p].v * PGSIZE < sz[p]
  /\ LET v == job[p].v IN
     IF space[p].tab[PDX(v)] = NoPage \/ space[p].pte[v] = NoPage
     THEN Panic("copyuvm: page not present")
     ELSE /\ IF freelist = {} THEN Bad(p, freevm(job[p].new))
             ELSE /\ freelist' = freelist \ {kalloc}
                  /\ job' = [job EXCEPT ![p].mem = kalloc, ![p].pc = "copymap"]
                  /\ UNCHANGED <<kstack, state>>
          /\ UNCHANGED <<sz, space, cr3, panic>>

CopyMapUser(p) ==
  /\ At(p, "copymap")
  /\ LET j == job[p]
         k == PDX(j.v)
         need == j.new.tab[k] = NoPage
         t == IF need THEN kalloc ELSE j.new.tab[k]
         mapped == [j.new EXCEPT !.tab[k] = t, !.pte[j.v] = j.mem, !.user = @ \cup {j.v}]
     IN IF need /\ freelist = {} THEN Bad(p, freevm(j.new) \cup {j.mem})
        ELSE /\ freelist' = IF need THEN freelist \ {kalloc} ELSE freelist
             /\ job' = [job EXCEPT ![p] = [j EXCEPT
                          !.new = mapped, !.mem = NoPage, !.v = @ + 1, !.pc = "copy"]]
             /\ UNCHANGED <<kstack, state>>
  /\ UNCHANGED <<sz, space, cr3, panic>>

\* ... is mapped with the flags that it has.
CopyMap(p) ==
  /\ At(p, "copymap")
  /\ LET j == job[p]
         k == PDX(j.v)
         need == j.new.tab[k] = NoPage
         t == IF need THEN kalloc ELSE j.new.tab[k]
         mapped == [j.new EXCEPT !.tab[k] = t, !.pte[j.v] = j.mem,
                                 !.user = @ \cup ({j.v} \cap space[p].user)]
     IN IF need /\ freelist = {} THEN Bad(p, freevm(j.new) \cup {j.mem})
        ELSE /\ freelist' = IF need THEN freelist \ {kalloc} ELSE freelist
             /\ job' = [job EXCEPT ![p] = [j EXCEPT
                          !.new = mapped, !.mem = NoPage, !.v = @ + 1, !.pc = "copy"]]
             /\ UNCHANGED <<kstack, state>>
  /\ UNCHANGED <<sz, space, cr3, panic>>

\* The child gets the copy and runs.
ForkDone(p) ==
  /\ At(p, "copy") /\ job[p].v * PGSIZE >= sz[p]
  /\ LET q == job[p].child IN
     /\ space' = [space EXCEPT ![q] = job[p].new] /\ sz' = [sz EXCEPT ![q] = sz[p]]
     /\ cr3' = [cr3 EXCEPT ![q] = job[p].new.dir] /\ state' = [state EXCEPT ![q] = "RUN"]
     /\ Return(p)
  /\ UNCHANGED <<freelist, kstack, panic>>

\* exit(), of its own accord or for a page fault: the scheduler's page table is loaded
\* before another process sees the zombie.
exit(p) ==
  /\ At(p, "user") /\ state[p] = "RUN" /\ p # initproc
  /\ state' = [state EXCEPT ![p] = "ZOMBIE"] /\ cr3' = [cr3 EXCEPT ![p] = NoPage]
  /\ UNCHANGED <<freelist, kstack, sz, space, job, panic>>

\* wait() of p finds the zombie q.
wait(p, q) ==
  /\ InUser(p) /\ state[q] = "ZOMBIE"
  /\ freelist' = freelist \cup {kstack[q]} \cup freevm(space[q])
  /\ kstack' = [kstack EXCEPT ![q] = NoPage] /\ state' = [state EXCEPT ![q] = "UNUSED"]
  /\ space' = [space EXCEPT ![q] = NoSpace] /\ sz' = [sz EXCEPT ![q] = 0]
  /\ UNCHANGED <<cr3, job, panic>>

Call(p) ==
  /\ ncalls < MaxCalls /\ ncalls' = ncalls + 1
  /\ \/ \E n \in Increments : growproc(p, n)
     \/ \E image \in Images : exec(p, image)
     \/ \E q \in Procs : fork(p, q)

Work(p) ==
  /\ UNCHANGED ncalls
  /\ \/ AllocPage(p) \/ MapPage(p) \/ AllocDone(p)
     \/ setupkvm(p) \/ KernelMap(p) \/ Segment(p) \/ Commit(p) \/ FreeOld(p)
     \/ CopyPage(p) \/ CopyMap(p) \/ ForkDone(p)
     \/ exit(p) \/ \E q \in Procs : wait(p, q)

MemoryNext == \E p \in Procs : Call(p) \/ Work(p)

MemorySpec == MemoryInit /\ [][MemoryNext]_memoryVars
-----------------------------------------------------------------------------
\* The places of a space, with the pages in them.
PlacesIn(s) ==
  {<<"dir", 0, s.dir>>} \cup {<<"tab", k, s.tab[k]>> : k \in 0..NPDE}
  \cup {<<"pte", v, s.pte[v]>> : v \in Vpages}

\* Every place of the kernel that holds a page, with the page.
Uses ==
  {u \in UNION {[proc : {p}, of : {"space"}, at : PlacesIn(space[p])]
                \cup [proc : {p}, of : {"new"}, at : PlacesIn(job[p].new)]
                \cup [proc : {p}, of : {"kstack"}, at : {<<"kstack", 0, kstack[p]>>}]
                \cup [proc : {p}, of : {"mem"}, at : {<<"mem", 0, job[p].mem>>}] : p \in Procs} :
     u.at[3] # NoPage}

\* Every page is free or in exactly one place: no page is given away twice, none is freed
\* while it is in use, and on no path, with memory running out at any kalloc() of exec(),
\* fork() or sbrk(), is one lost (kalloc.c, and the error paths of vm.c, exec.c, proc.c).
PagesSound ==
  /\ freelist \subseteq Page
  /\ Page \ freelist = {u.at[3] : u \in Uses}
  /\ \A u, w \in Uses : u.at[3] = w.at[3] => u = w

\* The page directory that the processor uses is never a free page or another's: exec()
\* loads the new one before it frees the old one, and a process is reaped only when its
\* directory is no longer loaded.
LoadedInUse ==
  \A p \in Procs : cr3[p] # NoPage => cr3[p] = space[p].dir /\ cr3[p] \notin freelist

\* No panic, and no directory loaded that is not in use; and a process that can run has
\* the pages below its size, and no others, so that a failed sbrk() leaves its space as
\* it was and copyuvm() finds every page.
SpaceSound ==
  /\ panic = "none" /\ LoadedInUse
  /\ \A p \in Procs : InUser(p) => Mapped(space[p]) = 0 .. PGROUNDUP(sz[p]) - 1

\* fork() copies: when the child starts, it has the size of its parent, the same pages and
\* the same of them accessible, on other physical pages.
ForkCopies ==
  [][\A p \in Procs : At(p, "copy") /\ job'[p].pc = "user" /\ job[p].v * PGSIZE >= sz[p] =>
       LET q == job[p].child
       IN /\ sz'[q] = sz[p] /\ Mapped(space'[q]) = Mapped(space[p])
          /\ space'[q].user = space[p].user
          /\ PagesAt(space'[q], Vpages) \cap PagesAt(space[p], Vpages) \subseteq {NoPage}]_memoryVars
=============================================================================
