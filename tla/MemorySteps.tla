----------------------------- MODULE MemorySteps -----------------------------
(***************************************************************************)
(* The invariant of module Memory, for every number of pages and processes *)
(* and every layout of the address spaces: lemmas about sizes, spaces and  *)
(* the pages of a process, and the steps of sbrk().                        *)
(***************************************************************************)
EXTENDS Memory, TLAPS

USE ZenonT(30), SMTT(30)

\* A page, or none.
MaybePage == Page \cup {NoPage}

\* The address spaces: the page directory, the page tables, the pages and what the user may access.
Space == [dir : MaybePage, tab : [0..NPDE -> MaybePage], pte : [Vpages -> MaybePage],
          user : SUBSET Vpages]

JobPlaces == {"user", "alloc", "map", "setupkvm", "kmap", "segment", "commit", "freeold",
              "copy", "copymap"}

\* The calls: where a process is in one, and what the call has built so far.
Job == [pc : JobPlaces, call : {"none", "sbrk", "exec", "fork"}, new : Space,
        mem : MaybePage, v : Nat, oldsz : Nat, newsz : Nat, segs : Seq(Nat),
        stack : BOOLEAN, child : Procs]

States == {"UNUSED", "EMBRYO", "RUN", "ZOMBIE"}

\* The types of the state of Memory.
MemoryTypes ==
  /\ state \in [Procs -> States] /\ kstack \in [Procs -> MaybePage]
  /\ sz \in [Procs -> Nat] /\ space \in [Procs -> Space] /\ cr3 \in [Procs -> MaybePage]
  /\ job \in [Procs -> Job]

\* The pages of a space, each of which is in one place of it.
PagesOf(s) ==
  ({s.dir} \cup {s.tab[k] : k \in 0..NPDE} \cup {s.pte[v] : v \in Vpages}) \ {NoPage}

\* No page is in two places of a space.
Once(s) ==
  /\ \A k \in 0..NPDE : s.tab[k] # NoPage => s.tab[k] # s.dir
  /\ \A v \in Vpages : s.pte[v] # NoPage => s.pte[v] # s.dir
  /\ \A k \in 0..NPDE, v \in Vpages : s.pte[v] # NoPage => s.pte[v] # s.tab[k]
  /\ \A k, l \in 0..NPDE : s.tab[k] = s.tab[l] /\ s.tab[k] # NoPage => k = l
  /\ \A v, w \in Vpages : s.pte[v] = s.pte[w] /\ s.pte[v] # NoPage => v = w

\* Of a space, moreover: where a page is mapped there is a table, and the user has access
\* to nothing else.
SpaceOK(s) ==
  /\ Once(s) /\ s.user \subseteq Mapped(s)
  /\ \A v \in Mapped(s) : s.tab[PDX(v)] # NoPage

\* The pages of a process with kernel stack ks, space s and call j.
Owned(ks, s, j) == ({ks, j.mem} \cup PagesOf(s) \cup PagesOf(j.new)) \ {NoPage}

\* A process has no page twice: its space, the space it builds, its kernel stack and the
\* page it has just got are disjoint.
Apart(ks, s, j) ==
  /\ PagesOf(s) \cap PagesOf(j.new) = {}
  /\ ks \notin PagesOf(s) \cup PagesOf(j.new) /\ j.mem \notin PagesOf(s) \cup PagesOf(j.new)
  /\ ks # NoPage => ks # j.mem

\* What the state of a process says of what it has.
StateOK(st, ks, s, c, j) ==
  /\ (st = "UNUSED") <=> (ks = NoPage)
  /\ st \in {"UNUSED", "EMBRYO"} => s = NoSpace
  /\ st \in {"RUN", "ZOMBIE"} => s.dir # NoPage
  /\ c = IF st = "RUN" THEN s.dir ELSE NoPage
  /\ st # "RUN" => j.pc = "user"

\* What a call has got by each of its steps.
CallOK(j) ==
  /\ j.pc = "user" => j = NoJob
  /\ j.pc \in {"alloc", "map"} => j.call \in {"sbrk", "exec"}
  /\ j.pc \in {"setupkvm", "kmap"} => j.call \in {"exec", "fork"}
  /\ j.pc \in {"segment", "commit", "freeold"} => j.call = "exec"
  /\ j.pc \in {"copy", "copymap"} => j.call = "fork"
  /\ (j.mem # NoPage) <=> (j.pc \in {"map", "copymap"})
  /\ j.pc = "setupkvm" \/ j.call = "sbrk" => j.new = NoSpace
  /\ j.call \in {"exec", "fork"} /\ j.pc # "setupkvm" => j.new.dir # NoPage
  /\ j.pc \in {"setupkvm", "kmap"} =>
       /\ Mapped(j.new) = {} /\ \A k \in 0..NPDE : j.new.tab[k] = NoPage
       /\ j.v = 0 /\ j.oldsz = 0

\* The page numbers that are mapped: those below the size, in a space that is not being
\* changed, and otherwise those below the page number that the call has come to.  A
\* process that has shrunk to nothing keeps its size and has no page.
SizesOK(st, z, s, j) ==
  /\ z <= KERNBASE
  /\ st = "RUN" /\ j.call # "sbrk" =>
       Mapped(s) = 0..PGROUNDUP(z) - 1 \/ (j.pc = "user" /\ Mapped(s) = {})
  /\ j.pc \in {"alloc", "map"} =>
       /\ Mapped(IF j.call = "sbrk" THEN s ELSE j.new) = 0..j.v - 1
       /\ PGROUNDUP(j.oldsz) <= j.v /\ j.v <= PGROUNDUP(j.newsz) /\ j.newsz <= KERNBASE
       /\ j.call = "sbrk" => j.oldsz = z
       /\ j.pc = "map" => j.v < PGROUNDUP(j.newsz)
  /\ j.pc = "segment" => Mapped(j.new) = 0..PGROUNDUP(j.oldsz) - 1 /\ j.oldsz <= KERNBASE
  /\ j.pc = "commit" => Mapped(j.new) = 0..PGROUNDUP(j.newsz) - 1 /\ j.newsz <= KERNBASE
  /\ j.pc \in {"copy", "copymap"} =>
       /\ Mapped(j.new) = 0..j.v - 1 /\ j.new.user = s.user \cap (0..j.v - 1)
       /\ j.v <= PGROUNDUP(z) /\ (j.pc = "copymap" => j.v < PGROUNDUP(z))

\* All that is known of one process.
Tidy(st, ks, z, s, c, j) ==
  /\ SpaceOK(s) /\ SpaceOK(j.new) /\ Apart(ks, s, j)
  /\ StateOK(st, ks, s, c, j) /\ CallOK(j) /\ SizesOK(st, z, s, j)

TidyProc(p) == Tidy(state[p], kstack[p], sz[p], space[p], cr3[p], job[p])

\* Every page is free or some process's, and no other's.
Divides(own, free) ==
  /\ free \subseteq Page
  /\ \A p \in Procs : own[p] \subseteq Page /\ own[p] \cap free = {}
  /\ \A p, q \in Procs : p # q => own[p] \cap own[q] = {}
  /\ \A g \in Page \ free : \E p \in Procs : g \in own[p]

\* The pages of each process.
Owns == [p \in Procs |-> Owned(kstack[p], space[p], job[p])]

\* A child that fork() has not finished belongs to the process that makes it.
ChildInv ==
  /\ \A p \in Procs : job[p].call = "fork" => state[job[p].child] = "EMBRYO"
  /\ \A p, q \in Procs : job[p].call = "fork" /\ job[q].call = "fork"
                           /\ job[p].child = job[q].child => p = q

\* The inductive invariant.  The theorems below need all of it: that no page has two uses
\* follows from Divides and Tidy only together, and a step frees and maps the pages that
\* CallOK and SizesOK say the call has.
MemInv ==
  /\ MemoryTypes /\ panic = "none" /\ Divides(Owns, freelist)
  /\ (\A p \in Procs : TidyProc(p)) /\ ChildInv

-----------------------------------------------------------------------------
\* The quotient and the remainder of the division by a positive number.
LEMMA Division ==
  ASSUME NEW a \in Int, NEW b \in Nat, b > 0
  PROVE  /\ a % b \in 0..b-1 /\ a \div b \in Int
         /\ a = b * (a \div b) + (a % b)
<1>1. a % b \in 0..b-1
  BY SMTT(30)
<1>2. a \div b \in Int
  BY SMTT(30)
<1>3. a = b * (a \div b) + (a % b)
  BY SMTT(30)
<1>4. QED
  BY <1>1, <1>2, <1>3

-----------------------------------------------------------------------------
(***************************************************************************)
(* Page numbers and sizes.                                                 *)
(***************************************************************************)

\* The page numbers below a size are those of pages that begin below it.
LEMMA RoundUp ==
  ASSUME NEW x \in Nat
  PROVE  PGROUNDUP(x) \in Nat /\ \A v \in Nat : v * PGSIZE < x <=> v < PGROUNDUP(x)
<1> DEFINE q == PGROUNDUP(x)
           r == (x + PGSIZE - 1) % PGSIZE
<1>1. PGSIZE \in Nat /\ PGSIZE > 0
  BY MemoryAssumption, SMTT(30)
<1>2. r \in 0..PGSIZE-1 /\ q \in Int /\ x + PGSIZE - 1 = PGSIZE * q + r
  BY <1>1, Division, SMTT(30) DEF PGROUNDUP
<1> HIDE DEF q, r
<1>3. q >= 0
  <2>1. CASE q < 0
    <3>1. PGSIZE * q <= -PGSIZE
      BY <1>1, <1>2, <2>1, SMTT(30)
    <3>2. QED
      BY <1>1, <1>2, <3>1, SMTT(30)
  <2>2. QED
    BY <1>2, <2>1, SMTT(30)
<1>4. ASSUME NEW v \in Nat
      PROVE  v * PGSIZE < x <=> v < q
  <2>1. CASE v < q
    <3>1. PGSIZE * (q - v) >= PGSIZE /\ PGSIZE * (q - v) = PGSIZE * q - v * PGSIZE
      BY <1>1, <1>2, <2>1, SMTT(30)
    <3>2. QED
      BY <1>1, <1>2, <2>1, <3>1, SMTT(30)
  <2>2. CASE v >= q
    <3>1. PGSIZE * (v - q) >= 0 /\ PGSIZE * (v - q) = v * PGSIZE - PGSIZE * q
      BY <1>1, <1>2, <2>2, SMTT(30)
    <3>2. QED
      BY <1>1, <1>2, <2>2, <3>1, SMTT(30)
  <2>3. QED
    BY <1>2, <2>1, <2>2, SMTT(30)
<1>5. QED
  BY <1>2, <1>3, <1>4, SMTT(30) DEF q

\* PGROUNDUP() of a size is a page number.
LEMMA RoundNat ==
  ASSUME NEW x \in Nat
  PROVE  PGROUNDUP(x) \in Nat
BY RoundUp

\* A page that begins at or beyond a size is none of its pages.
LEMMA Beyond ==
  ASSUME NEW x \in Nat, NEW v \in Nat, v * PGSIZE >= x
  PROVE  PGROUNDUP(x) <= v
<1>1. PGSIZE \in Nat /\ v * PGSIZE \in Nat
  BY MemoryAssumption, SMTT(30)
<1>2. ~(v * PGSIZE < x)
  BY <1>1, SMTT(30)
<1>3. ~(v < PGROUNDUP(x)) /\ PGROUNDUP(x) \in Nat
  BY <1>2, RoundUp
<1>4. QED
  BY <1>3, SMTT(30)

\* Address spaces end at KERNBASE.
LEMMA SpaceEnd ==
  /\ KERNBASE \in Nat /\ KERNBASE > 0 /\ NPDE * PPT \in Nat /\ NPDE * PPT > 0
  /\ \A v \in Vpages : v \in Nat /\ v * PGSIZE < KERNBASE
  /\ PGROUNDUP(KERNBASE) = NPDE * PPT /\ PGROUNDUP(0) = 0
  /\ \A x \in Nat : x <= KERNBASE => 0..PGROUNDUP(x) - 1 \subseteq Vpages
<1> DEFINE n == NPDE * PPT
           e == KERNBASE
<1>1. PGSIZE \in Nat /\ PGSIZE > 0 /\ NPDE \in Nat /\ NPDE > 0 /\ PPT \in Nat /\ PPT > 0
  BY MemoryAssumption, SMTT(30)
<1>2. n \in Nat /\ n > 0
  BY <1>1, SMTT(30)
<1>3. e = n * PGSIZE
  BY DEF KERNBASE
<1>4. Vpages = 0..n-1
  BY DEF Vpages
<1> HIDE DEF n, e
<1>5. e \in Nat /\ e > 0
  BY <1>1, <1>2, <1>3, SMTT(30)
<1>6. \A v \in Nat : v * PGSIZE < e <=> v < PGROUNDUP(e)
  BY <1>5, RoundUp
<1>7. \A v \in Nat : v * PGSIZE < e <=> v < n
  <2>1. ASSUME NEW v \in Nat
        PROVE  v * PGSIZE < e <=> v < n
    <3>1. CASE v < n
      <4>1. PGSIZE * (n - v) >= PGSIZE /\ PGSIZE * (n - v) = n * PGSIZE - v * PGSIZE
        BY <1>1, <1>2, <3>1, SMTT(30)
      <4>2. QED
        BY <1>1, <1>2, <1>3, <3>1, <4>1, SMTT(30)
    <3>2. CASE v >= n
      <4>1. PGSIZE * (v - n) >= 0 /\ PGSIZE * (v - n) = v * PGSIZE - n * PGSIZE
        BY <1>1, <1>2, <3>2, SMTT(30)
      <4>2. QED
        BY <1>1, <1>2, <1>3, <3>2, <4>1, SMTT(30)
    <3>3. QED
      BY <1>2, <3>1, <3>2, SMTT(30)
  <2>2. QED
    BY <2>1
<1>8. PGROUNDUP(e) = n
  <2> DEFINE m == PGROUNDUP(e)
  <2>1. m \in Nat /\ \A v \in Nat : v < m <=> v < n
    BY <1>5, <1>6, <1>7, RoundUp
  <2> HIDE DEF m
  <2>2. m = n
    BY <1>2, <2>1, SMTT(30)
  <2>3. QED
    BY <2>2 DEF m
<1>9. PGROUNDUP(0) = 0
  <2> DEFINE m == PGROUNDUP(0)
  <2>1. m \in Nat /\ \A v \in Nat : v * PGSIZE < 0 <=> v < m
    BY RoundUp
  <2> HIDE DEF m
  <2>2. 0 * PGSIZE = 0
    BY <1>1, SMTT(30)
  <2>3. ~(0 < m)
    BY <2>1, <2>2, SMTT(30)
  <2>4. QED
    BY <2>1, <2>3, SMTT(30) DEF m
<1>10. ASSUME NEW x \in Nat, x <= e
       PROVE  0..PGROUNDUP(x) - 1 \subseteq 0..n-1
  <2> DEFINE m == PGROUNDUP(x)
  <2>1. m \in Nat /\ (n * PGSIZE < x <=> n < m)
    BY <1>2, RoundUp
  <2> HIDE DEF m
  <2>2. m <= n
    BY <1>2, <1>3, <1>5, <1>10, <2>1, SMTT(30)
  <2>3. QED
    BY <1>2, <2>1, <2>2, SMTT(30) DEF m
<1>11. QED
  BY <1>2, <1>4, <1>5, <1>7, <1>8, <1>9, <1>10, SMTT(30) DEF n, e

\* Rounding up does not change their order.
LEMMA RoundOrder ==
  ASSUME NEW x \in Nat, NEW y \in Nat, x <= y
  PROVE  PGROUNDUP(x) <= PGROUNDUP(y)
<1> DEFINE m == PGROUNDUP(x)
           n == PGROUNDUP(y)
<1>1. m \in Nat /\ n \in Nat /\ \A v \in Nat : v * PGSIZE < x <=> v < m
  BY RoundUp
<1>2. \A v \in Nat : v * PGSIZE < y <=> v < n
  BY RoundUp
<1> HIDE DEF m, n
<1>3. CASE m > n
  <2>1. n * PGSIZE < x /\ ~(n * PGSIZE < y) /\ n * PGSIZE \in Nat
    BY <1>1, <1>2, <1>3, MemoryAssumption, SMTT(30)
  <2>2. QED
    BY <2>1, SMTT(30)
<1>4. QED
  BY <1>1, <1>3, SMTT(30) DEF m, n

\* A size that is a number of pages is not rounded.
LEMMA RoundPages ==
  ASSUME NEW n \in Nat
  PROVE  n * PGSIZE \in Nat /\ PGROUNDUP(n * PGSIZE) = n
<1> DEFINE x == n * PGSIZE
           m == PGROUNDUP(x)
<1>0. PGSIZE \in Nat /\ PGSIZE > 0
  BY MemoryAssumption, SMTT(30)
<1>1. x \in Nat
  BY <1>0, SMTT(30)
<1>2. m \in Nat /\ \A v \in Nat : v * PGSIZE < x <=> v < m
  BY <1>1, RoundUp
<1>3. x = n * PGSIZE
  OBVIOUS
<1> HIDE DEF x, m
<1>4. CASE m < n
  <2>1. ~(m * PGSIZE < x)
    BY <1>2, SMTT(30)
  <2>2. PGSIZE * (n - m) >= PGSIZE /\ PGSIZE * (n - m) = n * PGSIZE - m * PGSIZE
    BY <1>0, <1>2, <1>4, SMTT(30)
  <2>3. QED
    BY <1>0, <1>1, <1>2, <1>3, <2>1, <2>2, SMTT(30)
<1>5. CASE m > n
  <2>1. n * PGSIZE < x
    BY <1>2, <1>5
  <2>2. QED
    BY <1>1, <1>3, <2>1, SMTT(30)
<1>6. QED
  BY <1>1, <1>2, <1>4, <1>5, SMTT(30) DEF x, m

\* The directory entry of a user page is a user's.
LEMMA Directory ==
  ASSUME NEW v \in Vpages
  PROVE  PDX(v) \in 0..NPDE - 1 /\ PDX(v) \in 0..NPDE
<1> DEFINE q == v \div PPT
           r == v % PPT
<1>1. NPDE \in Nat /\ PPT \in Nat /\ PPT > 0 /\ v \in Nat /\ v < NPDE * PPT
  BY MemoryAssumption, SpaceEnd, SMTT(30) DEF Vpages
<1>2. r \in 0..PPT-1 /\ q \in Int /\ v = PPT * q + r
  BY <1>1, Division, SMTT(30)
<1> HIDE DEF q, r
<1>3. q >= 0
  <2>1. CASE q < 0
    <3>1. PPT * q <= -PPT
      BY <1>1, <1>2, <2>1, SMTT(30)
    <3>2. QED
      BY <1>1, <1>2, <3>1, SMTT(30)
  <2>2. QED
    BY <1>2, <2>1, SMTT(30)
<1>4. q < NPDE
  <2>1. CASE q >= NPDE
    <3>1. PPT * (q - NPDE) >= 0 /\ PPT * (q - NPDE) = PPT * q - NPDE * PPT
      BY <1>1, <1>2, <2>1, SMTT(30)
    <3>2. NPDE * PPT \in Nat /\ PPT * q \in Int
      BY <1>1, <1>2, SMTT(30)
    <3>3. QED
      BY <1>1, <1>2, <3>1, <3>2, SMTT(30)
  <2>2. QED
    BY <1>1, <1>2, <2>1, SMTT(30)
<1>5. QED
  BY <1>1, <1>2, <1>3, <1>4, SMTT(30) DEF q, PDX

-----------------------------------------------------------------------------
(***************************************************************************)
(* Address spaces.                                                         *)
(***************************************************************************)

\* A space that is not there has no page.
LEMMA SpaceNone ==
  /\ NoSpace \in Space /\ SpaceOK(NoSpace) /\ NoSpace.dir = NoPage
  /\ PagesOf(NoSpace) = {} /\ Mapped(NoSpace) = {} /\ NoSpace.user = {}
  /\ \A k \in 0..NPDE : NoSpace.tab[k] = NoPage
<1>1. NoSpace \in Space
  BY DEF NoSpace, Space, MaybePage
<1>2. Mapped(NoSpace) = {} /\ NoSpace.user = {} /\ NoSpace.dir = NoPage
  BY DEF NoSpace, Mapped
<1>3. \A k \in 0..NPDE : NoSpace.tab[k] = NoPage
  BY DEF NoSpace
<1>4. \A v \in Vpages : NoSpace.pte[v] = NoPage
  BY DEF NoSpace
<1>5. PagesOf(NoSpace) = {}
  BY <1>2, <1>3, <1>4 DEF PagesOf
<1>6. SpaceOK(NoSpace)
  BY <1>2, <1>3, <1>4 DEF SpaceOK, Once
<1>7. QED
  BY <1>1, <1>2, <1>3, <1>5, <1>6

\* What is in a space.
LEMMA PageIn ==
  ASSUME NEW s \in Space
  PROVE  /\ PagesOf(s) \subseteq Page /\ NoPage \notin PagesOf(s)
         /\ \A g : g \in PagesOf(s) <=>
              g # NoPage /\ (g = s.dir \/ (\E k \in 0..NPDE : g = s.tab[k])
                                       \/ \E v \in Vpages : g = s.pte[v])
  BY DEF Space, PagesOf, MaybePage

\* setupkvm(): a directory.
LEMMA SpaceDir ==
  ASSUME NEW g \in Page, NEW s, s = [NoSpace EXCEPT !.dir = g]
  PROVE  /\ s \in Space /\ SpaceOK(s) /\ s.dir = g /\ PagesOf(s) = {g}
         /\ Mapped(s) = {} /\ \A k \in 0..NPDE : s.tab[k] = NoPage
<1>1. /\ s \in Space /\ s.dir = g /\ s.user = {}
      /\ \A k \in 0..NPDE : s.tab[k] = NoPage
      /\ \A v \in Vpages : s.pte[v] = NoPage
  BY DEF NoSpace, Space, MaybePage
<1>2. Mapped(s) = {}
  BY <1>1 DEF Mapped
<1>3. g # NoPage
  BY MemoryAssumption
<1>4. PagesOf(s) = {g}
  BY <1>1, <1>3 DEF PagesOf
<1>5. SpaceOK(s)
  BY <1>1, <1>2 DEF SpaceOK, Once
<1>6. QED
  BY <1>1, <1>2, <1>4, <1>5

\* walkpgdir(): a page table.
LEMMA SpaceTable ==
  ASSUME NEW s \in Space, SpaceOK(s), NEW k \in 0..NPDE, s.tab[k] = NoPage,
         NEW g \in Page, g \notin PagesOf(s), NEW t, t = [s EXCEPT !.tab[k] = g]
  PROVE  /\ t \in Space /\ SpaceOK(t) /\ t.dir = s.dir /\ t.user = s.user
         /\ Mapped(t) = Mapped(s) /\ PagesOf(t) = PagesOf(s) \cup {g} /\ t.tab[k] = g
<1>1. /\ t \in Space /\ t.dir = s.dir /\ t.user = s.user /\ t.pte = s.pte
      /\ t.tab = [s.tab EXCEPT ![k] = g]
  BY DEF Space, MaybePage
<1>2. t.tab[k] = g /\ \A l \in 0..NPDE : l # k => t.tab[l] = s.tab[l]
  BY <1>1 DEF Space
<1>3. Mapped(t) = Mapped(s)
  BY <1>1 DEF Mapped
<1>4. g # NoPage
  BY MemoryAssumption
<1>5. PagesOf(t) = PagesOf(s) \cup {g}
  BY <1>1, <1>2, <1>4, SMTT(30) DEF PagesOf
<1>6. Once(t)
  <2>1. /\ g # s.dir /\ \A l \in 0..NPDE : g # s.tab[l]
        /\ \A v \in Vpages : g # s.pte[v]
    BY <1>4, PageIn
  <2>2. QED
    BY <1>1, <1>2, <2>1, SMTT(30) DEF SpaceOK, Once
<1>7. \A v \in Mapped(t) : t.tab[PDX(v)] # NoPage
  <2>1. ASSUME NEW v \in Mapped(s)
        PROVE  t.tab[PDX(v)] # NoPage
    <3>1. v \in Vpages
      BY DEF Mapped
    <3>2. PDX(v) \in 0..NPDE /\ s.tab[PDX(v)] # NoPage
      BY <3>1, Directory DEF SpaceOK
    <3>3. QED
      BY <1>2, <1>4, <3>2
  <2>2. QED
    BY <1>3, <2>1
<1>8. QED
  BY <1>1, <1>2, <1>3, <1>5, <1>6, <1>7 DEF SpaceOK

\* mappages(): the page number v gets a page, and a page table when there was none.
LEMMA SpaceMapped ==
  ASSUME NEW s \in Space, SpaceOK(s), NEW m \in Space, NEW v \in Vpages,
         m.dir = s.dir, \A l \in 0..NPDE \ {PDX(v)} : m.tab[l] = s.tab[l],
         \A w \in Vpages \ {v} : m.pte[w] = s.pte[w], m.user \subseteq s.user \cup {v},
         s.pte[v] = NoPage, m.pte[v] \in Page, m.pte[v] \notin PagesOf(s),
         m.tab[PDX(v)] \in Page,
         \/ m.tab[PDX(v)] = s.tab[PDX(v)]
         \/ /\ s.tab[PDX(v)] = NoPage /\ m.tab[PDX(v)] # m.pte[v]
            /\ m.tab[PDX(v)] \notin PagesOf(s)
  PROVE  /\ SpaceOK(m) /\ Mapped(m) = Mapped(s) \cup {v}
         /\ PagesOf(m) = PagesOf(s) \cup {m.pte[v], m.tab[PDX(v)]}
<1> DEFINE k == PDX(v)
           g == m.pte[v]
           t == m.tab[k]
<1>1. k \in 0..NPDE
  BY Directory
<1>2. t # NoPage /\ g # NoPage
  BY MemoryAssumption
<1> HIDE DEF k
<1>3. Mapped(m) = Mapped(s) \cup {v}
  BY <1>2 DEF Mapped
<1>4. PagesOf(m) = PagesOf(s) \cup {g, t}
  BY <1>1, <1>2, SMTT(30) DEF PagesOf, k
<1>5. /\ g # s.dir /\ (\A l \in 0..NPDE : g # s.tab[l]) /\ (\A w \in Vpages : g # s.pte[w])
      /\ g # t
  BY <1>1, <1>2, SMTT(30) DEF PagesOf, k
<1>6. Once(m)
  <2>1. CASE t = s.tab[k]
    <3>1. \A l \in 0..NPDE : m.tab[l] = s.tab[l]
      BY <2>1 DEF k
    <3>2. QED
      BY <1>5, <3>1, SMTT(30) DEF SpaceOK, Once
  <2>2. CASE s.tab[k] = NoPage /\ t \notin PagesOf(s)
    <3>1. t # s.dir /\ (\A l \in 0..NPDE : t # s.tab[l]) /\ (\A w \in Vpages : t # s.pte[w])
      BY <1>2, <2>2, SMTT(30) DEF PagesOf
    <3>2. \A l \in 0..NPDE : l # k => m.tab[l] = s.tab[l]
      BY DEF k
    <3>3. \A w \in Vpages : w # v => m.pte[w] = s.pte[w]
      OBVIOUS
    <3>4. QED
      BY <1>5, <3>1, <3>2, <3>3, SMTT(30) DEF SpaceOK, Once
  <2>3. QED
    BY <2>1, <2>2 DEF k
<1>7. ASSUME NEW w \in Mapped(m)
      PROVE  m.tab[PDX(w)] # NoPage
  <2>1. CASE PDX(w) = k
    BY <1>2, <2>1
  <2>2. CASE PDX(w) # k
    <3>1. w \in Mapped(s) /\ w \in Vpages
      BY <1>3, <2>2 DEF k, Mapped
    <3>2. PDX(w) \in 0..NPDE /\ s.tab[PDX(w)] # NoPage
      BY <3>1, Directory DEF SpaceOK
    <3>3. QED
      BY <2>2, <3>2 DEF k
  <2>3. QED
    BY <2>1, <2>2
<1>8. m.user \subseteq Mapped(m)
  BY <1>3 DEF SpaceOK
<1>9. QED
  BY <1>3, <1>4, <1>6, <1>7, <1>8 DEF SpaceOK, k

\* The space s with the page mem at v, in the table t, and with U added to what the user may
\* access: mappages() of one page.
MapAt(s, v, mem, t, U) ==
  [s EXCEPT !.tab[PDX(v)] = t, !.pte[v] = mem, !.user = @ \cup U]

\* It is well formed if t was the table already, or no page of the space.
LEMMA MapOne ==
  ASSUME NEW s \in Space, SpaceOK(s), NEW v \in Vpages, s.pte[v] = NoPage, NEW mem \in Page,
         mem \notin PagesOf(s), NEW t \in Page, NEW U \in SUBSET {v},
         \/ t = s.tab[PDX(v)]
         \/ s.tab[PDX(v)] = NoPage /\ t # mem /\ t \notin PagesOf(s)
  PROVE  /\ MapAt(s, v, mem, t, U) \in Space /\ SpaceOK(MapAt(s, v, mem, t, U))
         /\ MapAt(s, v, mem, t, U).dir = s.dir
         /\ MapAt(s, v, mem, t, U).user = s.user \cup U
         /\ Mapped(MapAt(s, v, mem, t, U)) = Mapped(s) \cup {v}
         /\ PagesOf(MapAt(s, v, mem, t, U)) = PagesOf(s) \cup {mem, t}
<1> DEFINE k == PDX(v)
           e == [s EXCEPT !.tab[k] = t, !.pte[v] = mem, !.user = @ \cup U]
<1>1. k \in 0..NPDE
  BY Directory
<1>2. t = s.tab[k] \/ (s.tab[k] = NoPage /\ t # mem /\ t \notin PagesOf(s))
  OBVIOUS
<1>3. MapAt(s, v, mem, t, U) = e
  BY DEF MapAt
<1> HIDE DEF k
<1>4. e \in Space
  BY <1>1, <1>2 DEF Space, MaybePage
<1>5. /\ e.dir = s.dir /\ e.tab[k] = t /\ e.pte[v] = mem /\ e.user = s.user \cup U
      /\ (\A l \in 0..NPDE \ {k} : e.tab[l] = s.tab[l])
      /\ (\A w \in Vpages \ {v} : e.pte[w] = s.pte[w])
  BY <1>1, <1>4 DEF Space
<1> HIDE DEF e
<1>6. /\ e.tab[k] \in Page /\ e.pte[v] \in Page /\ e.pte[v] \notin PagesOf(s)
      /\ e.user \subseteq s.user \cup {v}
      /\ \/ e.tab[k] = s.tab[k]
         \/ s.tab[k] = NoPage /\ e.tab[k] # e.pte[v] /\ e.tab[k] \notin PagesOf(s)
  BY <1>2, <1>5
<1>7. /\ SpaceOK(e) /\ Mapped(e) = Mapped(s) \cup {v}
      /\ PagesOf(e) = PagesOf(s) \cup {e.pte[v], e.tab[k]}
  BY <1>4, <1>5, <1>6, SpaceMapped, SMTT(30) DEF k
<1>8. QED
  BY <1>3, <1>4, <1>5, <1>7

\* deallocuvm(): page numbers are unmapped.
LEMMA SpaceUnmap ==
  ASSUME NEW s \in Space, SpaceOK(s), NEW vs \in SUBSET Mapped(s), NEW t, t = Unmap(s, vs)
  PROVE  /\ t \in Space /\ SpaceOK(t) /\ t.dir = s.dir /\ Mapped(t) = Mapped(s) \ vs
         /\ PagesAt(s, vs) \subseteq PagesOf(s) /\ PagesOf(t) = PagesOf(s) \ PagesAt(s, vs)
<1>0. vs \subseteq Vpages /\ \A v \in vs : s.pte[v] # NoPage
  BY DEF Mapped
<1>1. /\ t.dir = s.dir /\ t.tab = s.tab /\ t.user = s.user \ vs
      /\ t.pte = [v \in Vpages |-> IF v \in vs THEN NoPage ELSE s.pte[v]] /\ t \in Space
  BY DEF Space, MaybePage, Unmap
<1>2. /\ \A v \in vs : t.pte[v] = NoPage
      /\ \A v \in Vpages \ vs : t.pte[v] = s.pte[v]
  BY <1>0, <1>1
<1>3. Mapped(t) = Mapped(s) \ vs
  BY <1>2 DEF Mapped
<1>4. PagesAt(s, vs) \subseteq PagesOf(s)
  BY <1>0, PageIn DEF PagesAt
<1>5. PagesOf(t) = PagesOf(s) \ PagesAt(s, vs)
  <2>1. ASSUME NEW x
        PROVE  x \in PagesOf(t) <=> x \in PagesOf(s) /\ \A v \in vs : x # s.pte[v]
    BY <1>0, <1>1, <1>2, PageIn, SMTT(30) DEF SpaceOK, Once
  <2>2. QED
    BY <2>1, SMTT(30) DEF PagesAt
<1>6. Once(t)
  BY <1>1, <1>2, SMTT(30) DEF SpaceOK, Once
<1>7. t.user \subseteq Mapped(t) /\ \A w \in Mapped(t) : t.tab[PDX(w)] # NoPage
  BY <1>1, <1>3 DEF SpaceOK
<1>8. QED
  BY <1>1, <1>3, <1>4, <1>5, <1>6, <1>7 DEF SpaceOK

\* freevm() frees all the pages of a space.
LEMMA SpaceFreed ==
  ASSUME NEW s \in Space, s.dir # NoPage
  PROVE  freevm(s) = PagesOf(s)
<1>1. Dealloc(s, KERNBASE, 0) = Mapped(s)
  BY SpaceEnd, SMTT(30) DEF Dealloc, Mapped
<1>2. ASSUME NEW x
      PROVE  x \in freevm(s) <=> x \in PagesOf(s)
  BY <1>1, PageIn, SMTT(30) DEF freevm, PagesAt, Mapped
<1>3. QED
  BY <1>2

\* Whether the user has access to a page does not matter here.
LEMMA SpaceUser ==
  ASSUME NEW s \in Space, SpaceOK(s), NEW g, NEW t, t = [s EXCEPT !.user = @ \ {g}]
  PROVE  /\ t \in Space /\ SpaceOK(t) /\ t.dir = s.dir
         /\ Mapped(t) = Mapped(s) /\ PagesOf(t) = PagesOf(s)
<1>1. /\ t \in Space /\ t.dir = s.dir /\ t.tab = s.tab /\ t.pte = s.pte
      /\ t.user = s.user \ {g}
  BY DEF Space
<1>2. Mapped(t) = Mapped(s) /\ PagesOf(t) = PagesOf(s)
  BY <1>1 DEF Mapped, PagesOf
<1>3. SpaceOK(t)
  BY <1>1, <1>2, SMTT(30) DEF SpaceOK, Once
<1>4. QED
  BY <1>1, <1>2, <1>3

-----------------------------------------------------------------------------
(***************************************************************************)
(* Steps of one process, and of two.                                       *)
(***************************************************************************)

\* The processes of D and the free list exchange pages.
LEMMA Exchange ==
  ASSUME NEW own, NEW own2, NEW F, NEW F2, NEW D \in SUBSET Procs, Divides(own, F),
         \A q \in Procs \ D : own2[q] = own[q], F2 \subseteq Page,
         \A q \in D : own2[q] \subseteq Page /\ own2[q] \cap F2 = {},
         \A q, r \in D : q # r => own2[q] \cap own2[r] = {},
         \A g \in Page : (g \in F2 \/ \E q \in D : g \in own2[q])
                           <=> (g \in F \/ \E q \in D : g \in own[q])
  PROVE  Divides(own2, F2)
<1>1. \A q \in Procs : own2[q] \subseteq Page
  BY DEF Divides
<1>2. ASSUME NEW q \in Procs, NEW g \in own2[q], g \in F2
      PROVE  FALSE
  BY <1>2 DEF Divides
<1>3. ASSUME NEW q \in Procs, NEW r \in Procs, q # r, NEW g \in own2[q], g \in own2[r]
      PROVE  FALSE
  BY <1>1, <1>3, SMTT(30) DEF Divides
<1>4. ASSUME NEW g \in Page \ F2
      PROVE  \E q \in Procs : g \in own2[q]
  BY <1>4 DEF Divides
<1>5. QED
  BY <1>1, <1>2, <1>3, <1>4 DEF Divides

\* A step leaves the process q alone.
Keeps(q) ==
  /\ state'[q] = state[q] /\ kstack'[q] = kstack[q] /\ sz'[q] = sz[q]
  /\ space'[q] = space[q] /\ cr3'[q] = cr3[q] /\ job'[q] = job[q]

\* What a process is the owner of.
LEMMA OwnedPages ==
  ASSUME NEW ks \in MaybePage, NEW s \in Space, NEW j \in Job
  PROVE  Owned(ks, s, j) \subseteq Page
<1>1. j.new \in Space /\ j.mem \in MaybePage
  BY DEF Job
<1>2. PagesOf(s) \subseteq Page /\ PagesOf(j.new) \subseteq Page
  BY <1>1, PageIn
<1>3. QED
  BY <1>1, <1>2 DEF Owned, MaybePage

\* The processes of D exchange pages with each other and with the free list.
LEMMA Together ==
  ASSUME MemInv, NEW D \in SUBSET Procs, MemoryTypes', panic' = "none", ChildInv',
         \A q \in Procs \ D : Keeps(q), \A q \in D : TidyProc(q)', freelist' \subseteq Page,
         \A q \in D : Owns'[q] \cap freelist' = {},
         \A q, r \in D : q # r => Owns'[q] \cap Owns'[r] = {},
         \A g \in Page : (g \in freelist' \/ \E q \in D : g \in Owns'[q])
                           <=> (g \in freelist \/ \E q \in D : g \in Owns[q])
  PROVE  MemInv'
<1>1. ASSUME NEW q \in Procs
      PROVE  TidyProc(q)'
  <2>1. CASE q \in D
    BY <2>1
  <2>2. CASE q \notin D
    BY <2>2 DEF MemInv, TidyProc, Keeps
  <2>3. QED
    BY <2>1, <2>2
<1>2. \A q \in Procs \ D : Owns'[q] = Owns[q]
  BY DEF Owns, Keeps
<1>3. ASSUME NEW q \in Procs
      PROVE  Owns'[q] \subseteq Page
  <2>1. kstack'[q] \in MaybePage /\ space'[q] \in Space /\ job'[q] \in Job
    BY DEF MemoryTypes
  <2>2. Owns'[q] = Owned(kstack'[q], space'[q], job'[q])
    BY DEF Owns
  <2>3. QED
    BY <2>1, <2>2, OwnedPages, SMTT(30)
<1>5. Divides(Owns, freelist)
  BY DEF MemInv
<1> DEFINE o == Owns
           o2 == Owns'
           F == freelist
           F2 == freelist'
<1>6. /\ Divides(o, F) /\ \A q \in Procs \ D : o2[q] = o[q]
      /\ \A q \in D : o2[q] \subseteq Page /\ o2[q] \cap F2 = {}
      /\ \A q, r \in D : q # r => o2[q] \cap o2[r] = {}
      /\ \A g \in Page : (g \in F2 \/ \E q \in D : g \in o2[q])
                           <=> (g \in F \/ \E q \in D : g \in o[q])
      /\ F2 \subseteq Page
  BY <1>2, <1>3, <1>5
<1> HIDE DEF o, o2, F, F2
<1>7. Divides(o2, F2)
  BY <1>6, Exchange, SMTT(30)
<1>8. QED
  BY <1>1, <1>7 DEF MemInv, o2, F2

\* The process p takes pages from the free list or gives some back.
LEMMA OwnStep ==
  ASSUME MemInv, NEW p \in Procs, MemoryTypes', panic' = "none",
         \A q \in Procs \ {p} : Keeps(q), TidyProc(p)', freelist' \subseteq Page,
         Owns'[p] \cap freelist' = {}, Owns'[p] \cup freelist' = Owns[p] \cup freelist,
         state[p] = "EMBRYO" => state'[p] = "EMBRYO",
         job'[p].call = "fork" => job[p].call = "fork" /\ job'[p].child = job[p].child
  PROVE  MemInv'
<1>1. ChildInv'
  <2>1. \A q \in Procs : job'[q].call = "fork" => job[q].call = "fork" /\ job'[q].child = job[q].child
    BY DEF Keeps
  <2>2. \A q \in Procs : state[q] = "EMBRYO" => state'[q] = "EMBRYO"
    BY DEF Keeps
  <2>3. \A q \in Procs : job[q].child \in Procs
    BY DEF MemInv, MemoryTypes, Job
  <2>4. QED
    BY <2>1, <2>2, <2>3, SMTT(30) DEF MemInv, ChildInv
<1> DEFINE D == {p}
<1>2. D \in SUBSET Procs /\ (\A q \in Procs \ D : Keeps(q)) /\ (\A q \in D : TidyProc(q)')
  OBVIOUS
<1>3. /\ \A q \in D : Owns'[q] \cap freelist' = {}
      /\ \A q, r \in D : q # r => Owns'[q] \cap Owns'[r] = {}
      /\ \A g \in Page : (g \in freelist' \/ \E q \in D : g \in Owns'[q])
                           <=> (g \in freelist \/ \E q \in D : g \in Owns[q])
  OBVIOUS
<1> HIDE DEF D
<1>4. QED
  BY <1>1, <1>2, <1>3, Together

\* The processes p and q exchange pages with each other and with the free list.
LEMMA PairStep ==
  ASSUME MemInv, NEW p \in Procs, NEW q \in Procs, p # q, MemoryTypes', panic' = "none",
         \A r \in Procs \ {p, q} : Keeps(r), TidyProc(p)', TidyProc(q)', ChildInv',
         freelist' \subseteq Page, Owns'[p] \cap freelist' = {}, Owns'[q] \cap freelist' = {},
         Owns'[p] \cap Owns'[q] = {},
         Owns'[p] \cup Owns'[q] \cup freelist' = Owns[p] \cup Owns[q] \cup freelist
  PROVE  MemInv'
<1> DEFINE D == {p, q}
<1>2. D \in SUBSET Procs /\ (\A r \in Procs \ D : Keeps(r)) /\ (\A r \in D : TidyProc(r)')
  OBVIOUS
<1>3. /\ \A r \in D : Owns'[r] \cap freelist' = {}
      /\ \A r, t \in D : r # t => Owns'[r] \cap Owns'[t] = {}
      /\ \A g \in Page : (g \in freelist' \/ \E r \in D : g \in Owns'[r])
                           <=> (g \in freelist \/ \E r \in D : g \in Owns[r])
  BY SMTT(30)
<1> HIDE DEF D
<1>4. QED
  BY <1>2, <1>3, Together

\* What there is to know of a process.
LEMMA Mine ==
  ASSUME MemInv, NEW p \in Procs
  PROVE  /\ state[p] \in States /\ kstack[p] \in MaybePage /\ sz[p] \in Nat
         /\ space[p] \in Space /\ cr3[p] \in MaybePage /\ job[p] \in Job /\ job[p].new \in Space
         /\ SpaceOK(space[p]) /\ SpaceOK(job[p].new)
         /\ StateOK(state[p], kstack[p], space[p], cr3[p], job[p]) /\ CallOK(job[p])
         /\ SizesOK(state[p], sz[p], space[p], job[p])
<1>1. TidyProc(p)
  BY DEF MemInv
<1>2. job[p].new \in Space
  BY DEF MemInv, MemoryTypes, Job
<1>3. QED
  BY <1>1, <1>2 DEF MemInv, MemoryTypes, TidyProc, Tidy

\* The pages of the call of a process.
CallPages(j) == PagesOf(j.new) \cup ({j.mem} \ {NoPage})

\* The pages of a process.
LEMMA Holding ==
  ASSUME MemInv, NEW p \in Procs
  PROVE  /\ Owns[p] = PagesOf(space[p]) \cup CallPages(job[p]) \cup ({kstack[p]} \ {NoPage})
         /\ PagesOf(space[p]) \cap CallPages(job[p]) = {}
         /\ kstack[p] \notin PagesOf(space[p]) \cup CallPages(job[p])
         /\ job[p].mem \notin PagesOf(job[p].new) /\ NoPage \notin Page
         /\ Owns[p] \cap freelist = {} /\ Owns[p] \subseteq Page /\ freelist \subseteq Page
<1>1. /\ Owns[p] = Owned(kstack[p], space[p], job[p])
      /\ Owns[p] \cap freelist = {} /\ Owns[p] \subseteq Page /\ freelist \subseteq Page
      /\ NoPage \notin Page
  BY MemoryAssumption DEF MemInv, Owns, Divides
<1>2. NoPage \notin PagesOf(space[p]) /\ NoPage \notin PagesOf(job[p].new)
  BY DEF PagesOf
<1>3. Apart(kstack[p], space[p], job[p])
  BY DEF MemInv, TidyProc, Tidy
<1>4. QED
  BY <1>1, <1>2, <1>3 DEF Owned, Apart, CallPages

\* kalloc() takes a page of the free list.
LEMMA Kalloc ==
  ASSUME freelist # {}
  PROVE  kalloc \in freelist
  BY DEF kalloc

\* A process that is in no call has built nothing.
LEMMA NoJobOK ==
  /\ NoJob \in Job /\ NoJob.new = NoSpace /\ NoJob.mem = NoPage /\ NoJob.pc = "user"
  /\ NoJob.call = "none" /\ NoJob.v = 0 /\ NoJob.oldsz = 0 /\ CallPages(NoJob) = {}
<1>1. NoJob \in Job
  BY SpaceNone, MemoryAssumption, SMTT(30) DEF NoJob, Job, MaybePage, JobPlaces
<1>2. /\ NoJob.new = NoSpace /\ NoJob.mem = NoPage /\ NoJob.pc = "user"
      /\ NoJob.call = "none" /\ NoJob.v = 0 /\ NoJob.oldsz = 0
  BY DEF NoJob
<1>3. CallPages(NoJob) = {}
  BY <1>2, SpaceNone DEF CallPages
<1>4. QED
  BY <1>1, <1>2, <1>3

\* A process that is in no call after a step.
LEMMA Idle ==
  ASSUME NEW p \in Procs, MemoryTypes', job'[p] = NoJob, SpaceOK(space'[p]),
         kstack'[p] \notin PagesOf(space'[p]),
         StateOK(state'[p], kstack'[p], space'[p], cr3'[p], NoJob), sz'[p] <= KERNBASE,
         state'[p] = "RUN" => \/ Mapped(space'[p]) = 0..PGROUNDUP(sz'[p]) - 1
                              \/ Mapped(space'[p]) = {}
  PROVE  TidyProc(p)' /\ Owns'[p] = PagesOf(space'[p]) \cup ({kstack'[p]} \ {NoPage})
<1> DEFINE ks == kstack'[p]
           s == space'[p]
<1>1. CallOK(NoJob)
  BY NoJobOK DEF CallOK
<1>2. SizesOK(state'[p], sz'[p], s, NoJob)
  BY NoJobOK DEF SizesOK
<1>3. NoPage \notin PagesOf(s)
  BY DEF PagesOf
<1>4. Apart(ks, s, NoJob)
  BY <1>3, NoJobOK, SpaceNone DEF Apart
<1>5. Owned(ks, s, NoJob) = PagesOf(s) \cup ({ks} \ {NoPage})
  BY <1>3, NoJobOK, SpaceNone DEF Owned
<1>6. SpaceOK(NoJob.new)
  BY NoJobOK, SpaceNone
<1>7. TidyProc(p)'
  BY <1>1, <1>2, <1>4, <1>6 DEF Tidy, TidyProc
<1>8. QED
  BY <1>5, <1>7 DEF Owns

\* A step of a call that leaves the space of the process alone.
LEMMA JobStep ==
  ASSUME MemInv, NEW p \in Procs, state[p] = "RUN", job' \in [Procs -> Job],
         \A q \in Procs \ {p} : job'[q] = job[q],
         UNCHANGED <<state, kstack, sz, space, cr3, panic>>,
         SpaceOK(job'[p].new), CallOK(job'[p]), SizesOK("RUN", sz[p], space[p], job'[p]),
         job'[p].mem \notin PagesOf(job'[p].new), freelist' \subseteq Page,
         CallPages(job'[p]) \cap freelist' = {},
         CallPages(job'[p]) \cup freelist' = CallPages(job[p]) \cup freelist,
         job'[p].call = "fork" => job[p].call = "fork" /\ job'[p].child = job[p].child
  PROVE  MemInv'
<1> DEFINE ks == kstack[p]
           s == space[p]
           j == job'[p]
<1>1. StateOK("RUN", ks, s, cr3[p], j)
  BY Mine DEF StateOK
<1>2. NoPage \notin PagesOf(s) /\ NoPage \notin PagesOf(j.new)
  BY DEF PagesOf
<1>3. /\ Owns[p] = PagesOf(s) \cup CallPages(job[p]) \cup ({ks} \ {NoPage})
      /\ PagesOf(s) \cap CallPages(job[p]) = {}
      /\ ks \notin PagesOf(s) \cup CallPages(job[p]) /\ NoPage \notin Page
      /\ Owns[p] \cap freelist = {} /\ Owns[p] \subseteq Page
  BY Holding
<1>4. /\ PagesOf(s) \cap CallPages(j) = {} /\ ks \notin PagesOf(s) \cup CallPages(j)
  BY <1>2, <1>3, SMTT(30) DEF CallPages
<1>5. Apart(ks, s, j)
  BY <1>2, <1>4 DEF Apart, CallPages
<1>6. TidyProc(p)'
  BY <1>1, <1>5, Mine DEF Tidy, TidyProc
<1>7. Owns'[p] = PagesOf(s) \cup CallPages(j) \cup ({ks} \ {NoPage})
  BY <1>2 DEF Owns, Owned, CallPages
<1>8. Owns'[p] \cap freelist' = {} /\ Owns'[p] \cup freelist' = Owns[p] \cup freelist
  BY <1>3, <1>7, SMTT(30)
<1>9. MemoryTypes' /\ panic' = "none" /\ \A q \in Procs \ {p} : Keeps(q)
  BY DEF MemInv, MemoryTypes, Keeps
<1>10. QED
  BY <1>6, <1>8, <1>9, OwnStep

\* A call ends, and gives back what it was building.
LEMMA ReturnStep ==
  ASSUME MemInv, NEW p \in Procs, job[p].pc # "user", job[p].call = "exec", Return(p),
         UNCHANGED <<state, kstack, sz, space, cr3, panic>>,
         freelist' = freelist \cup CallPages(job[p])
  PROVE  MemInv'
<1>1. state[p] = "RUN"
  BY Mine DEF StateOK
<1>2. job' = [job EXCEPT ![p] = NoJob]
  BY DEF Return
<1>3. job' \in [Procs -> Job] /\ job'[p] = NoJob /\ \A q \in Procs \ {p} : job'[q] = job[q]
  BY <1>2, NoJobOK DEF MemInv, MemoryTypes
<1>4. SpaceOK(NoJob.new) /\ CallOK(NoJob)
  BY NoJobOK, SpaceNone DEF CallOK
<1>5. SizesOK("RUN", sz[p], space[p], NoJob)
  BY <1>1, Mine, NoJobOK DEF SizesOK
<1>6. NoJob.mem \notin PagesOf(NoJob.new)
  BY NoJobOK, SpaceNone
<1>7. CallPages(job[p]) \subseteq Page /\ freelist \subseteq Page
  BY Holding
<1>8. QED
  BY <1>1, <1>3, <1>4, <1>5, <1>6, <1>7, JobStep, NoJobOK

\* The child of a fork() that is not finished.
LEMMA Child ==
  ASSUME MemInv, NEW p \in Procs, job[p].call = "fork"
  PROVE  /\ job[p].child \in Procs \ {p} /\ state[job[p].child] = "EMBRYO"
         /\ job[job[p].child] = NoJob /\ space[job[p].child] = NoSpace
         /\ cr3[job[p].child] = NoPage /\ kstack[job[p].child] \in Page /\ state[p] = "RUN"
         /\ Owns[job[p].child] = {kstack[job[p].child]}
<1> DEFINE q == job[p].child
<1>1. q \in Procs /\ state[q] = "EMBRYO"
  BY DEF MemInv, MemoryTypes, Job, ChildInv
<1>2. state[p] = "RUN"
  BY Mine, NoJobOK DEF StateOK, CallOK
<1> HIDE DEF q
<1>3. StateOK(state[q], kstack[q], space[q], cr3[q], job[q]) /\ CallOK(job[q])
      /\ kstack[q] \in MaybePage
  BY <1>1, Mine
<1>4. /\ job[q] = NoJob /\ space[q] = NoSpace /\ cr3[q] = NoPage /\ kstack[q] # NoPage
  BY <1>1, <1>3 DEF StateOK, CallOK
<1>5. Owns[q] = PagesOf(NoSpace) \cup CallPages(NoJob) \cup ({kstack[q]} \ {NoPage})
  BY <1>1, <1>4, Holding
<1>6. Owns[q] = {kstack[q]}
  BY <1>4, <1>5, NoJobOK, SpaceNone
<1>7. QED
  BY <1>1, <1>2, <1>3, <1>4, <1>6 DEF q, MaybePage

\* fork() gives up.
LEMMA ForkFails ==
  ASSUME MemInv, NEW p \in Procs, job[p].call = "fork", Bad(p, CallPages(job[p])),
         UNCHANGED <<sz, space, cr3, panic>>, NEW q \in Procs, q = job[p].child
  PROVE  MemInv'
<1> DEFINE ks == kstack[p]
           s == space[p]
<1>1. /\ q \in Procs \ {p} /\ state[q] = "EMBRYO" /\ job[q] = NoJob /\ space[q] = NoSpace
      /\ cr3[q] = NoPage /\ kstack[q] \in Page /\ state[p] = "RUN" /\ Owns[q] = {kstack[q]}
  BY Child
<1>2. /\ freelist' = freelist \cup CallPages(job[p]) \cup {kstack[q]}
      /\ kstack' = [kstack EXCEPT ![q] = NoPage]
      /\ state' = [state EXCEPT ![q] = "UNUSED"]
      /\ job' = [job EXCEPT ![p] = NoJob]
  BY DEF Bad, Return
<1>3. MemoryTypes' /\ panic' = "none"
  BY <1>1, <1>2, NoJobOK DEF MemInv, MemoryTypes, States, MaybePage
<1>4. \A r \in Procs \ {p, q} : Keeps(r)
  BY <1>2 DEF MemInv, MemoryTypes, Keeps
<1>5. /\ job'[p] = NoJob /\ kstack'[p] = ks /\ space'[p] = s /\ state'[p] = "RUN"
      /\ sz'[p] = sz[p] /\ cr3'[p] = cr3[p]
  BY <1>1, <1>2 DEF MemInv, MemoryTypes
<1>6. /\ job'[q] = NoJob /\ kstack'[q] = NoPage /\ space'[q] = NoSpace /\ state'[q] = "UNUSED"
      /\ sz'[q] = sz[q] /\ cr3'[q] = NoPage
  BY <1>1, <1>2 DEF MemInv, MemoryTypes
<1>7. TidyProc(p)' /\ Owns'[p] = PagesOf(s) \cup ({ks} \ {NoPage})
  <2>1. ks \notin PagesOf(s) /\ sz[p] <= KERNBASE /\ SpaceOK(s)
    BY Holding, Mine DEF SizesOK
  <2>2. Mapped(s) = 0..PGROUNDUP(sz[p]) - 1 \/ Mapped(s) = {}
    BY <1>1, Mine DEF SizesOK
  <2>3. StateOK("RUN", ks, s, cr3[p], NoJob)
    BY <1>1, Mine DEF StateOK
  <2>4. QED
    BY <1>3, <1>5, <2>1, <2>2, <2>3, Idle
<1>8. TidyProc(q)' /\ Owns'[q] = {}
  <2>1. NoPage \notin PagesOf(NoSpace) /\ SpaceOK(NoSpace) /\ PagesOf(NoSpace) = {}
    BY SpaceNone
  <2>2. StateOK("UNUSED", NoPage, NoSpace, NoPage, NoJob)
    BY NoJobOK DEF StateOK
  <2>3. sz[q] <= KERNBASE
    BY <1>1, Mine DEF SizesOK
  <2>4. TidyProc(q)' /\ Owns'[q] = PagesOf(NoSpace) \cup ({NoPage} \ {NoPage})
    BY <1>1, <1>3, <1>6, <2>1, <2>2, <2>3, Idle
  <2>5. QED
    BY <2>1, <2>4
<1>9. ChildInv'
  <2>1. \A r \in Procs : job'[r].call = "fork" => r # p /\ job'[r] = job[r] /\ job[r].call = "fork"
    BY <1>2, NoJobOK DEF MemInv, MemoryTypes
  <2>2. \A r \in Procs : r # p /\ job[r].call = "fork" => job[r].child # q /\ job[r].child \in Procs
    BY DEF MemInv, MemoryTypes, ChildInv, Job
  <2>3. \A r \in Procs \ {q} : state'[r] = state[r]
    BY <1>2 DEF MemInv, MemoryTypes
  <2>4. \A r \in Procs : job[r].call = "fork" => state[job[r].child] = "EMBRYO"
    BY DEF MemInv, ChildInv
  <2>5. \A r \in Procs : job'[r].call = "fork" => state'[job'[r].child] = "EMBRYO"
    BY <2>1, <2>2, <2>3, <2>4, SMTT(30)
  <2>6. \A r, t \in Procs : job'[r].call = "fork" /\ job'[t].call = "fork"
                              /\ job'[r].child = job'[t].child => r = t
    BY <2>1, SMTT(30) DEF MemInv, ChildInv
  <2>7. QED
    BY <2>5, <2>6 DEF ChildInv
<1>10. /\ Owns[p] = PagesOf(s) \cup CallPages(job[p]) \cup ({ks} \ {NoPage})
       /\ PagesOf(s) \cap CallPages(job[p]) = {}
       /\ ks \notin PagesOf(s) \cup CallPages(job[p])
       /\ Owns[p] \cap freelist = {} /\ Owns[p] \subseteq Page /\ freelist \subseteq Page
  BY Holding
<1>11. Owns[p] \cap Owns[q] = {}
  BY <1>1 DEF MemInv, Divides
<1>12. /\ freelist' \subseteq Page /\ Owns'[p] \cap freelist' = {}
       /\ Owns'[p] \cup Owns'[q] \cup freelist' = Owns[p] \cup Owns[q] \cup freelist
  BY <1>1, <1>2, <1>7, <1>8, <1>10, <1>11, SMTT(30)
<1>13. Owns'[q] \cap freelist' = {} /\ Owns'[p] \cap Owns'[q] = {}
  BY <1>8
<1>14. p # q /\ q \in Procs /\ TidyProc(p)' /\ TidyProc(q)'
  BY <1>1, <1>7, <1>8
<1>15. QED
  BY <1>3, <1>4, <1>9, <1>12, <1>13, <1>14, PairStep

\* exec() and fork() give up, and give back what they were building.
LEMMA BadStep ==
  ASSUME MemInv, NEW p \in Procs, job[p].pc # "user", job[p].call \in {"exec", "fork"},
         Bad(p, CallPages(job[p])), UNCHANGED <<sz, space, cr3, panic>>
  PROVE  MemInv'
<1>1. CASE job[p].call = "exec"
  <2>1. /\ freelist' = freelist \cup CallPages(job[p])
        /\ Return(p) /\ UNCHANGED <<state, kstack>>
    BY <1>1 DEF Bad
  <2>2. QED
    BY <1>1, <2>1, ReturnStep
<1>2. CASE job[p].call = "fork"
  BY <1>2, Child, ForkFails, SMTT(30)
<1>3. QED
  BY <1>1, <1>2

\* allocuvm() fails: sbrk() unmaps what it had mapped, and exec() gives up.
LEMMA FailStep ==
  ASSUME MemInv, NEW p \in Procs, job[p].pc \in {"alloc", "map"}, AllocFails(p),
         UNCHANGED <<state, kstack, sz, cr3, panic>>
  PROVE  MemInv'
<1> DEFINE ks == kstack[p]
           s == space[p]
           j == job[p]
           mem == {j.mem} \ {NoPage}
<1>1. mem = IF j.mem = NoPage THEN {} ELSE {j.mem}
  OBVIOUS
<1>2. state[p] = "RUN" /\ j.call \in {"sbrk", "exec"}
  BY Mine DEF StateOK, CallOK
<1>3. CASE j.call = "exec"
  <2>1. j.new.dir # NoPage
    BY <1>3, Mine DEF CallOK
  <2>2. freevm(j.new) = PagesOf(j.new)
    BY <2>1, Mine, SpaceFreed
  <2>3. freelist' = freelist \cup CallPages(j) /\ Return(p) /\ UNCHANGED space
    BY <1>1, <1>3, <2>2 DEF AllocFails, Target, CallPages
  <2>4. QED
    BY <1>3, <2>3, ReturnStep
<1>4. CASE j.call = "sbrk"
  <2> DEFINE vs == Dealloc(s, j.newsz, j.oldsz)
             t == Unmap(s, vs)
  <2>1. /\ freelist' = freelist \cup PagesAt(s, vs) \cup mem
        /\ space' = [space EXCEPT ![p] = t] /\ job' = [job EXCEPT ![p] = NoJob]
    BY <1>1, <1>4 DEF AllocFails, Target, Return
  <2>2. vs \in SUBSET Mapped(s)
    BY DEF Dealloc
  <2>3. /\ Mapped(s) = 0..j.v - 1 /\ j.v <= PGROUNDUP(j.newsz) /\ j.oldsz = sz[p]
        /\ PGROUNDUP(j.oldsz) <= j.v /\ j.v \in Nat /\ j.newsz \in Nat /\ j.oldsz \in Nat
        /\ sz[p] <= KERNBASE
    BY <1>4, Mine DEF SizesOK, Job
  <2>4. Mapped(s) \ vs = 0..PGROUNDUP(sz[p]) - 1
    <3> DEFINE n == PGROUNDUP(j.newsz)
               o == PGROUNDUP(j.oldsz)
    <3>1. n \in Nat /\ \A v \in Nat : v * PGSIZE < j.newsz <=> v < n
      BY <2>3, RoundUp
    <3>2. o \in Nat
      BY <2>3, RoundNat
    <3>3. \A v \in Mapped(s) : v \in vs <=> v >= o /\ v * PGSIZE < j.newsz
      BY DEF Dealloc
    <3>4. Mapped(s) = 0..j.v - 1 /\ j.v <= n /\ o <= j.v /\ j.v \in Nat
      BY <2>3
    <3> HIDE DEF n, o, vs
    <3>5. \A v \in 0..j.v - 1 : v \in vs <=> v >= o
      BY <3>1, <3>2, <3>3, <3>4, SMTT(30)
    <3>6. Mapped(s) \ vs = 0..o - 1
      BY <3>2, <3>4, <3>5, SMTT(30)
    <3>7. QED
      BY <2>3, <3>6 DEF o
  <2>5. s \in Space /\ SpaceOK(s)
    BY Mine
  <2> HIDE DEF vs, t
  <2>6. /\ t \in Space /\ SpaceOK(t) /\ t.dir = s.dir /\ Mapped(t) = Mapped(s) \ vs
        /\ PagesAt(s, vs) \subseteq PagesOf(s) /\ PagesOf(t) = PagesOf(s) \ PagesAt(s, vs)
    BY <2>2, <2>5, SpaceUnmap DEF t
  <2>7. /\ Owns[p] = PagesOf(s) \cup CallPages(j) \cup ({ks} \ {NoPage})
        /\ PagesOf(s) \cap CallPages(j) = {} /\ ks \notin PagesOf(s) \cup CallPages(j)
        /\ Owns[p] \cap freelist = {} /\ Owns[p] \subseteq Page /\ freelist \subseteq Page
    BY Holding
  <2>8. StateOK("RUN", ks, t, cr3[p], NoJob)
    BY <1>2, <2>6, Mine, NoJobOK, SMTT(30) DEF StateOK
  <2>9. MemoryTypes' /\ panic' = "none" /\ \A q \in Procs \ {p} : Keeps(q)
    BY <2>1, <2>6, NoJobOK DEF MemInv, MemoryTypes, Keeps
  <2>10. /\ state'[p] = "RUN" /\ kstack'[p] = ks /\ sz'[p] = sz[p] /\ space'[p] = t
         /\ cr3'[p] = cr3[p] /\ job'[p] = NoJob
    BY <1>2, <2>1 DEF MemInv, MemoryTypes
  <2>11. TidyProc(p)' /\ Owns'[p] = PagesOf(t) \cup ({ks} \ {NoPage})
    BY <2>3, <2>4, <2>6, <2>7, <2>8, <2>9, <2>10, Idle
  <2>12. CallPages(j) = mem
    BY <1>4, Mine, SpaceNone DEF CallOK, CallPages
  <2>13. /\ freelist' \subseteq Page /\ Owns'[p] \cap freelist' = {}
         /\ Owns'[p] \cup freelist' = Owns[p] \cup freelist
    BY <2>1, <2>6, <2>7, <2>11, <2>12, SMTT(30)
  <2>14. QED
    BY <1>2, <2>9, <2>10, <2>11, <2>13, NoJobOK, OwnStep
<1>5. QED
  BY <1>2, <1>3, <1>4

-----------------------------------------------------------------------------
(***************************************************************************)
(* The steps of sbrk(), and those that exec() shares with it, keep the invariant. *)
(***************************************************************************)

\* A step that changes nothing of the memory.
LEMMA MemoryStutter ==
  ASSUME MemInv, UNCHANGED <<freelist, state, kstack, sz, space, cr3, job, panic>>
  PROVE  MemInv'
<1>1. Owns' = Owns
  BY DEF Owns
<1>2. \A p \in Procs : TidyProc(p)'
  BY DEF MemInv, TidyProc
<1>3. MemoryTypes' /\ ChildInv'
  BY DEF MemInv, MemoryTypes, ChildInv
<1>4. Divides(Owns', freelist')
  BY <1>1 DEF MemInv
<1>5. QED
  BY <1>2, <1>3, <1>4 DEF MemInv

\* A process that runs user code has the pages below its size.
LEMMA User ==
  ASSUME MemInv, NEW p \in Procs, InUser(p)
  PROVE  /\ state[p] = "RUN" /\ job[p] = NoJob /\ panic = "none"
         /\ Mapped(space[p]) = 0..PGROUNDUP(sz[p]) - 1 /\ sz[p] <= KERNBASE
<1>1. state[p] = "RUN" /\ job[p].pc = "user" /\ panic = "none" /\ Mapped(space[p]) # {}
  BY DEF InUser, At
<1>2. job[p] = NoJob
  BY <1>1, Mine DEF CallOK
<1>3. QED
  BY <1>1, <1>2, Mine, NoJobOK DEF SizesOK

\* sbrk() of a positive number starts to allocate.
LEMMA GrowStep ==
  ASSUME MemInv, NEW p \in Procs, InUser(p), NEW new \in Nat, new < KERNBASE, new >= sz[p],
         job' = [job EXCEPT ![p] = [NoJob EXCEPT !.pc = "alloc", !.call = "sbrk",
                             !.v = PGROUNDUP(sz[p]), !.oldsz = sz[p], !.newsz = new]],
         UNCHANGED <<freelist, state, kstack, sz, space, cr3, panic>>
  PROVE  MemInv'
<1> DEFINE z == sz[p]
           j == [NoJob EXCEPT !.pc = "alloc", !.call = "sbrk", !.v = PGROUNDUP(z),
                              !.oldsz = z, !.newsz = new]
<1>1. /\ state[p] = "RUN" /\ job[p] = NoJob /\ Mapped(space[p]) = 0..PGROUNDUP(z) - 1
      /\ z <= KERNBASE /\ z \in Nat
  BY User, Mine
<1>2. PGROUNDUP(z) \in Nat /\ PGROUNDUP(z) <= PGROUNDUP(new)
  BY <1>1, RoundNat, RoundOrder
<1>3. /\ j \in Job /\ j.pc = "alloc" /\ j.call = "sbrk" /\ j.v = PGROUNDUP(z) /\ j.oldsz = z
      /\ j.newsz = new /\ j.mem = NoPage /\ j.new = NoSpace
  <2>1. j.new = NoSpace /\ j.mem = NoPage
    BY DEF NoJob
  <2>2. j \in Job
    BY <1>1, <1>2, NoJobOK DEF Job, JobPlaces
  <2>3. QED
    BY <2>1, <2>2 DEF NoJob
<1> HIDE DEF j
<1>4. job' \in [Procs -> Job] /\ job'[p] = j /\ \A q \in Procs \ {p} : job'[q] = job[q]
  BY <1>3 DEF MemInv, MemoryTypes, j
<1>5. CallOK(j)
  BY <1>3 DEF CallOK
<1>6. SizesOK("RUN", z, space[p], j)
  BY <1>1, <1>2, <1>3, SpaceEnd, SMTT(30) DEF SizesOK
<1>7. CallPages(j) = {} /\ CallPages(job[p]) = {} /\ SpaceOK(j.new) /\ j.mem \notin PagesOf(j.new)
  BY <1>1, <1>3, NoJobOK, SpaceNone DEF CallPages
<1>8. freelist \subseteq Page
  BY Holding
<1>9. QED
  BY <1>1, <1>3, <1>4, <1>5, <1>6, <1>7, <1>8, JobStep

\* sbrk() of a negative number unmaps the pages above the new size.
LEMMA ShrinkStep ==
  ASSUME MemInv, NEW p \in Procs, InUser(p), NEW new \in Nat, NEW gone,
         gone = IF new >= sz[p] THEN {} ELSE Dealloc(space[p], sz[p], new),
         freelist' = freelist \cup PagesAt(space[p], gone),
         space' = [space EXCEPT ![p] = Unmap(@, gone)],
         sz' = [sz EXCEPT ![p] = IF new = 0 \/ new >= @ THEN @ ELSE new],
         UNCHANGED <<job, state, kstack, cr3, panic>>
  PROVE  MemInv'
<1> DEFINE ks == kstack[p]
           s == space[p]
           z == sz[p]
           z2 == IF new = 0 \/ new >= z THEN z ELSE new
           t == Unmap(s, gone)
<1>1. /\ state[p] = "RUN" /\ job[p] = NoJob /\ Mapped(s) = 0..PGROUNDUP(z) - 1
      /\ z <= KERNBASE /\ z \in Nat /\ s \in Space /\ SpaceOK(s) /\ panic = "none"
  BY User, Mine
<1>2. gone \in SUBSET Mapped(s)
  BY DEF Dealloc
<1>3. z2 \in Nat /\ z2 <= KERNBASE
  BY <1>1, SpaceEnd, SMTT(30)
<1>4. Mapped(s) \ gone = 0..PGROUNDUP(z2) - 1 \/ Mapped(s) \ gone = {}
  <2>1. CASE new >= z
    <3>1. gone = {} /\ z2 = z
      BY <2>1
    <3>2. QED
      BY <1>1, <3>1
  <2>2. CASE new < z
    <3> DEFINE n == PGROUNDUP(z)
               o == PGROUNDUP(new)
    <3>1. n \in Nat /\ o \in Nat /\ o <= n
      BY <1>1, <2>2, RoundNat, RoundOrder, SMTT(30)
    <3>2. \A v \in Nat : v * PGSIZE < z <=> v < n
      BY <1>1, RoundUp
    <3>3. \A v \in Mapped(s) : v \in gone <=> v >= o /\ v * PGSIZE < z
      BY <1>1, <2>2, SMTT(30) DEF Dealloc
    <3>4. Mapped(s) = 0..n - 1
      BY <1>1
    <3>5. new = 0 => o = 0
      BY SpaceEnd
    <3> HIDE DEF n, o
    <3>6. \A v \in 0..n - 1 : v \in gone <=> v >= o
      BY <3>1, <3>2, <3>3, <3>4, SMTT(30)
    <3>7. Mapped(s) \ gone = 0..o - 1
      BY <3>1, <3>4, <3>6, SMTT(30)
    <3>8. CASE new = 0
      BY <3>5, <3>7, <3>8, SMTT(30)
    <3>9. CASE new # 0
      <4>1. z2 = new
        BY <2>2, <3>9, <1>1, SMTT(30)
      <4>2. QED
        BY <3>7, <4>1 DEF o
    <3>10. QED
      BY <3>8, <3>9
  <2>3. QED
    BY <1>1, <2>1, <2>2, SMTT(30)
<1> HIDE DEF z2, t
<1>5. /\ t \in Space /\ SpaceOK(t) /\ t.dir = s.dir /\ Mapped(t) = Mapped(s) \ gone
      /\ PagesAt(s, gone) \subseteq PagesOf(s) /\ PagesOf(t) = PagesOf(s) \ PagesAt(s, gone)
  <2>1. s \in Space /\ SpaceOK(s) /\ gone \in SUBSET Mapped(s) /\ t = Unmap(s, gone)
    BY <1>1, <1>2 DEF t
  <2> HIDE DEF s
  <2>2. QED
    BY ONLY <2>1, SpaceUnmap, SMTT(30)
<1>6. /\ Owns[p] = PagesOf(s) \cup CallPages(NoJob) \cup ({ks} \ {NoPage})
      /\ ks \notin PagesOf(s) /\ Owns[p] \cap freelist = {} /\ Owns[p] \subseteq Page
      /\ freelist \subseteq Page
  BY <1>1, Holding
<1>7. StateOK("RUN", ks, t, cr3[p], NoJob)
  BY <1>1, <1>5, Mine, NoJobOK DEF StateOK
<1>8. space' = [space EXCEPT ![p] = t] /\ sz' = [sz EXCEPT ![p] = z2]
  BY DEF t, z2, MemInv, MemoryTypes
<1>9. MemoryTypes' /\ panic' = "none" /\ \A q \in Procs \ {p} : Keeps(q)
  BY <1>1, <1>3, <1>5, <1>8, SMTT(30) DEF MemInv, MemoryTypes, Keeps
<1>10. /\ state'[p] = "RUN" /\ kstack'[p] = ks /\ sz'[p] = z2 /\ space'[p] = t
       /\ cr3'[p] = cr3[p] /\ job'[p] = NoJob
  BY <1>1, <1>8 DEF MemInv, MemoryTypes
<1>11. TidyProc(p)' /\ Owns'[p] = PagesOf(t) \cup ({ks} \ {NoPage})
  BY <1>3, <1>4, <1>5, <1>6, <1>7, <1>9, <1>10, Idle
<1>12. /\ freelist' \subseteq Page /\ Owns'[p] \cap freelist' = {}
       /\ Owns'[p] \cup freelist' = Owns[p] \cup freelist
  BY <1>5, <1>6, <1>11, NoJobOK, SMTT(30)
<1>13. QED
  BY <1>1, <1>9, <1>10, <1>11, <1>12, NoJobOK, OwnStep

\* growproc(), in all of its cases.
LEMMA growprocStep ==
  ASSUME MemInv, NEW p \in Procs, NEW n \in Increments, growproc(p, n)
  PROVE  MemInv'
<1> DEFINE new == (sz[p] + n) % UintMod
           gone == IF new >= sz[p] THEN {} ELSE Dealloc(space[p], sz[p], new)
<1>1. new \in Nat
  <2>1. UintMod \in Nat /\ UintMod > 0 /\ sz[p] + n \in Int
    BY Mine, MemoryAssumption, SpaceEnd, SMTT(30)
  <2>2. new \in 0..UintMod - 1
    BY <2>1, Division
  <2>3. QED
    BY <2>1, <2>2, SMTT(30)
<1>2. InUser(p) /\ UNCHANGED <<state, kstack, cr3, panic>>
  BY DEF growproc
<1>3. CASE /\ n > 0
           /\ IF new >= KERNBASE \/ new < sz[p] THEN UNCHANGED job
              ELSE job' = [job EXCEPT ![p] = [NoJob EXCEPT !.pc = "alloc", !.call = "sbrk",
                             !.v = PGROUNDUP(sz[p]), !.oldsz = sz[p], !.newsz = new]]
           /\ UNCHANGED <<freelist, sz, space>>
  <2> HIDE DEF new
  <2>1. CASE new >= KERNBASE \/ new < sz[p]
    BY <1>2, <1>3, <2>1, MemoryStutter
  <2>2. CASE ~(new >= KERNBASE \/ new < sz[p])
    <3>1. new < KERNBASE /\ new >= sz[p]
      BY <1>1, <2>2, SpaceEnd, Mine, SMTT(30)
    <3>2. QED
      BY <1>1, <1>2, <1>3, <2>2, <3>1, GrowStep
  <2>3. QED
    BY <2>1, <2>2
<1>4. CASE /\ n < 0
           /\ freelist' = freelist \cup PagesAt(space[p], gone)
           /\ space' = [space EXCEPT ![p] = Unmap(@, gone)]
           /\ sz' = [sz EXCEPT ![p] = IF new = 0 \/ new >= @ THEN @ ELSE new]
           /\ UNCHANGED job
  <2> HIDE DEF new
  <2>1. gone = IF new >= sz[p] THEN {} ELSE Dealloc(space[p], sz[p], new)
    OBVIOUS
  <2> HIDE DEF gone
  <2>2. QED
    BY <1>1, <1>2, <1>4, <2>1, ShrinkStep
<1>5. QED
  BY <1>3, <1>4 DEF growproc

\* allocuvm() gets a page.
LEMMA AllocPageStep ==
  ASSUME MemInv, NEW p \in Procs, AllocPage(p)
  PROVE  MemInv'
<1> DEFINE j == job[p]
           g == kalloc
<1>1. /\ j.pc = "alloc" /\ j.v * PGSIZE < j.newsz /\ state[p] = "RUN"
      /\ UNCHANGED <<state, kstack, sz, cr3, panic>>
  BY Mine DEF AllocPage, At, StateOK
<1>2. CASE freelist = {}
  BY <1>1, <1>2, FailStep DEF AllocPage
<1>3. CASE freelist # {}
  <2>1. /\ freelist' = freelist \ {g} /\ UNCHANGED space
        /\ job' = [job EXCEPT ![p].mem = g, ![p].pc = "map"]
    BY <1>3 DEF AllocPage
  <2>2. g \in freelist
    BY <1>3, Kalloc
  <2> HIDE DEF g
  <2>3. /\ Owns[p] \cap freelist = {} /\ CallPages(j) \subseteq Owns[p]
        /\ freelist \subseteq Page /\ NoPage \notin Page
    BY Holding
  <2>4. /\ job' \in [Procs -> Job] /\ \A q \in Procs \ {p} : job'[q] = job[q]
    <3> DEFINE r == [j EXCEPT !.mem = g, !.pc = "map"]
    <3>1. job' = [job EXCEPT ![p] = r]
      BY <2>1 DEF MemInv, MemoryTypes
    <3>2. j \in Job /\ g \in Page
      BY <2>2, <2>3, Mine
    <3>3. r \in Job
      BY <3>2 DEF Job, MaybePage, JobPlaces
    <3> HIDE DEF r
    <3>4. QED
      BY <3>1, <3>3 DEF MemInv, MemoryTypes
  <2>5. /\ job'[p].mem = g /\ job'[p].pc = "map" /\ job'[p].new = j.new
        /\ job'[p].call = j.call /\ job'[p].v = j.v /\ job'[p].oldsz = j.oldsz
        /\ job'[p].newsz = j.newsz /\ job'[p].child = j.child
    BY <2>1, SMTT(30) DEF MemInv, MemoryTypes, Job
  <2>6. CallOK(job'[p])
    BY <1>1, <2>2, <2>3, <2>5, Mine DEF CallOK
  <2>7. SizesOK("RUN", sz[p], space[p], job'[p])
    <3>1. j.v \in Nat /\ j.newsz \in Nat
      BY Mine DEF Job
    <3>2. j.v < PGROUNDUP(j.newsz)
      BY <1>1, <3>1, RoundUp
    <3>3. SizesOK("RUN", sz[p], space[p], j)
      BY <1>1, Mine
    <3>4. QED
      BY <1>1, <2>5, <3>2, <3>3 DEF SizesOK
  <2>8. j.mem = NoPage
    BY <1>1, Mine DEF CallOK
  <2>9. CallPages(job'[p]) = CallPages(j) \cup {g} /\ g \notin PagesOf(j.new)
    BY <2>2, <2>3, <2>5, <2>8 DEF CallPages
  <2>10. /\ freelist' \subseteq Page /\ CallPages(job'[p]) \cap freelist' = {}
         /\ CallPages(job'[p]) \cup freelist' = CallPages(j) \cup freelist
    BY <2>1, <2>2, <2>3, <2>9
  <2>11. SpaceOK(j.new)
    BY Mine
  <2>12. QED
    BY <1>1, <2>1, <2>4, <2>5, <2>6, <2>7, <2>9, <2>10, <2>11, JobStep, SMTT(30)
<1>4. QED
  BY <1>2, <1>3

\* The page that mappages() is about to map, and where.
LEMMA MapFacts ==
  ASSUME MemInv, NEW p \in Procs, job[p].pc = "map"
  PROVE  /\ job[p].v \in Vpages /\ job[p].v \in Nat /\ job[p].mem \in Page
         /\ Target(p) \in Space /\ SpaceOK(Target(p)) /\ Mapped(Target(p)) = 0..job[p].v - 1
         /\ Target(p).pte[job[p].v] = NoPage /\ job[p].mem \notin PagesOf(Target(p))
         /\ PagesOf(Target(p)) \subseteq Owns[p] /\ job[p].mem \in Owns[p]
<1> DEFINE j == job[p]
           s == Target(p)
<1>1. /\ Mapped(s) = 0..j.v - 1 /\ j.v < PGROUNDUP(j.newsz) /\ j.newsz <= KERNBASE
  BY Mine DEF SizesOK, Target
<1>2. j.v \in Nat /\ j.newsz \in Nat /\ j.mem \in MaybePage
  BY Mine DEF Job
<1>3. j.mem \in Page
  BY <1>2, Mine DEF CallOK, MaybePage
<1>4. j.v \in Vpages
  <2>1. 0..PGROUNDUP(j.newsz) - 1 \subseteq Vpages /\ PGROUNDUP(j.newsz) \in Nat
    BY <1>1, <1>2, SpaceEnd, RoundNat
  <2>2. QED
    BY <1>1, <1>2, <2>1, SMTT(30)
<1>5. s \in Space /\ SpaceOK(s)
  BY Mine DEF Target
<1>6. s.pte[j.v] = NoPage
  <2>1. j.v \notin Mapped(s)
    BY <1>1, <1>2, SMTT(30)
  <2>2. QED
    BY <1>4, <2>1 DEF Mapped
<1>7. j.mem \in CallPages(j)
  BY <1>3, MemoryAssumption DEF CallPages
<1>8. j.mem \notin PagesOf(s) /\ PagesOf(s) \subseteq Owns[p] /\ j.mem \in Owns[p]
  <2>1. /\ Owns[p] = PagesOf(space[p]) \cup CallPages(j) \cup ({kstack[p]} \ {NoPage})
        /\ PagesOf(space[p]) \cap CallPages(j) = {} /\ j.mem \notin PagesOf(j.new)
    BY Holding
  <2>2. QED
    BY <1>7, <2>1 DEF Target, CallPages
<1>9. QED
  BY <1>1, <1>2, <1>3, <1>4, <1>5, <1>6, <1>8, SMTT(30)

\* mappages() in allocuvm().
LEMMA MapPageStep ==
  ASSUME MemInv, NEW p \in Procs, MapPage(p)
  PROVE  MemInv'
<1> DEFINE j == job[p]
           s == Target(p)
           k == PDX(j.v)
           need == s.tab[k] = NoPage
           t == IF need THEN kalloc ELSE s.tab[k]
           m == [s EXCEPT !.tab[k] = t, !.pte[j.v] = j.mem, !.user = @ \cup {j.v}]
           r == [j EXCEPT !.mem = NoPage, !.v = @ + 1, !.pc = "alloc"]
<1>1. j.pc = "map" /\ state[p] = "RUN" /\ UNCHANGED <<state, kstack, sz, cr3>>
  BY Mine DEF MapPage, At, StateOK
<1>2. /\ j.v \in Vpages /\ j.v \in Nat /\ j.mem \in Page /\ s \in Space /\ SpaceOK(s)
      /\ Mapped(s) = 0..j.v - 1 /\ s.pte[j.v] = NoPage /\ j.mem \notin PagesOf(s)
      /\ PagesOf(s) \subseteq Owns[p] /\ j.mem \in Owns[p]
  BY <1>1, MapFacts
<1>3. CASE need /\ freelist = {}
  <2>1. AllocFails(p) /\ UNCHANGED panic
    BY <1>3 DEF MapPage
  <2>2. QED
    BY <1>1, <2>1, FailStep
<1>4. CASE ~(need /\ freelist = {})
  <2>1. /\ freelist' = IF need THEN freelist \ {t} ELSE freelist
        /\ SetTarget(p, m, r) /\ UNCHANGED panic
    BY <1>2, <1>4 DEF MapPage
  <2>2. \/ need /\ t \in freelist /\ freelist' = freelist \ {t}
        \/ ~need /\ t = s.tab[k] /\ freelist' = freelist
    BY <1>4, <2>1, Kalloc
  <2>3. /\ freelist \subseteq Page /\ Owns[p] \cap freelist = {}
        /\ (PagesOf(s) \cup {j.mem}) \cap freelist = {}
    <3>1. freelist \subseteq Page /\ Owns[p] \cap freelist = {}
      BY Holding
    <3> HIDE DEF s, j
    <3>2. QED
      BY <1>2, <3>1
  <2>4. \/ t \in freelist /\ freelist' = freelist \ {t}
        \/ t \in PagesOf(s) /\ freelist' = freelist
    BY <1>2, <2>2, Directory DEF PagesOf
  <2>5. /\ m \in Space /\ SpaceOK(m) /\ m.dir = s.dir /\ Mapped(m) = Mapped(s) \cup {j.v}
        /\ PagesOf(m) = PagesOf(s) \cup {j.mem, t}
    <3>1. /\ t \in Page
          /\ \/ t = s.tab[PDX(j.v)]
             \/ s.tab[PDX(j.v)] = NoPage /\ t # j.mem /\ t \notin PagesOf(s)
      BY <1>2, <2>2, <2>3, <2>4, PageIn
    <3>2. m = MapAt(s, j.v, j.mem, t, {j.v}) /\ {j.v} \in SUBSET {j.v}
      BY DEF MapAt
    <3> HIDE DEF m, s, t, need, k
    <3>3. QED
      BY <1>2, <3>1, <3>2, MapOne, SMTT(30)
  <2> HIDE DEF s, t, r, m, need, k
  <2>6. /\ (Owns[p] \cup {t}) \cap freelist' = {} /\ freelist' \subseteq Page
        /\ (Owns[p] \cup {t}) \cup freelist' = Owns[p] \cup freelist
    BY <1>2, <2>3, <2>4
  <2>7. Mapped(m) = 0..j.v
    BY <1>2, <2>5, SMTT(30)
  <2>8. /\ r \in Job /\ r.mem = NoPage /\ r.v = j.v + 1 /\ r.pc = "alloc" /\ r.new = j.new
        /\ r.call = j.call /\ r.oldsz = j.oldsz /\ r.newsz = j.newsz /\ r.child = j.child
    <3>1. j \in Job /\ j.v + 1 \in Nat
      BY <1>2, Mine, SMTT(30)
    <3>2. r \in Job
      BY <3>1 DEF r, Job, MaybePage, JobPlaces
    <3>3. QED
      BY <3>1, <3>2 DEF r, Job
  <2>9. /\ CallOK(j) /\ SizesOK("RUN", sz[p], space[p], j)
        /\ PGROUNDUP(j.newsz) \in Nat /\ PGROUNDUP(j.oldsz) \in Nat
    BY <1>1, Mine, RoundNat DEF Job
  <2>10. /\ 0..(j.v + 1) - 1 = 0..j.v /\ PGROUNDUP(j.oldsz) <= j.v + 1
        /\ j.v + 1 <= PGROUNDUP(j.newsz) /\ j.newsz <= KERNBASE
    <3>1. PGROUNDUP(j.oldsz) <= j.v /\ j.v < PGROUNDUP(j.newsz) /\ j.newsz <= KERNBASE
      BY <1>1, <2>9 DEF SizesOK
    <3>2. QED
      BY <1>2, <2>9, <3>1, SMTT(30)
  <2>11. CASE j.call = "sbrk"
    <3>1. space' = [space EXCEPT ![p] = m] /\ job' = [job EXCEPT ![p] = r] /\ s = space[p]
      BY <2>1, <2>11 DEF SetTarget, Target, s
    <3>2. MemoryTypes' /\ panic' = "none" /\ \A q \in Procs \ {p} : Keeps(q)
      BY <1>1, <2>1, <2>5, <2>8, <3>1 DEF MemInv, MemoryTypes, Keeps
    <3>3. /\ state'[p] = "RUN" /\ kstack'[p] = kstack[p] /\ sz'[p] = sz[p]
          /\ space'[p] = m /\ cr3'[p] = cr3[p] /\ job'[p] = r
      BY <1>1, <3>1 DEF MemInv, MemoryTypes
    <3>4. CallOK(r)
      BY <2>8, <2>9, <2>11 DEF CallOK
    <3>5. SizesOK("RUN", sz[p], m, r)
      BY <1>1, <2>7, <2>8, <2>9, <2>10, <2>11 DEF SizesOK
    <3>6. StateOK("RUN", kstack[p], m, cr3[p], r)
      BY <1>1, <2>5, <3>1, Mine, SMTT(30) DEF StateOK
    <3>7. PagesOf(j.new) = {} /\ CallPages(j) = {j.mem} /\ CallPages(r) = {} /\ SpaceOK(r.new)
          /\ j.mem # NoPage
      BY <1>2, <2>8, <2>9, <2>11, SpaceNone, MemoryAssumption, SMTT(30) DEF CallOK, CallPages
    <3>8. /\ Owns[p] = PagesOf(s) \cup CallPages(j) \cup ({kstack[p]} \ {NoPage})
          /\ kstack[p] \notin PagesOf(s) \cup CallPages(j) /\ NoPage \notin Page
          /\ Owns[p] \cap freelist = {} /\ Owns[p] \subseteq Page /\ freelist \subseteq Page
      BY <3>1, Holding
    <3>9. kstack[p] \notin PagesOf(m) /\ NoPage \notin PagesOf(m)
      <4>1. kstack[p] # t
        BY <2>3, <2>4, <3>8
      <4>2. QED
        BY <2>5, <3>7, <3>8, <4>1 DEF PagesOf
    <3>10. Apart(kstack[p], m, r)
      BY <2>8, <3>7, <3>9 DEF Apart, CallPages
    <3>11. TidyProc(p)'
      BY <2>5, <3>3, <3>4, <3>5, <3>6, <3>7, <3>10 DEF TidyProc, Tidy
    <3>12. Owns'[p] = PagesOf(m) \cup ({kstack[p]} \ {NoPage})
      BY <2>8, <3>3, <3>7, <3>9, SMTT(30) DEF Owns, Owned, CallPages
    <3>13. Owns'[p] = Owns[p] \cup {t}
      BY <2>5, <3>7, <3>8, <3>12
    <3>14. QED
      BY <1>1, <2>6, <2>8, <2>11, <3>2, <3>3, <3>11, <3>13, OwnStep
  <2>12. CASE j.call = "exec"
    <3> DEFINE r2 == [r EXCEPT !.new = m]
    <3>1. job' = [job EXCEPT ![p] = r2] /\ UNCHANGED space /\ s = j.new
      BY <2>1, <2>12 DEF SetTarget, Target, s
    <3>2. /\ r2 \in Job /\ r2.mem = NoPage /\ r2.v = j.v + 1 /\ r2.pc = "alloc" /\ r2.new = m
          /\ r2.call = j.call /\ r2.oldsz = j.oldsz /\ r2.newsz = j.newsz
      BY <2>5, <2>8 DEF Job
    <3> HIDE DEF r2
    <3>3. job' \in [Procs -> Job] /\ job'[p] = r2 /\ \A q \in Procs \ {p} : job'[q] = job[q]
      BY <3>1, <3>2 DEF MemInv, MemoryTypes
    <3>4. CallOK(r2)
      BY <1>1, <2>5, <2>9, <2>12, <3>1, <3>2 DEF CallOK
    <3>5. SizesOK("RUN", sz[p], space[p], r2)
      BY <1>1, <2>7, <2>9, <2>10, <2>12, <3>2 DEF SizesOK
    <3>6. /\ CallPages(j) = PagesOf(s) \cup {j.mem} /\ CallPages(r2) = PagesOf(m)
          /\ r2.mem \notin PagesOf(r2.new)
      <4>1. j.mem # NoPage
        BY <1>2, MemoryAssumption
      <4>2. NoPage \notin PagesOf(m)
        BY DEF PagesOf
      <4>3. QED
        BY <3>1, <3>2, <4>1, <4>2 DEF CallPages
    <3>7. CallPages(r2) = CallPages(j) \cup {t} /\ CallPages(j) \cap freelist = {}
      BY <2>3, <2>5, <3>6
    <3>8. /\ CallPages(r2) \cap freelist' = {}
          /\ CallPages(r2) \cup freelist' = CallPages(j) \cup freelist
      BY <2>4, <3>6, <3>7
    <3>9. QED
      BY <1>1, <2>1, <2>5, <2>6, <2>12, <3>1, <3>2, <3>3, <3>4, <3>5, <3>6, <3>8, JobStep
  <2>13. QED
    BY <1>1, <2>9, <2>11, <2>12 DEF CallOK
<1>5. QED
  BY <1>3, <1>4

\* allocuvm() is done.
LEMMA AllocDoneStep ==
  ASSUME MemInv, NEW p \in Procs, AllocDone(p)
  PROVE  MemInv'
<1> DEFINE j == job[p]
           s == space[p]
           ks == kstack[p]
<1>1. /\ j.pc = "alloc" /\ j.v * PGSIZE >= j.newsz /\ state[p] = "RUN"
      /\ UNCHANGED <<freelist, state, kstack, space, cr3, panic>>
  BY Mine DEF AllocDone, At, StateOK
<1>2. /\ CallOK(j) /\ SizesOK("RUN", sz[p], s, j) /\ j \in Job
  BY <1>1, Mine
<1>3. j.v = PGROUNDUP(j.newsz) /\ j.newsz \in Nat /\ j.newsz <= KERNBASE
  <2> DEFINE n == PGROUNDUP(j.newsz)
  <2>1. j.v \in Nat /\ j.newsz \in Nat /\ j.v <= n /\ j.newsz <= KERNBASE
    BY <1>1, <1>2 DEF Job, SizesOK
  <2>2. n \in Nat /\ (j.v * PGSIZE < j.newsz <=> j.v < n)
    BY <2>1, RoundUp
  <2>3. j.v * PGSIZE \in Nat
    BY <2>1, MemoryAssumption, SMTT(30)
  <2> HIDE DEF n
  <2>4. j.v = n
    BY <1>1, <2>1, <2>2, <2>3, SMTT(30)
  <2>5. QED
    BY <2>1, <2>4 DEF n
<1>4. CASE j.call = "sbrk"
  <2>1. sz' = [sz EXCEPT ![p] = j.newsz] /\ job' = [job EXCEPT ![p] = NoJob]
    BY <1>4 DEF AllocDone, Return
  <2>2. MemoryTypes' /\ panic' = "none" /\ \A q \in Procs \ {p} : Keeps(q)
    BY <1>1, <1>3, <2>1, NoJobOK DEF MemInv, MemoryTypes, Keeps
  <2>3. /\ state'[p] = "RUN" /\ kstack'[p] = ks /\ sz'[p] = j.newsz /\ space'[p] = s
        /\ cr3'[p] = cr3[p] /\ job'[p] = NoJob
    BY <1>1, <2>1 DEF MemInv, MemoryTypes
  <2>4. Mapped(s) = 0..PGROUNDUP(j.newsz) - 1
    BY <1>1, <1>2, <1>3, <1>4 DEF SizesOK
  <2>5. StateOK("RUN", ks, s, cr3[p], NoJob) /\ SpaceOK(s)
    BY <1>1, Mine DEF StateOK
  <2>6. CallPages(j) = {}
    BY <1>1, <1>2, <1>4, SpaceNone DEF CallOK, CallPages
  <2>7. /\ Owns[p] = PagesOf(s) \cup CallPages(j) \cup ({ks} \ {NoPage})
        /\ ks \notin PagesOf(s) /\ Owns[p] \cap freelist = {} /\ freelist \subseteq Page
    BY Holding
  <2>8. TidyProc(p)' /\ Owns'[p] = PagesOf(s) \cup ({ks} \ {NoPage})
    BY <1>3, <2>2, <2>3, <2>4, <2>5, <2>7, Idle
  <2>9. /\ freelist' \subseteq Page /\ Owns'[p] \cap freelist' = {}
        /\ Owns'[p] \cup freelist' = Owns[p] \cup freelist
    BY <1>1, <2>6, <2>7, <2>8
  <2>10. QED
    BY <1>1, <2>2, <2>3, <2>8, <2>9, NoJobOK, OwnStep
<1>5. CASE j.call = "exec"
  <2> DEFINE r == [j EXCEPT !.oldsz = j.newsz,
                            !.pc = IF j.stack THEN "commit" ELSE "segment"]
  <2>1. job' = [job EXCEPT ![p] = r] /\ UNCHANGED sz
    BY <1>2, <1>5 DEF AllocDone, MemInv, MemoryTypes
  <2>2. r \in Job
    BY <1>2, <1>3 DEF Job, JobPlaces
  <2>3. /\ r.oldsz = j.newsz /\ r.newsz = j.newsz /\ r.pc \in {"commit", "segment"}
        /\ r.call = j.call /\ r.new = j.new /\ r.mem = j.mem
    BY <1>2 DEF Job
  <2> HIDE DEF r
  <2>4. job' \in [Procs -> Job] /\ job'[p] = r /\ \A q \in Procs \ {p} : job'[q] = job[q]
    BY <2>1, <2>2 DEF MemInv, MemoryTypes
  <2>5. CallOK(r)
    BY <1>1, <1>2, <1>5, <2>3 DEF CallOK
  <2>6. SizesOK("RUN", sz[p], s, r)
    BY <1>1, <1>2, <1>3, <1>5, <2>3 DEF SizesOK
  <2>7. CallPages(r) = CallPages(j)
    BY <2>3 DEF CallPages
  <2>8. /\ CallPages(j) \cap freelist = {} /\ freelist \subseteq Page /\ SpaceOK(j.new)
        /\ j.mem \notin PagesOf(j.new)
    BY Holding, Mine
  <2>9. QED
    BY <1>1, <1>5, <2>1, <2>3, <2>4, <2>5, <2>6, <2>7, <2>8, JobStep, SMTT(30)
<1>6. QED
  BY <1>1, <1>2, <1>4, <1>5 DEF CallOK
=============================================================================
