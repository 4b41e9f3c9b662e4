--------------------------- MODULE SpinlockProofs ---------------------------
(***************************************************************************)
(* The safety of the spinlocks (module Spinlock), for every number of CPUs *)
(* and locks.                                                              *)
(***************************************************************************)
EXTENDS Spinlock, FiniteSetTheorems, WellFoundedInduction, TLAPS

USE SMTT(30), ZenonT(60)

\* Inside acquire(), after pushcli(); inside release(), before the store that frees the lock.
Taking(t)  == pc[t] \in {"acq_locked", "acq_cpu", "spin", "own"}
Freeing(t) == pc[t] \in {"rel_locked", "rel_cpu", "clear", "unlock"}

\* A lock is locked exactly while a thread owns it.
LockedOwned == \A l \in Locks : locked[l] <=> \E t \in Threads : Owns(t, l)

\* acquire() is called in increasing order, release() for a lock that is held.
ArgumentsRight ==
  \A t \in Threads : /\ Taking(t) => \A m \in held[t] : m < lk[t]
                     /\ Freeing(t) => lk[t] \in held[t]

\* lk->cpu is the CPU of the thread that holds lk, between the two stores to it.
CpuRight ==
  /\ \A t \in Threads : \A l \in held[t] : ~(pc[t] = "unlock" /\ lk[t] = l) => cpu[l] = t[1]
  /\ \A t \in Threads : pc[t] = "unlock" => cpu[lk[t]] = 0
  /\ \A l \in Locks : cpu[l] # 0 => \E t \in Threads : t[1] = cpu[l] /\ l \in held[t]

\* ncli counts the locks that the running thread holds, and the pushcli() of the acquire()
\* or release() it is in.
Pushed(t) == IF Taking(t) \/ pc[t] = "popcli" THEN 1 ELSE 0
NcliRight == \A t \in Threads : Running(t) => ncli[t[1]] = Cardinality(held[t]) + Pushed(t)

\* Interrupts are enabled outside all locks and handlers, and popcli() will know.
FlagRight ==
  \A c \in CPUs : /\ FL_IF[c] <=> (~intr[c] /\ ncli[c] = 0)
                  /\ ncli[c] # 0 => (intena[c] <=> ~intr[c])

\* The inductive invariant.
SpinInv ==
  /\ TypeOK /\ NoPanic /\ NotInterrupted /\ MutualExclusion /\ LockedOwned
  /\ ArgumentsRight /\ CpuRight /\ NcliRight /\ FlagRight
-----------------------------------------------------------------------------
LEMMA ThreadFacts ==
  /\ \A t \in Threads : t[1] \in CPUs /\ (t[2] = "main" \/ t[2] = "intr")
  /\ \A t, u \in Threads : (t[1] = u[1] /\ t[2] = u[2]) => t = u
  /\ \A c \in CPUs : /\ <<c, "main">> \in Threads /\ <<c, "intr">> \in Threads
                     /\ <<c, "main">>[1] = c /\ <<c, "main">>[2] = "main"
                     /\ <<c, "intr">>[1] = c /\ <<c, "intr">>[2] = "intr"
<1>1. \A t \in Threads : t[1] \in CPUs /\ (t[2] = "main" \/ t[2] = "intr")
  BY DEF Threads
<1>2. \A t, u \in Threads : (t[1] = u[1] /\ t[2] = u[2]) => t = u
  BY DEF Threads
<1>3. \A c \in CPUs : /\ <<c, "main">> \in Threads /\ <<c, "intr">> \in Threads
                      /\ <<c, "main">>[1] = c /\ <<c, "main">>[2] = "main"
                      /\ <<c, "intr">>[1] = c /\ <<c, "intr">>[2] = "intr"
  BY DEF Threads
<1>4. QED
  BY <1>1, <1>2, <1>3

\* One thread runs on a CPU.
LEMMA OneRunning ==
  ASSUME NEW t \in Threads, NEW u \in Threads, t[1] = u[1], Running(t), Running(u)
  PROVE  t = u
<1>1. (t[2] = "intr") <=> (u[2] = "intr")
  BY DEF Running
<1>2. t[2] = u[2]
  BY <1>1, ThreadFacts
<1>3. QED
  BY <1>2, ThreadFacts

LEMMA HeldFinite ==
  ASSUME TypeOK, NEW t \in Threads
  PROVE  IsFiniteSet(held[t]) /\ Cardinality(held[t]) \in Nat
<1>1. IsFiniteSet(Locks)
  BY SpinlockAssumption, FS_Interval DEF Locks
<1>2. held[t] \in SUBSET Locks
  BY DEF TypeOK
<1>3. QED
  BY <1>1, <1>2, FS_Subset, FS_CardinalityType

\* A step of holding(), or a call of release(): nothing but pc[t] and perhaps lk[t] changes.
LEMMA PlaceStep ==
  ASSUME SpinInv, NEW t \in Threads, Running(t), NEW x, NEW l \in Locks,
         pc' = [pc EXCEPT ![t] = x], lk' = [lk EXCEPT ![t] = l],
         \/ pc[t] \in {"acq_locked", "acq_cpu"} /\ x \in {"acq_cpu", "spin"} /\ l = lk[t]
         \/ /\ pc[t] \in {"run", "rel_locked", "rel_cpu"}
            /\ x \in {"rel_locked", "rel_cpu", "clear"} /\ l \in held[t],
         UNCHANGED <<locked, cpu, FL_IF, ncli, intena, intr, held>>
  PROVE  SpinInv'
<1> USE DEF SpinInv
<1>1. TypeOK' /\ NoPanic'
  BY DEF TypeOK, NoPanic, Places
<1>2. \A u \in Threads : Running(u)' <=> Running(u)
  BY DEF Running
<1>3. \A u \in Threads, m \in Locks : Owns(u, m)' <=> Owns(u, m)
  BY DEF Owns, TypeOK
<1>4. MutualExclusion' /\ LockedOwned'
  BY <1>3, Zenon DEF MutualExclusion, LockedOwned
<1>5. NotInterrupted'
  BY <1>2 DEF NotInterrupted, TypeOK
<1>6. ArgumentsRight'
  BY DEF ArgumentsRight, Taking, Freeing, TypeOK
<1>7. CpuRight'
  BY DEF CpuRight, TypeOK
<1>8. \A u \in Threads : Pushed(u)' = Pushed(u)
  BY DEF Pushed, Taking, TypeOK
<1>9. NcliRight'
  BY <1>2, <1>8, Zenon DEF NcliRight
<1>10. FlagRight'
  BY DEF FlagRight
<1>11. QED
  BY <1>1, <1>4, <1>5, <1>6, <1>7, <1>9, <1>10

\* The panic of acquire(): holding() never finds the lock held by the caller's CPU.
LEMMA NotHolding ==
  ASSUME SpinInv, NEW t \in Threads, Running(t), Taking(t)
  PROVE  cpu[lk[t]] # t[1]
<1>1. t[1] # 0 /\ lk[t] \in Locks
  BY ThreadFacts, SpinlockAssumption DEF SpinInv, TypeOK, CPUs
<1>2. SUFFICES ASSUME cpu[lk[t]] = t[1] PROVE FALSE
  OBVIOUS
<1>3. PICK u \in Threads : u[1] = t[1] /\ lk[t] \in held[u]
  BY <1>1, <1>2 DEF SpinInv, CpuRight
<1>4. Running(u)
  BY <1>3 DEF SpinInv, NotInterrupted
<1>5. u = t
  BY <1>3, <1>4, OneRunning
<1>6. lk[t] < lk[t]
  BY <1>3, <1>5 DEF SpinInv, ArgumentsRight
<1>7. QED
  BY <1>1, <1>6 DEF Locks

LEMMA HoldingStep ==
  ASSUME SpinInv, NEW t \in Threads, HoldingLocked(t) \/ HoldingCpu(t)
  PROVE  SpinInv'
<1>1. /\ Running(t) /\ lk[t] \in Locks /\ lk' = [lk EXCEPT ![t] = lk[t]]
      /\ UNCHANGED <<locked, cpu, FL_IF, ncli, intena, intr, held>>
  BY DEF HoldingLocked, HoldingCpu, HoldingIs, Goto, SpinInv, TypeOK
<1>2. CASE pc[t] \in {"acq_locked", "acq_cpu"}
  <2>1. cpu[lk[t]] # t[1]
    BY <1>1, <1>2, NotHolding DEF Taking
  <2>2. \E x \in {"acq_cpu", "spin"} : pc' = [pc EXCEPT ![t] = x]
    BY <1>2, <2>1 DEF HoldingLocked, HoldingCpu, HoldingIs, Goto
  <2>3. QED
    BY <1>1, <1>2, <2>2, PlaceStep, Zenon
<1>3. CASE pc[t] \in {"rel_locked", "rel_cpu"}
  <2>1. lk[t] \in held[t]
    BY <1>3 DEF SpinInv, ArgumentsRight, Freeing
  <2>2. locked[lk[t]] /\ cpu[lk[t]] = t[1]
    BY <1>1, <1>3, <2>1 DEF SpinInv, LockedOwned, Owns, CpuRight
  <2>3. \E x \in {"rel_cpu", "clear"} : pc' = [pc EXCEPT ![t] = x]
    BY <1>3, <2>2 DEF HoldingLocked, HoldingCpu, HoldingIs, Goto
  <2>4. QED
    BY <1>1, <1>3, <2>1, <2>3, PlaceStep, Zenon
<1>4. QED
  BY <1>2, <1>3 DEF HoldingLocked, HoldingCpu, HoldingIs, Goto

LEMMA ReleaseStep ==
  ASSUME SpinInv, NEW t \in Threads, NEW l \in Locks, release(t, l)
  PROVE  SpinInv'
BY PlaceStep, Zenon DEF release, Goto

\* acquire() begins with pushcli().
LEMMA AcquireStep ==
  ASSUME SpinInv, NEW t \in Threads, NEW l \in Locks, acquire(t, l)
  PROVE  SpinInv'
<1> DEFINE c == t[1]
<1> USE DEF SpinInv
<1>1. /\ Running(t) /\ pc[t] = "run" /\ pc' = [pc EXCEPT ![t] = "acq_locked"]
      /\ lk' = [lk EXCEPT ![t] = l] /\ \A m \in held[t] : m < l
      /\ UNCHANGED <<locked, cpu, intr, held>> /\ c \in CPUs
  BY ThreadFacts DEF acquire, Goto
<1>2. /\ FL_IF' = [FL_IF EXCEPT ![c] = FALSE] /\ ncli' = [ncli EXCEPT ![c] = @ + 1]
      /\ intena' = [intena EXCEPT ![c] = IF ncli[c] = 0 THEN FL_IF[c] ELSE @]
  BY DEF acquire, pushcli
<1> HIDE DEF c
<1>3. TypeOK' /\ NoPanic'
  BY <1>1, <1>2 DEF TypeOK, NoPanic, Places
<1>4. \A u \in Threads : Running(u)' <=> Running(u)
  BY <1>1 DEF Running
<1>5. \A u \in Threads, m \in Locks : Owns(u, m)' <=> Owns(u, m)
  BY <1>1 DEF Owns, TypeOK
<1>6. MutualExclusion' /\ LockedOwned'
  BY <1>1, <1>5, Zenon DEF MutualExclusion, LockedOwned
<1>7. NotInterrupted'
  BY <1>1, <1>4 DEF NotInterrupted, TypeOK
<1>8. ArgumentsRight'
  BY <1>1 DEF ArgumentsRight, Taking, Freeing, TypeOK
<1>9. CpuRight'
  BY <1>1 DEF CpuRight, TypeOK
<1>10. NcliRight'
  <2> SUFFICES ASSUME NEW u \in Threads, Running(u)
               PROVE  ncli'[u[1]] = Cardinality(held[u]) + Pushed(u)'
    BY <1>1, <1>4 DEF NcliRight
  <2>1. CASE u = t
    <3>1. ncli[c] = Cardinality(held[t]) + 0 /\ Pushed(t)' = 1
      BY <1>1 DEF NcliRight, Pushed, Taking, TypeOK, c
    <3>2. QED
      BY <1>1, <1>2, <2>1, <3>1, HeldFinite DEF TypeOK, c
  <2>2. CASE u # t
    <3>1. u[1] # c /\ u[1] \in CPUs
      BY <1>1, <2>2, OneRunning, ThreadFacts DEF c
    <3>2. Pushed(u)' = Pushed(u) /\ ncli'[u[1]] = ncli[u[1]]
      BY <1>1, <1>2, <2>2, <3>1 DEF Pushed, Taking, TypeOK
    <3>3. QED
      BY <3>2 DEF NcliRight
  <2>3. QED
    BY <2>1, <2>2
<1>11. FlagRight'
  <2> SUFFICES ASSUME NEW d \in CPUs
               PROVE  /\ FL_IF'[d] <=> (~intr[d] /\ ncli'[d] = 0)
                      /\ ncli'[d] # 0 => (intena'[d] <=> ~intr[d])
    BY <1>1 DEF FlagRight
  <2>1. CASE d = c
    <3>1. ncli[c] \in Nat /\ ncli'[c] = ncli[c] + 1 /\ FL_IF'[c] = FALSE
      BY <1>1, <1>2 DEF TypeOK
    <3>2. intena'[c] = IF ncli[c] = 0 THEN FL_IF[c] ELSE intena[c]
      BY <1>1, <1>2 DEF TypeOK
    <3>3. ncli'[c] # 0
      BY <3>1
    <3>4. intena'[c] <=> ~intr[c]
      BY <1>1, <3>2, Zenon DEF FlagRight
    <3>5. QED
      BY <2>1, <3>1, <3>3, <3>4, Zenon
  <2>2. CASE d # c
    <3>1. FL_IF'[d] = FL_IF[d] /\ ncli'[d] = ncli[d] /\ intena'[d] = intena[d]
      BY <1>1, <1>2, <2>2 DEF TypeOK
    <3>2. QED
      BY <3>1, Zenon DEF FlagRight
  <2>3. QED
    BY <2>1, <2>2
<1>12. QED
  BY <1>3, <1>6, <1>7, <1>8, <1>9, <1>10, <1>11

\* The xchg that finds the lock free.
LEMMA XchgStep ==
  ASSUME SpinInv, NEW t \in Threads, Xchg(t)
  PROVE  SpinInv'
<1> USE DEF SpinInv
<1>1. /\ Running(t) /\ pc[t] = "spin" /\ pc' = [pc EXCEPT ![t] = "own"]
      /\ ~locked[lk[t]] /\ locked' = [locked EXCEPT ![lk[t]] = TRUE] /\ lk[t] \in Locks
      /\ UNCHANGED <<cpu, FL_IF, ncli, intena, intr, lk, held>>
  BY DEF Xchg, Goto, TypeOK
<1>2. TypeOK' /\ NoPanic'
  BY <1>1 DEF TypeOK, NoPanic, Places
<1>3. \A u \in Threads : Running(u)' <=> Running(u)
  BY <1>1 DEF Running
<1>4. \A u \in Threads, m \in Locks :
        Owns(u, m)' <=> (Owns(u, m) \/ (u = t /\ m = lk[t]))
  BY <1>1 DEF Owns, TypeOK
<1>5. \A u \in Threads : ~Owns(u, lk[t])
  BY <1>1 DEF LockedOwned
<1>6. MutualExclusion'
  <2> SUFFICES ASSUME NEW u \in Threads, NEW v \in Threads, NEW l \in Locks,
                      Owns(u, l)', Owns(v, l)'
               PROVE  u = v
    BY Zenon DEF MutualExclusion
  <2>1. CASE l = lk[t]
    BY <1>4, <1>5, <2>1
  <2>2. CASE l # lk[t]
    BY <1>4, <2>2 DEF MutualExclusion
  <2>3. QED
    BY <2>1, <2>2
<1>7. LockedOwned'
  <2> SUFFICES ASSUME NEW l \in Locks
               PROVE  locked'[l] <=> \E u \in Threads : Owns(u, l)'
    BY DEF LockedOwned
  <2>1. CASE l = lk[t]
    BY <1>1, <1>4, <2>1 DEF TypeOK
  <2>2. CASE l # lk[t]
    <3>1. locked'[l] = locked[l]
      BY <1>1, <2>2 DEF TypeOK
    <3>2. \A u \in Threads : Owns(u, l)' <=> Owns(u, l)
      BY <1>4, <2>2
    <3>3. QED
      BY <3>1, <3>2, Zenon DEF LockedOwned
  <2>3. QED
    BY <2>1, <2>2
<1>8. NotInterrupted'
  BY <1>1, <1>3 DEF NotInterrupted, TypeOK
<1>9. ArgumentsRight'
  BY <1>1 DEF ArgumentsRight, Taking, Freeing, TypeOK
<1>10. CpuRight'
  BY <1>1 DEF CpuRight, TypeOK
<1>11. \A u \in Threads : Pushed(u)' = Pushed(u)
  BY <1>1 DEF Pushed, Taking, TypeOK
<1>12. NcliRight'
  BY <1>1, <1>3, <1>11, Zenon DEF NcliRight
<1>13. FlagRight'
  BY <1>1 DEF FlagRight
<1>14. QED
  BY <1>2, <1>6, <1>7, <1>8, <1>9, <1>10, <1>12, <1>13

\* lk->cpu = mycpu(), after which acquire() returns.
LEMMA SetCpuStep ==
  ASSUME SpinInv, NEW t \in Threads, SetCpu(t)
  PROVE  SpinInv'
<1> DEFINE l == lk[t]
<1> USE DEF SpinInv
<1>1. /\ Running(t) /\ pc[t] = "own" /\ pc' = [pc EXCEPT ![t] = "run"]
      /\ cpu' = [cpu EXCEPT ![l] = t[1]] /\ held' = [held EXCEPT ![t] = @ \cup {l}]
      /\ UNCHANGED <<locked, FL_IF, ncli, intena, intr, lk>>
  BY DEF SetCpu, Goto
<1>2. l \in Locks /\ t[1] \in CPUs /\ CPUs \subseteq 0..NCPU /\ l \notin held[t]
  <2>1. l \in Locks /\ t[1] \in CPUs /\ CPUs \subseteq 0..NCPU
    BY ThreadFacts DEF TypeOK, CPUs
  <2>2. \A m \in held[t] : m < l
    BY <1>1 DEF ArgumentsRight, Taking
  <2>3. QED
    BY <2>1, <2>2 DEF Locks
<1>3. \A u \in Threads : Owns(u, l) => u = t
  BY <1>1, <1>2 DEF MutualExclusion, Owns
<1> HIDE DEF l
<1>4. /\ \A u \in Threads : u # t => pc'[u] = pc[u] /\ held'[u] = held[u]
      /\ pc'[t] = "run" /\ held'[t] = held[t] \cup {l}
  BY <1>1 DEF TypeOK
<1>5. TypeOK' /\ NoPanic'
  BY <1>1, <1>2, Zenon DEF TypeOK, NoPanic, Places
<1>6. \A u \in Threads : Running(u)' <=> Running(u)
  BY <1>1 DEF Running
<1>7. \A u \in Threads, m \in Locks : Owns(u, m)' <=> Owns(u, m)
  <2> SUFFICES ASSUME NEW u \in Threads, NEW m \in Locks PROVE Owns(u, m)' <=> Owns(u, m)
    OBVIOUS
  <2>1. CASE u = t
    BY <1>1, <1>4, <2>1 DEF Owns, l
  <2>2. CASE u # t
    BY <1>1, <1>4, <2>2 DEF Owns
  <2>3. QED
    BY <2>1, <2>2
<1>8. MutualExclusion' /\ LockedOwned'
  BY <1>1, <1>7, Zenon DEF MutualExclusion, LockedOwned
<1>9. NotInterrupted'
  BY <1>1, <1>4, <1>6 DEF NotInterrupted
<1>10. ArgumentsRight'
  BY <1>1, <1>4 DEF ArgumentsRight, Taking, Freeing
<1>11. CpuRight'
  <2>1. \A m \in Locks : cpu'[m] = IF m = l THEN t[1] ELSE cpu[m]
    BY <1>1, <1>2 DEF TypeOK
  <2>2. \A u \in Threads : \A m \in held'[u] :
          ~(pc'[u] = "unlock" /\ lk'[u] = m) => cpu'[m] = u[1]
    <3> SUFFICES ASSUME NEW u \in Threads, NEW m \in held'[u],
                        ~(pc'[u] = "unlock" /\ lk'[u] = m)
                 PROVE  cpu'[m] = u[1]
      OBVIOUS
    <3>1. m \in Locks
      BY <1>5 DEF TypeOK
    <3>2. CASE m = l
      <4>1. l \in held'[u]
        BY <3>2
      <4>2. u = t
        BY <1>3, <1>4, <4>1 DEF Owns
      <4>3. QED
        BY <2>1, <3>1, <3>2, <4>2
    <3>3. CASE m # l
      BY <1>1, <1>4, <2>1, <3>1, <3>3 DEF CpuRight
    <3>4. QED
      BY <3>2, <3>3
  <2>3. ASSUME NEW u \in Threads, pc'[u] = "unlock" PROVE cpu'[lk'[u]] = 0
    <3>1. u # t /\ pc[u] = "unlock" /\ lk'[u] = lk[u] /\ lk[u] \in Locks
      BY <1>1, <1>4, <2>3 DEF TypeOK
    <3>2. lk[u] \in held[u]
      BY <3>1 DEF ArgumentsRight, Freeing
    <3>3. lk[u] # l
      BY <1>3, <3>1, <3>2 DEF Owns
    <3>4. QED
      BY <2>1, <3>1, <3>3 DEF CpuRight
  <2>4. ASSUME NEW m \in Locks, cpu'[m] # 0
        PROVE  \E u \in Threads : u[1] = cpu'[m] /\ m \in held'[u]
    <3>1. CASE m = l
      BY <1>4, <2>1, <3>1
    <3>2. CASE m # l
      <4>1. PICK u \in Threads : u[1] = cpu[m] /\ m \in held[u]
        BY <2>1, <2>4, <3>2 DEF CpuRight
      <4>2. m \in held'[u]
        BY <1>4, <4>1
      <4>3. QED
        BY <2>1, <3>2, <4>1, <4>2
    <3>3. QED
      BY <3>1, <3>2
  <2>5. QED
    BY <2>2, <2>3, <2>4 DEF CpuRight
<1>12. NcliRight'
  <2> SUFFICES ASSUME NEW u \in Threads, Running(u)
               PROVE  ncli[u[1]] = Cardinality(held'[u]) + Pushed(u)'
    BY <1>1, <1>6 DEF NcliRight
  <2>1. CASE u = t
    <3>1. Cardinality(held'[t]) = Cardinality(held[t]) + 1
      BY <1>2, <1>4, HeldFinite, FS_AddElement, Zenon
    <3>2. Pushed(t) = 1 /\ Pushed(t)' = 0 /\ ncli[t[1]] = Cardinality(held[t]) + Pushed(t)
      BY <1>1, <1>4 DEF Pushed, Taking, NcliRight
    <3>3. QED
      BY <2>1, <3>1, <3>2, HeldFinite
  <2>2. CASE u # t
    <3>1. Pushed(u)' = Pushed(u) /\ held'[u] = held[u]
      BY <1>4, <2>2 DEF Pushed, Taking
    <3>2. QED
      BY <3>1 DEF NcliRight
  <2>3. QED
    BY <2>1, <2>2
<1>13. FlagRight'
  BY <1>1 DEF FlagRight
<1>14. QED
  BY <1>5, <1>8, <1>9, <1>10, <1>11, <1>12, <1>13

\* lk->cpu = 0 in release().
LEMMA ClearCpuStep ==
  ASSUME SpinInv, NEW t \in Threads, ClearCpu(t)
  PROVE  SpinInv'
<1> DEFINE l == lk[t]
<1> USE DEF SpinInv
<1>1. /\ Running(t) /\ pc[t] = "clear" /\ pc' = [pc EXCEPT ![t] = "unlock"]
      /\ cpu' = [cpu EXCEPT ![l] = 0]
      /\ UNCHANGED <<locked, FL_IF, ncli, intena, intr, lk, held>>
  BY DEF ClearCpu, Goto
<1>2. l \in Locks /\ l \in held[t] /\ 0 \in 0..NCPU
  BY <1>1, SpinlockAssumption DEF TypeOK, ArgumentsRight, Freeing
<1>3. \A u \in Threads : l \in held[u] => u = t
  BY <1>2 DEF MutualExclusion, Owns
<1>4. TypeOK' /\ NoPanic'
  BY <1>1, <1>2 DEF TypeOK, NoPanic, Places
<1>5. \A u \in Threads : Running(u)' <=> Running(u)
  BY <1>1 DEF Running
<1>6. \A u \in Threads, m \in Locks : Owns(u, m)' <=> Owns(u, m)
  BY <1>1 DEF Owns, TypeOK
<1>7. MutualExclusion' /\ LockedOwned'
  BY <1>1, <1>6, Zenon DEF MutualExclusion, LockedOwned
<1>8. NotInterrupted'
  BY <1>1, <1>5 DEF NotInterrupted, TypeOK
<1>9. ArgumentsRight'
  BY <1>1 DEF ArgumentsRight, Taking, Freeing, TypeOK
<1>10. CpuRight'
  <2>1. \A m \in Locks : cpu'[m] = IF m = l THEN 0 ELSE cpu[m]
    BY <1>1, <1>2 DEF TypeOK
  <2>2. /\ \A u \in Threads : u # t => pc'[u] = pc[u]
        /\ pc'[t] = "unlock" /\ lk' = lk /\ held' = held
    BY <1>1 DEF TypeOK
  <2>3. \A u \in Threads : lk[u] \in Locks /\ held[u] \subseteq Locks
    BY DEF TypeOK
  <2> HIDE DEF SpinInv
  <2>4. \A u \in Threads : \A m \in held'[u] :
          ~(pc'[u] = "unlock" /\ lk'[u] = m) => cpu'[m] = u[1]
    BY <1>1, <1>3, <2>1, <2>2, <2>3 DEF CpuRight, SpinInv
  <2>5. \A u \in Threads : pc'[u] = "unlock" => cpu'[lk'[u]] = 0
    BY <1>1, <2>1, <2>2, <2>3 DEF CpuRight, SpinInv
  <2>6. \A m \in Locks : cpu'[m] # 0 => \E u \in Threads : u[1] = cpu'[m] /\ m \in held'[u]
    BY <2>1, <2>2 DEF CpuRight, SpinInv
  <2>7. QED
    BY <2>4, <2>5, <2>6 DEF CpuRight
<1>11. \A u \in Threads : Pushed(u)' = Pushed(u)
  BY <1>1 DEF Pushed, Taking, TypeOK
<1>12. NcliRight'
  BY <1>1, <1>5, <1>11, Zenon DEF NcliRight
<1>13. FlagRight'
  BY <1>1 DEF FlagRight
<1>14. QED
  BY <1>4, <1>7, <1>8, <1>9, <1>10, <1>12, <1>13

\* The store that frees the lock.
LEMMA UnlockStep ==
  ASSUME SpinInv, NEW t \in Threads, Unlock(t)
  PROVE  SpinInv'
<1> DEFINE l == lk[t]
<1> USE DEF SpinInv
<1>1. /\ Running(t) /\ pc[t] = "unlock" /\ pc' = [pc EXCEPT ![t] = "popcli"]
      /\ locked' = [locked EXCEPT ![l] = FALSE] /\ held' = [held EXCEPT ![t] = @ \ {l}]
      /\ UNCHANGED <<cpu, FL_IF, ncli, intena, intr, lk>>
  BY DEF Unlock, Goto
<1>2. l \in Locks /\ l \in held[t] /\ cpu[l] = 0
  BY <1>1 DEF TypeOK, ArgumentsRight, Freeing, CpuRight
<1>3. \A u \in Threads : Owns(u, l) => u = t
  BY <1>2 DEF MutualExclusion, Owns
<1> HIDE DEF l
<1>4. /\ \A u \in Threads : u # t => pc'[u] = pc[u] /\ held'[u] = held[u]
      /\ pc'[t] = "popcli" /\ held'[t] = held[t] \ {l}
      /\ \A m \in Locks : locked'[m] = IF m = l THEN FALSE ELSE locked[m]
  BY <1>1, <1>2 DEF TypeOK
<1>5. TypeOK' /\ NoPanic'
  BY <1>1, <1>2 DEF TypeOK, NoPanic, Places
<1>6. \A u \in Threads : Running(u)' <=> Running(u)
  BY <1>1 DEF Running
<1>7. \A u \in Threads, m \in Locks : Owns(u, m)' <=> (Owns(u, m) /\ m # l)
  <2> SUFFICES ASSUME NEW u \in Threads, NEW m \in Locks
               PROVE  Owns(u, m)' <=> (Owns(u, m) /\ m # l)
    OBVIOUS
  <2>1. CASE u = t
    BY <1>1, <1>4, <2>1 DEF Owns
  <2>2. CASE u # t
    BY <1>1, <1>3, <1>4, <2>2 DEF Owns
  <2>3. QED
    BY <2>1, <2>2
<1>8. MutualExclusion'
  BY <1>7 DEF MutualExclusion
<1>9. LockedOwned'
  <2> SUFFICES ASSUME NEW m \in Locks
               PROVE  locked'[m] <=> \E u \in Threads : Owns(u, m)'
    BY DEF LockedOwned
  <2>1. CASE m = l
    BY <1>4, <1>7, <2>1, Zenon
  <2>2. CASE m # l
    <3>1. locked'[m] = locked[m] /\ \A u \in Threads : Owns(u, m)' <=> Owns(u, m)
      BY <1>4, <1>7, <2>2, Zenon
    <3>2. QED
      BY <3>1, Zenon DEF LockedOwned
  <2>3. QED
    BY <2>1, <2>2
<1>10. NotInterrupted'
  BY <1>1, <1>4, <1>6 DEF NotInterrupted
<1>11. ArgumentsRight'
  BY <1>1, <1>4 DEF ArgumentsRight, Taking, Freeing
<1>12. CpuRight'
  <2>1. \A u \in Threads : \A m \in held'[u] :
          ~(pc'[u] = "unlock" /\ lk'[u] = m) => cpu'[m] = u[1]
    <3> SUFFICES ASSUME NEW u \in Threads, NEW m \in held'[u],
                        ~(pc'[u] = "unlock" /\ lk'[u] = m)
                 PROVE  cpu[m] = u[1]
      BY <1>1
    <3>1. m \in held[u] /\ ~(pc[u] = "unlock" /\ lk[u] = m)
      BY <1>1, <1>4 DEF l
    <3>2. QED
      BY <3>1 DEF CpuRight
  <2>2. \A u \in Threads : pc'[u] = "unlock" => cpu'[lk'[u]] = 0
    BY <1>1, <1>4 DEF CpuRight
  <2>3. ASSUME NEW m \in Locks, cpu[m] # 0
        PROVE  \E u \in Threads : u[1] = cpu[m] /\ m \in held'[u]
    <3>1. PICK u \in Threads : u[1] = cpu[m] /\ m \in held[u]
      BY <2>3 DEF CpuRight
    <3>2. m \in held'[u]
      BY <1>2, <1>4, <2>3, <3>1
    <3>3. QED
      BY <3>1, <3>2
  <2>4. QED
    BY <1>1, <2>1, <2>2, <2>3 DEF CpuRight
<1>13. NcliRight'
  <2> SUFFICES ASSUME NEW u \in Threads, Running(u)
               PROVE  ncli[u[1]] = Cardinality(held'[u]) + Pushed(u)'
    BY <1>1, <1>6, Zenon DEF NcliRight
  <2>1. CASE u = t
    <3>1. Cardinality(held'[t]) = Cardinality(held[t]) - 1
      BY <1>2, <1>4, HeldFinite, FS_RemoveElement, Zenon
    <3>2. Pushed(t) = 0 /\ Pushed(t)' = 1 /\ ncli[t[1]] = Cardinality(held[t]) + Pushed(t)
      BY <1>1, <1>4 DEF Pushed, Taking, NcliRight
    <3>3. QED
      BY <2>1, <3>1, <3>2, HeldFinite
  <2>2. CASE u # t
    <3>1. Pushed(u)' = Pushed(u) /\ held'[u] = held[u]
      BY <1>4, <2>2 DEF Pushed, Taking
    <3>2. QED
      BY <3>1 DEF NcliRight
  <2>3. QED
    BY <2>1, <2>2
<1>14. FlagRight'
  BY <1>1 DEF FlagRight
<1>15. QED
  BY <1>5, <1>8, <1>9, <1>10, <1>11, <1>12, <1>13, <1>14

\* popcli() does not panic, and enables interrupts again after the last lock.
LEMMA PopcliStep ==
  ASSUME SpinInv, NEW t \in Threads, popcli(t)
  PROVE  SpinInv'
<1> DEFINE c == t[1]
<1> USE DEF SpinInv
<1>1. Running(t) /\ pc[t] = "popcli" /\ c \in CPUs
  BY ThreadFacts DEF popcli, Goto
<1>2. ncli[c] = Cardinality(held[t]) + 1 /\ Cardinality(held[t]) \in Nat
  BY <1>1, HeldFinite DEF NcliRight, Pushed
<1>3. ncli[c] # 0 /\ ~(ncli[c] < 1) /\ ncli[c] \in Nat
  BY <1>2
<1>4. ~FL_IF[c] /\ (intena[c] <=> ~intr[c])
  BY <1>1, <1>3, Zenon DEF FlagRight
<1>5. /\ pc' = [pc EXCEPT ![t] = "run"]
      /\ ncli' = [ncli EXCEPT ![c] = @ - 1]
      /\ FL_IF' = [FL_IF EXCEPT ![c] = (ncli[c] = 1 /\ intena[c])]
      /\ UNCHANGED <<locked, cpu, intena, intr, lk, held>>
  <2>1. /\ pc' = [pc EXCEPT ![t] = IF FL_IF[c] \/ ncli[c] < 1 THEN "panic" ELSE "run"]
        /\ ncli' = [ncli EXCEPT ![c] = IF FL_IF[c] THEN @ ELSE @ - 1]
        /\ FL_IF' = [FL_IF EXCEPT ![c] = @ \/ (ncli[c] = 1 /\ intena[c])]
        /\ UNCHANGED <<locked, cpu, intena, intr, lk, held>>
    BY DEF popcli, Goto
  <2>2. FL_IF[c] = FALSE
    BY <1>1, <1>4 DEF TypeOK
  <2>3. QED
    BY <1>3, <2>1, <2>2, Zenon
<1> HIDE DEF c
<1>6. TypeOK' /\ NoPanic'
  <2>1. ncli[c] - 1 \in Nat
    BY <1>2
  <2>2. QED
    BY <1>1, <1>5, <2>1 DEF TypeOK, NoPanic, Places
<1>7. \A u \in Threads : Running(u)' <=> Running(u)
  BY <1>5 DEF Running
<1>8. \A u \in Threads, m \in Locks : Owns(u, m)' <=> Owns(u, m)
  BY <1>1, <1>5 DEF Owns, TypeOK
<1>9. MutualExclusion' /\ LockedOwned'
  BY <1>5, <1>8, Zenon DEF MutualExclusion, LockedOwned
<1>10. NotInterrupted'
  BY <1>1, <1>5, <1>7 DEF NotInterrupted, TypeOK
<1>11. ArgumentsRight'
  BY <1>1, <1>5 DEF ArgumentsRight, Taking, Freeing, TypeOK
<1>12. CpuRight'
  BY <1>1, <1>5 DEF CpuRight, TypeOK
<1>13. NcliRight'
  <2> SUFFICES ASSUME NEW u \in Threads, Running(u)
               PROVE  ncli'[u[1]] = Cardinality(held[u]) + Pushed(u)'
    BY <1>5, <1>7 DEF NcliRight
  <2>1. CASE u = t
    <3>1. Pushed(t)' = 0 /\ ncli'[c] = ncli[c] - 1
      BY <1>1, <1>5 DEF Pushed, Taking, TypeOK
    <3>2. QED
      BY <1>2, <2>1, <3>1 DEF c
  <2>2. CASE u # t
    <3>1. u[1] # c /\ u[1] \in CPUs
      BY <1>1, <2>2, OneRunning, ThreadFacts DEF c
    <3>2. Pushed(u)' = Pushed(u) /\ ncli'[u[1]] = ncli[u[1]]
      BY <1>1, <1>5, <2>2, <3>1 DEF Pushed, Taking, TypeOK
    <3>3. QED
      BY <3>2 DEF NcliRight
  <2>3. QED
    BY <2>1, <2>2
<1>14. FlagRight'
  <2> SUFFICES ASSUME NEW d \in CPUs
               PROVE  /\ FL_IF'[d] <=> (~intr[d] /\ ncli'[d] = 0)
                      /\ ncli'[d] # 0 => (intena[d] <=> ~intr[d])
    BY <1>5 DEF FlagRight
  <2>1. CASE d = c
    <3>1. ncli'[c] = ncli[c] - 1 /\ FL_IF'[c] = (ncli[c] = 1 /\ intena[c])
      BY <1>1, <1>5 DEF TypeOK
    <3>2. (ncli'[c] = 0) <=> (ncli[c] = 1)
      BY <1>3, <3>1
    <3>3. QED
      BY <1>4, <2>1, <3>1, <3>2, Zenon
  <2>2. CASE d # c
    <3>1. FL_IF'[d] = FL_IF[d] /\ ncli'[d] = ncli[d]
      BY <1>1, <1>5, <2>2 DEF TypeOK
    <3>2. QED
      BY <3>1, Zenon DEF FlagRight
  <2>3. QED
    BY <2>1, <2>2
<1>15. QED
  BY <1>6, <1>9, <1>10, <1>11, <1>12, <1>13, <1>14

\* A thread outside all locks, on a CPU whose ncli is 0.
Idle(t) == pc[t] = "run" /\ held[t] = {}

LEMMA OutsideIsIdle ==
  ASSUME SpinInv, NEW t \in Threads, Running(t), ncli[t[1]] = 0
  PROVE  Idle(t)
<1> USE DEF SpinInv
<1>1. 0 = Cardinality(held[t]) + Pushed(t) /\ Cardinality(held[t]) \in Nat
  BY HeldFinite DEF NcliRight
<1>2. Pushed(t) = 0 \/ Pushed(t) = 1
  BY DEF Pushed
<1>3. Cardinality(held[t]) = 0 /\ Pushed(t) = 0
  BY <1>1, <1>2
<1>4. held[t] = {}
  BY <1>3, HeldFinite, FS_EmptySet
<1>5. ~Taking(t) /\ pc[t] # "popcli"
  BY <1>3 DEF Pushed
<1>6. ~Freeing(t)
  BY <1>4 DEF ArgumentsRight
<1>7. QED
  BY <1>4, <1>5, <1>6 DEF Idle, Taking, Freeing, NoPanic, TypeOK, Places

\* An interrupt or an iret: both threads of the CPU are idle, and one goes on for the other.
LEMMA SwitchStep ==
  ASSUME SpinInv, NEW c \in CPUs, NEW b \in BOOLEAN, ncli[c] = 0,
         \A t \in Threads : t[1] = c => Idle(t),
         intr' = [intr EXCEPT ![c] = b], FL_IF' = [FL_IF EXCEPT ![c] = ~b],
         UNCHANGED <<locked, cpu, ncli, intena, pc, lk, held>>
  PROVE  SpinInv'
<1> USE DEF SpinInv
<1>1. TypeOK' /\ NoPanic'
  BY DEF TypeOK, NoPanic
<1>2. \A u \in Threads : u[1] # c => (Running(u)' <=> Running(u))
  BY ThreadFacts DEF Running, TypeOK
<1>3. MutualExclusion' /\ LockedOwned' /\ ArgumentsRight' /\ CpuRight'
  <2>1. \A u \in Threads, m \in Locks : Owns(u, m)' <=> Owns(u, m)
    BY DEF Owns
  <2>2. MutualExclusion' /\ LockedOwned'
    BY <2>1, Zenon DEF MutualExclusion, LockedOwned
  <2>3. ArgumentsRight' /\ CpuRight'
    BY DEF ArgumentsRight, CpuRight, Taking, Freeing
  <2>4. QED
    BY <2>2, <2>3
<1>4. NotInterrupted'
  BY <1>2 DEF NotInterrupted, Idle
<1>5. NcliRight'
  <2> SUFFICES ASSUME NEW u \in Threads, Running(u)'
               PROVE  ncli[u[1]] = Cardinality(held[u]) + Pushed(u)'
    BY DEF NcliRight
  <2>1. Pushed(u)' = Pushed(u)
    BY DEF Pushed, Taking
  <2>2. CASE u[1] = c
    <3>1. held[u] = {} /\ Pushed(u) = 0
      BY <2>2 DEF Idle, Pushed, Taking
    <3>2. Cardinality(held[u]) = 0
      BY <3>1, FS_EmptySet
    <3>3. QED
      BY <2>1, <2>2, <3>1, <3>2
  <2>3. CASE u[1] # c
    BY <1>2, <2>1, <2>3 DEF NcliRight
  <2>4. QED
    BY <2>2, <2>3
<1>6. FlagRight'
  <2> SUFFICES ASSUME NEW d \in CPUs
               PROVE  /\ FL_IF'[d] <=> (~intr'[d] /\ ncli[d] = 0)
                      /\ ncli[d] # 0 => (intena[d] <=> ~intr'[d])
    BY DEF FlagRight
  <2>1. CASE d = c
    <3>1. FL_IF'[c] = ~b /\ intr'[c] = b
      BY DEF TypeOK
    <3>2. QED
      BY <2>1, <3>1, Zenon
  <2>2. CASE d # c
    <3>1. FL_IF'[d] = FL_IF[d] /\ intr'[d] = intr[d]
      BY <2>2 DEF TypeOK
    <3>2. QED
      BY <3>1, Zenon DEF FlagRight
  <2>3. QED
    BY <2>1, <2>2
<1>7. QED
  BY <1>1, <1>3, <1>4, <1>5, <1>6

LEMMA InterruptStep ==
  ASSUME SpinInv, NEW c \in CPUs, Interrupt(c)
  PROVE  SpinInv'
<1>1. ~intr[c] /\ ncli[c] = 0
  BY Zenon DEF Interrupt, SpinInv, FlagRight
<1>2. ASSUME NEW t \in Threads, t[1] = c PROVE Idle(t)
  <2>1. CASE Running(t)
    BY <1>1, <1>2, <2>1, OutsideIsIdle
  <2>2. CASE ~Running(t)
    BY <2>2 DEF SpinInv, NotInterrupted, Idle
  <2>3. QED
    BY <2>1, <2>2
<1>3. intr' = [intr EXCEPT ![c] = TRUE] /\ FL_IF' = [FL_IF EXCEPT ![c] = ~TRUE]
  BY Zenon DEF Interrupt
<1>4. QED
  BY <1>1, <1>2, <1>3, SwitchStep, Zenon DEF Interrupt

LEMMA IretStep ==
  ASSUME SpinInv, NEW c \in CPUs, Iret(c)
  PROVE  SpinInv'
<1> DEFINE i == <<c, "intr">>
<1>1. i \in Threads /\ i[1] = c /\ i[2] = "intr"
  BY ThreadFacts, Zenon
<1>2. intr[c] /\ pc[i] = "run" /\ held[i] = {}
  BY DEF Iret
<1> HIDE DEF i
<1>3. Running(i)
  BY <1>1, <1>2 DEF Running
<1>4. ncli[c] = 0
  BY <1>1, <1>2, <1>3, FS_EmptySet DEF SpinInv, NcliRight, Pushed, Taking
<1>5. ASSUME NEW t \in Threads, t[1] = c PROVE Idle(t)
  <2>1. CASE Running(t)
    BY <1>4, <1>5, <2>1, OutsideIsIdle
  <2>2. CASE ~Running(t)
    BY <2>2 DEF SpinInv, NotInterrupted, Idle
  <2>3. QED
    BY <2>1, <2>2
<1>6. intr' = [intr EXCEPT ![c] = FALSE] /\ FL_IF' = [FL_IF EXCEPT ![c] = ~FALSE]
  BY Zenon DEF Iret
<1>7. QED
  BY <1>4, <1>5, <1>6, SwitchStep, Zenon DEF Iret
-----------------------------------------------------------------------------
LEMMA SpinInitially ==
  ASSUME Init
  PROVE  SpinInv
<1> USE DEF Init
<1>1. TypeOK /\ NoPanic
  BY SpinlockAssumption DEF TypeOK, NoPanic, Places, Locks
<1>2. NotInterrupted /\ ArgumentsRight /\ CpuRight
  BY DEF NotInterrupted, ArgumentsRight, CpuRight, Taking, Freeing
<1>3. MutualExclusion /\ LockedOwned
  BY DEF MutualExclusion, LockedOwned, Owns
<1>4. NcliRight
  BY ThreadFacts, FS_EmptySet DEF NcliRight, Pushed, Taking
<1>5. FlagRight
  BY DEF FlagRight
<1>6. QED
  BY <1>1, <1>2, <1>3, <1>4, <1>5 DEF SpinInv

LEMMA SpinStep ==
  ASSUME SpinInv, [Next]_vars
  PROVE  SpinInv'
<1>1. CASE UNCHANGED vars
  <2> USE <1>1 DEF vars, SpinInv
  <2>1. TypeOK' /\ NoPanic' /\ FlagRight' /\ CpuRight'
    BY DEF TypeOK, NoPanic, FlagRight, CpuRight
  <2>2. NotInterrupted' /\ NcliRight' /\ ArgumentsRight'
    BY DEF NotInterrupted, NcliRight, ArgumentsRight, Running, Pushed, Taking, Freeing
  <2>3. MutualExclusion' /\ LockedOwned'
    BY DEF MutualExclusion, LockedOwned, Owns
  <2>4. QED
    BY <2>1, <2>2, <2>3
<1>2. ASSUME NEW t \in Threads, Step(t) PROVE SpinInv'
  BY <1>2, HoldingStep, XchgStep, SetCpuStep, ClearCpuStep, UnlockStep, PopcliStep DEF Step
<1>3. QED
  BY <1>1, <1>2, AcquireStep, ReleaseStep, InterruptStep, IretStep DEF Next

\* The inductive invariant holds in every reachable state.
THEOREM SpinInvariance == Spec => []SpinInv
<1>1. Init => SpinInv
  BY SpinInitially
<1>2. SpinInv /\ [Next]_vars => SpinInv'
  BY SpinStep
<1>3. QED
  BY <1>1, <1>2, PTL DEF Spec
-----------------------------------------------------------------------------
(***************************************************************************)
(* Nobody waits in a circle: among the locks that the running threads spin *)
(* for, the owner of the greatest one does not spin.                       *)
(***************************************************************************)
LEMMA Least ==
  ASSUME NEW T \in SUBSET Nat, T # {}
  PROVE  \E x \in T : \A y \in T : x <= y
<1> DEFINE R == {x \in Nat \X Nat : x[1] < x[2]}
<1>1. IsWellFoundedOn(R, Nat)
  <2>1. OpToRel(<, Nat) = R
    BY DEF OpToRel
  <2>2. QED
    BY <2>1, NatLessThanWellFounded, Zenon
<1> HIDE DEF R
<1>2. PICK x \in T : \A y \in T : ~(<<y, x>> \in R)
  BY <1>1, WFMin, Zenon
<1>3. ASSUME NEW y \in T
      PROVE  ~(y < x)
  <2>1. <<y, x>> \in Nat \X Nat /\ <<y, x>>[1] = y /\ <<y, x>>[2] = x
    OBVIOUS
  <2>2. QED
    BY <1>2, <2>1 DEF R
<1>4. \A y \in T : x <= y
  BY <1>3
<1>5. QED
  BY <1>4

LEMMA Greatest ==
  ASSUME NEW W \in SUBSET Locks, W # {}
  PROVE  \E m \in W : \A l \in W : l <= m
<1> DEFINE T == {NLOCK - l : l \in W}
<1>1. T \in SUBSET Nat /\ T # {}
  <2>1. \A l \in W : NLOCK - l \in Nat
    BY SpinlockAssumption DEF Locks
  <2>2. QED
    BY <2>1, Zenon
<1>2. PICK x \in T : \A y \in T : x <= y
  BY <1>1, Least, Zenon
<1>3. PICK m \in W : x = NLOCK - m
  OBVIOUS
<1>4. \A l \in W : NLOCK - m <= NLOCK - l
  BY <1>2, <1>3
<1>5. QED
  BY <1>4, SpinlockAssumption DEF Locks

\* A lock that a thread spins for while it is locked has an owner that runs; if that one
\* spins as well, then for a greater lock.
LEMMA OwnerSpinsHigher ==
  ASSUME SpinInv, NEW l \in Locks, locked[l],
         \A t \in Threads : Running(t) => pc[t] = "spin"
  PROVE  \E u \in Threads : Running(u) /\ l < lk[u]
<1>1. PICK u \in Threads : Owns(u, l)
  BY DEF SpinInv, LockedOwned
<1>2. Running(u)
  BY <1>1 DEF SpinInv, NotInterrupted, Owns
<1>3. pc[u] = "spin"
  BY <1>2
<1>4. l \in held[u]
  BY <1>1, <1>3 DEF Owns
<1>5. l < lk[u]
  BY <1>3, <1>4 DEF SpinInv, ArgumentsRight, Taking
<1>6. QED
  BY <1>2, <1>5

LEMMA NoCircle ==
  ASSUME SpinInv
  PROVE  SomebodyGoesOn
<1> SUFFICES ASSUME \A t \in Threads : Running(t) => pc[t] = "spin" /\ locked[lk[t]]
             PROVE  FALSE
  BY DEF SomebodyGoesOn
<1> DEFINE W == {l \in Locks : \E t \in Threads : Running(t) /\ l = lk[t]}
<1>1. \A t \in Threads : lk[t] \in Locks
  BY DEF SpinInv, TypeOK
<1>2. \E t \in Threads : Running(t)
  <2>1. 1 \in CPUs
    BY SpinlockAssumption DEF CPUs
  <2>2. <<1, "main">> \in Threads /\ <<1, "intr">> \in Threads
        /\ <<1, "main">>[1] = 1 /\ <<1, "main">>[2] = "main"
        /\ <<1, "intr">>[1] = 1 /\ <<1, "intr">>[2] = "intr"
    BY <2>1, ThreadFacts
  <2>3. CASE intr[1]
    <3>1. Running(<<1, "intr">>)
      BY <2>2, <2>3 DEF Running
    <3>2. QED
      BY <2>2, <3>1
  <2>4. CASE ~intr[1]
    <3>1. Running(<<1, "main">>)
      BY <2>2, <2>4 DEF Running
    <3>2. QED
      BY <2>2, <3>1
  <2>5. QED
    BY <2>3, <2>4
<1>3. W \in SUBSET Locks /\ W # {}
  BY <1>1, <1>2
<1>4. PICK m \in W : \A l \in W : l <= m
  BY <1>3, Greatest, Zenon
<1>5. locked[m] /\ m \in Locks
  OBVIOUS
<1>6. PICK u \in Threads : Running(u) /\ m < lk[u]
  BY <1>5, OwnerSpinsHigher
<1>7. lk[u] <= m
  BY <1>1, <1>4, <1>6
<1>8. QED
  BY <1>1, <1>5, <1>6, <1>7 DEF Locks

\* acquire() and release() keep what they promise, for any number of CPUs and locks: one
\* owner, interrupts off exactly meanwhile, no circular waiting and no panic.
THEOREM SpinlocksSound == Spec => []LockSound
<1>1. SpinInv => LockSound
  <2> SUFFICES ASSUME SpinInv PROVE LockSound
    OBVIOUS
  <2>1. InterruptsRestored
    <3> SUFFICES ASSUME NEW c \in CPUs, ~intr[c], pc[<<c, "main">>] = "run",
                        held[<<c, "main">>] = {}
                 PROVE  FL_IF[c] /\ ncli[c] = 0
      BY Zenon DEF InterruptsRestored
    <3> DEFINE t == <<c, "main">>
    <3>1. t \in Threads /\ t[1] = c /\ t[2] = "main" /\ pc[t] = "run" /\ held[t] = {}
      BY ThreadFacts, Zenon
    <3> HIDE DEF t
    <3>2. Running(t)
      BY <3>1 DEF Running
    <3>3. ncli[c] = 0
      BY <3>1, <3>2, FS_EmptySet DEF SpinInv, NcliRight, Pushed, Taking
    <3>4. QED
      BY <3>3, Zenon DEF SpinInv, FlagRight
  <2>2. QED
    BY <2>1, NoCircle DEF SpinInv, LockSound
<1>2. QED
  BY <1>1, SpinInvariance, PTL
=============================================================================
