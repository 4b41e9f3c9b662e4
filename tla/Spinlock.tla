------------------------------ MODULE Spinlock ------------------------------
(***************************************************************************)
(* Spinlocks and the nesting of cli/sti (spinlock.c), on CPUs that take    *)
(* interrupts whose handlers use the same locks.                           *)
(*                                                                         *)
(* holding() reads lk->locked and lk->cpu one after the other, without the *)
(* lock; acquire() sets lk->cpu after the atomic exchange, and release()   *)
(* clears it before lk->locked: each of these accesses is one action.      *)
(***************************************************************************)
EXTENDS Integers

CONSTANTS NCPU,    \* CPUs, numbered from 1
          NLOCK    \* spinlocks; a thread takes them in increasing order

ASSUME SpinlockAssumption == NCPU \in Nat \ {0} /\ NLOCK \in Nat \ {0}

CPUs  == 1..NCPU
Locks == 1..NLOCK

\* What runs on a CPU: kernel code, and the interrupt handler on top of it.
Threads == CPUs \X {"main", "intr"}

VARIABLES
  locked, cpu,        \* struct spinlock: locked, and cpu (0 if null)
  FL_IF,              \* the interrupt enable flag of each CPU
  ncli, intena,       \* struct cpu
  intr,               \* the CPU is in its interrupt handler
  pc, lk, held        \* of each thread: place, argument of acquire or release,
                      \* and the locks it has taken

vars == <<locked, cpu, FL_IF, ncli, intena, intr, pc, lk, held>>

\* acquire(): holding_locked, holding_cpu (the two reads of holding()), spin, own;
\* release(): the two reads, then clear (lk->cpu = 0), unlock, popcli.
Places == {"run", "acq_locked", "acq_cpu", "spin", "own",
           "rel_locked", "rel_cpu", "clear", "unlock", "popcli", "panic"}

Init ==
  /\ locked = [l \in Locks |-> FALSE]
  /\ cpu = [l \in Locks |-> 0]
  /\ FL_IF = [c \in CPUs |-> TRUE]
  /\ ncli = [c \in CPUs |-> 0]
  /\ intena = [c \in CPUs |-> FALSE]
  /\ intr = [c \in CPUs |-> FALSE]
  /\ pc = [t \in Threads |-> "run"]
  /\ lk = [t \in Threads |-> 1]
  /\ held = [t \in Threads |-> {}]

\* Thread t is the one that runs on its CPU.
Running(t) == intr[t[1]] <=> t[2] = "intr"

Goto(t, from, to) == Running(t) /\ pc[t] = from /\ pc' = [pc EXCEPT ![t] = to]

pushcli(c) ==
  /\ FL_IF' = [FL_IF EXCEPT ![c] = FALSE]
  /\ intena' = [intena EXCEPT ![c] = IF ncli[c] = 0 THEN FL_IF[c] ELSE @]
  /\ ncli' = [ncli EXCEPT ![c] = @ + 1]

acquire(t, l) ==
  /\ Goto(t, "run", "acq_locked")
  /\ \A m \in held[t] : m < l
  /\ lk' = [lk EXCEPT ![t] = l]
  /\ pushcli(t[1])
  /\ UNCHANGED <<locked, cpu, intr, held>>

\* The result of holding(): acquire() panics if it is TRUE, release() if FALSE.
HoldingIs(t, result) ==
  /\ Running(t)
  /\ \/ /\ pc[t] \in {"acq_locked", "acq_cpu"}
        /\ pc' = [pc EXCEPT ![t] = IF result THEN "panic" ELSE "spin"]
     \/ /\ pc[t] \in {"rel_locked", "rel_cpu"}
        /\ pc' = [pc EXCEPT ![t] = IF result THEN "clear" ELSE "panic"]
  /\ UNCHANGED <<locked, cpu, FL_IF, ncli, intena, intr, lk, held>>

\* holding() reads lock->locked ...
HoldingLocked(t) ==
  \/ pc[t] \in {"acq_locked", "rel_locked"} /\ ~locked[lk[t]] /\ HoldingIs(t, FALSE)
  \/ /\ locked[lk[t]]
     /\ Goto(t, "acq_locked", "acq_cpu") \/ Goto(t, "rel_locked", "rel_cpu")
     /\ UNCHANGED <<locked, cpu, FL_IF, ncli, intena, intr, lk, held>>

\* ... and then lock->cpu.
HoldingCpu(t) ==
  pc[t] \in {"acq_cpu", "rel_cpu"} /\ HoldingIs(t, cpu[lk[t]] = t[1])

XchgNotAtomic(t) ==
  /\ Goto(t, "spin", "own")
  /\ locked' = [locked EXCEPT ![lk[t]] = TRUE]
  /\ UNCHANGED <<cpu, FL_IF, ncli, intena, intr, lk, held>>

\* The xchg that finds the lock free.
Xchg(t) ==
  /\ Goto(t, "spin", "own")
  /\ ~locked[lk[t]]
  /\ locked' = [locked EXCEPT ![lk[t]] = TRUE]
  /\ UNCHANGED <<cpu, FL_IF, ncli, intena, intr, lk, held>>

SetCpu(t) ==
  /\ Goto(t, "own", "run")
  /\ cpu' = [cpu EXCEPT ![lk[t]] = t[1]]
  /\ held' = [held EXCEPT ![t] = @ \cup {lk[t]}]
  /\ UNCHANGED <<locked, FL_IF, ncli, intena, intr, lk>>

release(t, l) ==
  /\ Goto(t, "run", "rel_locked")
  /\ l \in held[t]
  /\ lk' = [lk EXCEPT ![t] = l]
  /\ UNCHANGED <<locked, cpu, FL_IF, ncli, intena, intr, held>>

ClearCpu(t) ==
  /\ Goto(t, "clear", "unlock")
  /\ cpu' = [cpu EXCEPT ![lk[t]] = 0]
  /\ UNCHANGED <<locked, FL_IF, ncli, intena, intr, lk, held>>

Unlock(t) ==
  /\ Goto(t, "unlock", "popcli")
  /\ locked' = [locked EXCEPT ![lk[t]] = FALSE]
  /\ held' = [held EXCEPT ![t] = @ \ {lk[t]}]
  /\ UNCHANGED <<cpu, FL_IF, ncli, intena, intr, lk>>

popcli(t) ==
  LET c == t[1]
  IN /\ Goto(t, "popcli", IF FL_IF[c] \/ ncli[c] < 1 THEN "panic" ELSE "run")
     /\ ncli' = [ncli EXCEPT ![c] = IF FL_IF[c] THEN @ ELSE @ - 1]
     /\ FL_IF' = [FL_IF EXCEPT ![c] = @ \/ (ncli[c] = 1 /\ intena[c])]
     /\ UNCHANGED <<locked, cpu, intena, intr, lk, held>>

\* An interrupt is taken between two instructions if interrupts are enabled; the
\* gate disables them, and iret restores the flag.
Interrupt(c) ==
  /\ FL_IF[c] /\ ~intr[c]
  /\ intr' = [intr EXCEPT ![c] = TRUE]
  /\ FL_IF' = [FL_IF EXCEPT ![c] = FALSE]
  /\ UNCHANGED <<locked, cpu, ncli, intena, pc, lk, held>>

Iret(c) ==
  /\ intr[c] /\ pc[<<c, "intr">>] = "run" /\ held[<<c, "intr">>] = {}
  /\ intr' = [intr EXCEPT ![c] = FALSE]
  /\ FL_IF' = [FL_IF EXCEPT ![c] = TRUE]
  /\ UNCHANGED <<locked, cpu, ncli, intena, pc, lk, held>>

Step(t) ==
  \/ HoldingLocked(t) \/ HoldingCpu(t) \/ Xchg(t) \/ SetCpu(t)
  \/ ClearCpu(t) \/ Unlock(t) \/ popcli(t)

Next ==
  \/ \E t \in Threads : Step(t) \/ \E l \in Locks : acquire(t, l) \/ release(t, l)
  \/ \E c \in CPUs : Interrupt(c) \/ Iret(c)

Spec == Init /\ [][Next]_vars
-----------------------------------------------------------------------------
(***************************************************************************)
(* Properties.                                                             *)
(***************************************************************************)

\* Type invariant: the fields of struct spinlock and struct cpu; ncli counts the
\* locks a CPU holds, interrupted code included, and is never negative.
TypeOK ==
  /\ locked \in [Locks -> BOOLEAN] /\ cpu \in [Locks -> 0..NCPU]
  /\ FL_IF \in [CPUs -> BOOLEAN] /\ ncli \in [CPUs -> Nat]
  /\ intena \in [CPUs -> BOOLEAN] /\ intr \in [CPUs -> BOOLEAN]
  /\ pc \in [Threads -> Places] /\ lk \in [Threads -> Locks]
  /\ held \in [Threads -> SUBSET Locks]

\* Thread t has the lock, from its successful xchg to the store that frees it.
Owns(t, l) == l \in held[t] \/ (pc[t] = "own" /\ lk[t] = l)

\* A spinlock is owned by one thread at a time.
MutualExclusion ==
  \A t, u \in Threads, l \in Locks : (Owns(t, l) /\ Owns(u, l)) => t = u

\* "disable interrupts to avoid deadlock": a thread that owns a spinlock or is
\* spinning for one is not interrupted, so no handler waits for a lock of the
\* code below it on the same CPU.
NotInterrupted ==
  \A t \in Threads : (pc[t] # "run" \/ held[t] # {}) => Running(t)

\* pushcli() and popcli() are matched: when the code below the handler is outside
\* all locks its interrupts are enabled, as they were before it took the first.
InterruptsRestored ==
  \A c \in CPUs : LET t == <<c, "main">> IN
    (~intr[c] /\ pc[t] = "run" /\ held[t] = {}) => (FL_IF[c] /\ ncli[c] = 0)

\* Two threads that take locks in order do not spin for each other: some thread that runs
\* is not waiting for a lock.
SomebodyGoesOn == \E t \in Threads : Running(t) /\ ~(pc[t] = "spin" /\ locked[lk[t]])

\* holding() is right although it reads lk->locked and lk->cpu separately while
\* other CPUs take and free the lock: kernel code that takes its locks in order
\* and releases what it holds runs into none of the panics of acquire(),
\* release() and popcli().
NoPanic == \A t \in Threads : pc[t] # "panic"

\* What acquire() and release() promise: one owner, interrupts off exactly meanwhile, no
\* waiting for each other and no panic.
LockSound ==
  /\ TypeOK /\ MutualExclusion /\ NotInterrupted /\ InterruptsRestored
  /\ SomebodyGoesOn /\ NoPanic
=============================================================================
