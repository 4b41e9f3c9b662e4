------------------------------ MODULE LockOrder ------------------------------
(***************************************************************************)
(* The order in which kernel code takes spinlocks.  A CPU runs one kernel  *)
(* path at a time: the sequence of acquire(), release() and sched() calls  *)
(* that one of the functions below performs, those of the functions it     *)
(* calls included.  An interrupt handler starts only on a CPU that holds   *)
(* no lock (module Spinlock), like a system call.                          *)
(***************************************************************************)
EXTENDS Naturals, Sequences, FiniteSets

CONSTANTS NCPU,    \* number of CPUs
          Paths    \* the kernel paths that are taken

CPUs == 1..NCPU

VARIABLES holder,  \* for each spinlock, the CPU that holds it, or 0
          todo     \* for each CPU, what is left of its path

vars == <<holder, todo>>
-----------------------------------------------------------------------------
Acq(l) == <<[op |-> "acquire", lock |-> l]>>
Rel(l) == <<[op |-> "release", lock |-> l]>>
Sched == <<[op |-> "sched", lock |-> "ptable"]>>

\* wakeup()
wakeup == Acq("ptable") \o Rel("ptable")

sleepKeeps(l) == Acq("ptable") \o Sched \o Rel("ptable")

\* sleep() up to the scheduler's release of ptable.lock, and from the scheduler's
\* next acquire of it on.
sleep(l) == Acq("ptable") \o Rel(l) \o Sched \o Rel("ptable")
SleepReturns(l) == Acq("ptable") \o Rel("ptable") \o Acq(l)

\* kalloc() and kfree()
kalloc == Acq("kmem") \o Rel("kmem")

\* cprintf(), once cons.locking is set
cprintf == Acq("cons") \o Rel("cons")

\* The timer interrupt on CPU 0 (trap.c), and sys_sleep() before, after it sleeps.
timer == Acq("tickslock") \o wakeup \o Rel("tickslock")
sys_sleep == Acq("tickslock") \o sleep("tickslock")
sys_sleep_woken == SleepReturns("tickslock") \o Rel("tickslock")

\* allocproc() reads ticks under tickslock, with ptable.lock held.
allocproc == Acq("ptable") \o Acq("tickslock") \o Rel("tickslock") \o Rel("ptable")

\* print_info() prints with ptable.lock held.
print_info == Acq("ptable") \o cprintf \o Rel("ptable")

consoleintr == Acq("cons") \o wakeup \o Rel("cons")
consoleread == Acq("cons") \o sleep("cons")
consoleread_woken == SleepReturns("cons") \o Rel("cons")

\* exit() and wait(), the latter reaping a child or going to sleep.
exit == Acq("ptable") \o Sched \o Rel("ptable")
wait == Acq("ptable") \o kalloc \o Rel("ptable")

\* A pipe: pipewrite() finds the pipe full, or piperead() finds it empty; pipeclose()
\* of the second end.
pipewrite == Acq("pipe") \o wakeup \o sleep("pipe")
pipewrite_woken == SleepReturns("pipe") \o wakeup \o Rel("pipe")
pipeclose == Acq("pipe") \o wakeup \o Rel("pipe") \o kalloc

\* The log waits and wakes, a disk request waits, the disk interrupt wakes.
begin_op == Acq("log") \o sleep("log")
begin_op_woken == SleepReturns("log") \o Rel("log")
end_op == Acq("log") \o wakeup \o Rel("log")
iderw == Acq("idelock") \o sleep("idelock")
iderw_woken == SleepReturns("idelock") \o Rel("idelock")
ideintr == Acq("idelock") \o wakeup \o Rel("idelock")

\* A waiter of the priority lock allocates a node, the owner frees it.
plock_acquire == Acq("plock") \o kalloc \o sleep("plock")
plock_acquire_woken == SleepReturns("plock") \o Rel("plock")
plock_release == Acq("plock") \o wakeup \o kalloc \o Rel("plock")

\* The spinlock inside a sleeplock, and the one inside an rwlock.
acquiresleep == Acq("sleeplock.lk") \o sleep("sleeplock.lk")
acquiresleep_woken == SleepReturns("sleeplock.lk") \o Rel("sleeplock.lk")
releasesleep == Acq("sleeplock.lk") \o wakeup \o Rel("sleeplock.lk")
rwlock_acquire == Acq("rwlock.lk") \o sleep("rwlock.lk")
rwlock_acquire_woken == SleepReturns("rwlock.lk") \o Rel("rwlock.lk")
rwlock_release == Acq("rwlock.lk") \o wakeup \o Rel("rwlock.lk")

KernelPath ==
  [timer |-> timer, sys_sleep |-> sys_sleep, sys_sleep_woken |-> sys_sleep_woken,
   allocproc |-> allocproc, print_info |-> print_info, cprintf |-> cprintf,
   consoleintr |-> consoleintr, consoleread |-> consoleread,
   consoleread_woken |-> consoleread_woken, exit |-> exit, wait |-> wait,
   pipewrite |-> pipewrite, pipewrite_woken |-> pipewrite_woken,
   pipeclose |-> pipeclose, begin_op |-> begin_op, begin_op_woken |-> begin_op_woken,
   end_op |-> end_op, iderw |-> iderw, iderw_woken |-> iderw_woken,
   ideintr |-> ideintr, plock_acquire |-> plock_acquire,
   plock_acquire_woken |-> plock_acquire_woken, plock_release |-> plock_release,
   acquiresleep |-> acquiresleep, acquiresleep_woken |-> acquiresleep_woken,
   releasesleep |-> releasesleep, rwlock_acquire |-> rwlock_acquire,
   rwlock_acquire_woken |-> rwlock_acquire_woken, rwlock_release |-> rwlock_release]

Locks == {"ptable", "tickslock", "cons", "kmem", "pipe", "log", "idelock", "plock",
          "sleeplock.lk", "rwlock.lk"}
-----------------------------------------------------------------------------
Init == holder = [l \in Locks |-> 0] /\ todo = [c \in CPUs |-> <<>>]

\* A CPU enters a path; only CPU 1 (cpuid() 0) counts ticks.
Enter(c, path) ==
  /\ todo[c] = <<>>
  /\ path = "timer" => c = 1
  /\ todo' = [todo EXCEPT ![c] = KernelPath[path]]
  /\ UNCHANGED holder

At(c, op) == todo[c] # <<>> /\ Head(todo[c]).op = op

Advance(c) == todo' = [todo EXCEPT ![c] = Tail(@)]

\* acquire() spins until the lock is free.
Acquire(c) ==
  /\ At(c, "acquire")
  /\ LET l == Head(todo[c]).lock IN
     holder[l] = 0 /\ holder' = [holder EXCEPT ![l] = c]
  /\ Advance(c)

Release(c) ==
  /\ At(c, "release")
  /\ holder' = [holder EXCEPT ![Head(todo[c]).lock] = 0]
  /\ Advance(c)

\* sched(): the CPU goes on in the scheduler with ptable.lock held.
Switch(c) == At(c, "sched") /\ Advance(c) /\ UNCHANGED holder

Next == \E c \in CPUs : \/ \E path \in Paths : Enter(c, path)
                        \/ Acquire(c) \/ Release(c) \/ Switch(c)

Spec == Init /\ [][Next]_vars
-----------------------------------------------------------------------------
(***************************************************************************)
(* Properties.                                                             *)
(***************************************************************************)

\* Type invariant, with what release() insists on: a CPU releases only what it holds.
TypeOK ==
  /\ holder \in [Locks -> 0..NCPU]
  /\ \A c \in CPUs : At(c, "release") => holder[Head(todo[c]).lock] = c

WaitsFor(c, d) == At(c, "acquire") /\ holder[Head(todo[c]).lock] = d

\* acquire() "Loops (spins) until the lock is acquired", which must not be forever:
\* no CPUs spin for locks that only they hold.
Circular(S) == S # {} /\ \A c \in S : \E d \in S : WaitsFor(c, d)
NoCircularWait == ~ \E S \in SUBSET CPUs : Circular(S)

\* Kernel code runs into no panic of release() and sched(): it releases only what it
\* holds, and calls sched() with ptable.lock and no other spinlock, sleep() having given
\* up the lock it was passed on every path.  And the only locks over which CPUs wait in a
\* circle are ptable.lock with one of the two that allocproc() and print_info() take
\* inside it, tickslock and cons.lock: all other code keeps ptable.lock innermost, but for
\* kmem.lock.
OrderSound ==
  /\ TypeOK
  /\ \A c \in CPUs : At(c, "sched") => {l \in Locks : holder[l] = c} = {"ptable"}
  /\ \A S \in SUBSET CPUs : Circular(S) =>
       {Head(todo[c]).lock : c \in S} \in {{"ptable", "tickslock"}, {"ptable", "cons"}}
=============================================================================
