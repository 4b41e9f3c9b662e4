-------------------------------- MODULE Proc --------------------------------
(***************************************************************************)
(* The process table, the per-core run queues and the scheduler of the     *)
(* kernel (proc.c, and the parts of trap.c that enter it).                 *)
(*                                                                         *)
(* Everything that touches a process's state happens with ptable.lock      *)
(* held, so one critical section of ptable.lock is one action.  In         *)
(* particular the scheduler takes the lock, picks a process and switches   *)
(* to it, and the lock is released by that process: picking a process and  *)
(* what it does before releasing the lock are one action; giving up the    *)
(* CPU (state change, sched(), c->proc = 0) is one action too.             *)
(***************************************************************************)
EXTENDS Integers, Sequences, FiniteSets

CONSTANTS
  NPROC,              \* slots of ptable.proc
  NCPU,               \* CPUs that have been started
  RR_QUANTUM_TICKS,   \* time slice on an E-core, in timer interrupts
  TickWrap,           \* number of values of the counter ticks (2^32 in the code)
  Chans,              \* sleep channels other than the address of a struct proc
  TickChan,           \* the channel &ticks
  MaxPid,             \* bound: no process is created with a pid above it
  KillPids,           \* the arguments programs give to kill()
  Calls               \* what programs do: see Programs

\* What the programs of an instance do besides computing and making system calls
\* that neither sleep nor touch the process table.
Programs == {"fork", "exit", "wait", "sleep", "kill", "fault", "measure"}

ASSUME ProcAssumption ==
  /\ NPROC \in Nat \ {0} /\ NCPU \in Nat \ {0}
  /\ RR_QUANTUM_TICKS \in Nat \ {0} /\ TickWrap \in Nat \ {0}
  /\ MaxPid \in Nat /\ KillPids \subseteq Int /\ Calls \subseteq Programs
  /\ TickChan \in Chans /\ Chans \cap (0..NPROC) = {}

\* A slot number stands for &ptable.proc[i], and 0 for the null pointer.
Slots == 1..NPROC
CPUs  == 0..NCPU-1
initproc == 1

\* The run queues of processes of S, and the processes on a run queue.
Lists(S) == UNION {[1..n -> S] : n \in 0..NPROC}
Members(queue) == {queue[i] : i \in DOMAIN queue}

\* mpmain gives even CPUs core type CORE_E and odd ones CORE_P.
ECores == {c \in CPUs : c % 2 = 0}
PCores == CPUs \ ECores

VARIABLES
  state, pid, parent, chan, killed, ctime, etime, slice_ticks,  \* struct proc
  ctx,            \* where the process is: in user code, or in which kernel code
  np,             \* the child slot a process inside fork() is filling, or 0
  cpu_proc,       \* struct cpu: proc
  runq,           \* struct cpu: runq, the list as a sequence
  queue_count,    \* struct cpu: queue_count
  timer0,         \* CPU 0 is between its tick and the rest of its timer trap
  ticks, nextpid, metrics_active, metrics_start_tick, metrics_proc_completed

procVars  == <<pid, parent, ctime, np>>
queueVars == <<runq, queue_count>>
metricVars == <<etime, metrics_active, metrics_start_tick, metrics_proc_completed>>
vars == <<state, pid, parent, chan, killed, ctime, etime, slice_ticks, ctx, np, cpu_proc,
          runq, queue_count, timer0, ticks, nextpid, metrics_active, metrics_start_tick,
          metrics_proc_completed>>

States == {"UNUSED", "EMBRYO", "SLEEPING", "RUNNABLE", "RUNNING", "ZOMBIE"}

\* user: user code; kern: in a system call; fork: in fork() after allocproc();
\* wait: asleep in wait(); ret: about to return to user code, the check of
\* p->killed still to come; exit: in exit(), before it takes ptable.lock;
\* panic: in panic(), the CPU has stopped.
Contexts == {"user", "kern", "fork", "wait", "ret", "exit", "panic"}

\* What the programs and the kernel boot have done once userinit() is over:
\* the first process is on the run queue of the least loaded E-core.
Init ==
  /\ state = [p \in Slots |-> IF p = initproc THEN "RUNNABLE" ELSE "UNUSED"]
  /\ pid = [p \in Slots |-> IF p = initproc THEN 1 ELSE 0]
  /\ parent = [p \in Slots |-> 0]
  /\ chan = [p \in Slots |-> 0]
  /\ killed = [p \in Slots |-> FALSE]
  /\ ctime = [p \in Slots |-> 0]
  /\ etime = [p \in Slots |-> 0]
  /\ slice_ticks = [p \in Slots |-> 0]
  /\ ctx = [p \in Slots |-> "user"]
  /\ np = [p \in Slots |-> 0]
  /\ cpu_proc = [c \in CPUs |-> 0]
  /\ runq = [c \in CPUs |-> IF c = 0 THEN <<initproc>> ELSE <<>>]
  /\ queue_count = [c \in CPUs |-> IF c = 0 THEN 1 ELSE 0]
  /\ timer0 = FALSE
  /\ ticks = 0
  /\ nextpid = 2
  /\ metrics_active = FALSE
  /\ metrics_start_tick = 0
  /\ metrics_proc_completed = 0
-----------------------------------------------------------------------------
(***************************************************************************)
(* Run queues.                                                             *)
(***************************************************************************)

\* The core a scan of cpus[] for the smallest load stops at: the first of the
\* lightest ones.
FirstLightest(cores, load, c) ==
  /\ c \in cores
  /\ \A d \in cores : load[c] < load[d] \/ (load[c] = load[d] /\ c <= d)

get_least_loaded_e_core(c) == FirstLightest(ECores, queue_count, c)
get_lightest_p_core(c) == FirstLightest(PCores, queue_count, c)

enqueueFront(c, p) ==
  /\ runq' = [runq EXCEPT ![c] = <<p>> \o @]
  /\ queue_count' = [queue_count EXCEPT ![c] = @ + 1]

enqueueLost(c, p) == UNCHANGED <<runq, queue_count>>

enqueue(c, p) ==
  /\ runq' = [runq EXCEPT ![c] = Append(@, p)]
  /\ queue_count' = [queue_count EXCEPT ![c] = @ + 1]

\* wakeup1() called for one channel and then for another wakes the processes of
\* `first`, then those of `second`, each set in table order ...
Before(first, p, q) ==
  IF p \in first THEN (q \in first => p < q) ELSE (q \notin first /\ p < q)

\* ... puts each of them on the E-core that is least loaded at that moment ...
PlacedInTurn(first, woken, place) ==
  \A p \in woken :
    LET load == [d \in ECores |->
          queue_count[d] + Cardinality({q \in woken : place[q] = d /\ Before(first, q, p)})]
    IN FirstLightest(ECores, load, place[p])

\* ... and so adds to the queue of each E-core its share, in the order of waking.
AddedInTurn(first, woken, place, added) ==
  \A c \in ECores :
    /\ Members(added[c]) = {p \in woken : place[p] = c}
    /\ \A i, j \in DOMAIN added[c] : i < j => Before(first, added[c][i], added[c][j])

EnqueueWoken(first, second) ==
  LET woken == first \cup second
  IN \E place \in [woken -> ECores] :
     \E added \in [ECores -> Lists(woken)] :
       /\ PlacedInTurn(first, woken, place)
       /\ AddedInTurn(first, woken, place, added)
       /\ runq' = [c \in CPUs |-> IF c \in ECores THEN runq[c] \o added[c] ELSE runq[c]]
       /\ queue_count' = [c \in CPUs |-> IF c \in ECores
                                         THEN queue_count[c] + Len(added[c])
                                         ELSE queue_count[c]]

SleepersElsewhere(ch) == {p \in Slots : state[p] = "SLEEPING" /\ chan[p] # ch}

SleepersOn(ch) == {p \in Slots : state[p] = "SLEEPING" /\ chan[p] = ch}

wakeup1(ch) ==
  /\ state' = [p \in Slots |-> IF p \in SleepersOn(ch) THEN "RUNNABLE" ELSE state[p]]
  /\ EnqueueWoken(SleepersOn(ch), {})
-----------------------------------------------------------------------------
(***************************************************************************)
(* The process running on a CPU.                                           *)
(***************************************************************************)

\* Process p runs on CPU c at `where`, and c is not inside its timer trap.
At(c, p, where) ==
  /\ cpu_proc[c] = p /\ p # 0 /\ ctx[p] = where
  /\ ~(c = 0 /\ timer0)

\* exit() panics in the first process before anything else.
ExitContext(p) == IF p = initproc THEN "panic" ELSE "exit"

\* T_SYSCALL: trap() first checks p->killed, then calls syscall().
Syscall(c, p) ==
  /\ At(c, p, "user")
  /\ ctx' = [ctx EXCEPT ![p] = IF killed[p] THEN ExitContext(p) ELSE "kern"]
  /\ UNCHANGED <<state, chan, killed, slice_ticks, cpu_proc, timer0, ticks, nextpid,
                 procVars, queueVars, metricVars>>

\* A system call other than fork, wait, kill is over.
SyscallDone(c, p) ==
  /\ At(c, p, "kern")
  /\ ctx' = [ctx EXCEPT ![p] = "ret"]
  /\ UNCHANGED <<state, chan, killed, slice_ticks, cpu_proc, timer0, ticks, nextpid,
                 procVars, queueVars, metricVars>>

TrapReturnUnchecked(c, p) ==
  /\ At(c, p, "ret")
  /\ ctx' = [ctx EXCEPT ![p] = "user"]
  /\ UNCHANGED <<state, chan, killed, slice_ticks, cpu_proc, timer0, ticks, nextpid,
                 procVars, queueVars, metricVars>>

\* The last check of p->killed on the way back to user code.
TrapReturn(c, p) ==
  /\ At(c, p, "ret")
  /\ ctx' = [ctx EXCEPT ![p] = IF killed[p] THEN ExitContext(p) ELSE "user"]
  /\ UNCHANGED <<state, chan, killed, slice_ticks, cpu_proc, timer0, ticks, nextpid,
                 procVars, queueVars, metricVars>>

\* An exception in user code kills the process that caused it.
Fault(c, p) ==
  /\ "fault" \in Calls /\ At(c, p, "user")
  /\ killed' = [killed EXCEPT ![p] = TRUE]
  /\ ctx' = [ctx EXCEPT ![p] = ExitContext(p)]
  /\ UNCHANGED <<state, chan, slice_ticks, cpu_proc, timer0, ticks, nextpid,
                 procVars, queueVars, metricVars>>

\* The slot allocproc() stops at.
FirstUnused(n) == state[n] = "UNUSED" /\ \A q \in 1..n-1 : state[q] # "UNUSED"

NextPid == nextpid + 1

\* allocproc() in fork(): the first UNUSED slot becomes the child, if any is.
ForkAlloc(c, p) ==
  /\ "fork" \in Calls /\ At(c, p, "kern")
  /\ \/ \E n \in Slots :
          /\ FirstUnused(n) /\ nextpid <= MaxPid
          /\ state' = [state EXCEPT ![n] = "EMBRYO"]
          /\ pid' = [pid EXCEPT ![n] = nextpid]
          /\ nextpid' = NextPid
          /\ ctime' = [ctime EXCEPT ![n] = ticks]
          /\ etime' = [etime EXCEPT ![n] = 0]
          /\ slice_ticks' = [slice_ticks EXCEPT ![n] = 0]
          /\ np' = [np EXCEPT ![p] = n]
          /\ ctx' = [ctx EXCEPT ![p] = "fork"]
     \/ /\ \A q \in Slots : state[q] # "UNUSED"
        /\ ctx' = [ctx EXCEPT ![p] = "ret"]
        /\ UNCHANGED <<state, pid, nextpid, ctime, etime, slice_ticks, np>>
  /\ UNCHANGED <<parent, chan, killed, cpu_proc, timer0, ticks, queueVars, metrics_active,
                 metrics_start_tick, metrics_proc_completed>>

\* No page for the kernel stack or the child's memory: the slot is given back,
\* with a plain store, its pid and its killed flag left as they are.
ForkFail(c, p) ==
  /\ At(c, p, "fork")
  /\ state' = [state EXCEPT ![np[p]] = "UNUSED"]
  /\ np' = [np EXCEPT ![p] = 0]
  /\ ctx' = [ctx EXCEPT ![p] = "ret"]
  /\ UNCHANGED <<pid, parent, chan, killed, ctime, slice_ticks, cpu_proc, timer0,
                 ticks, nextpid, queueVars, metricVars>>

\* The child, which will start at forkret, goes to the least loaded E-core.
ForkDone(c, p) ==
  /\ At(c, p, "fork")
  /\ parent' = [parent EXCEPT ![np[p]] = p]
  /\ state' = [state EXCEPT ![np[p]] = "RUNNABLE"]
  /\ \E e \in CPUs : get_least_loaded_e_core(e) /\ enqueue(e, np[p])
  /\ np' = [np EXCEPT ![p] = 0]
  /\ ctx' = [ctx EXCEPT ![p] = "ret", ![np[p]] = "user"]
  /\ UNCHANGED <<pid, chan, killed, ctime, slice_ticks, cpu_proc, timer0, ticks,
                 nextpid, metricVars>>

\* The exit() system call; files are closed, which may sleep, before exit()
\* takes ptable.lock.
ExitCall(c, p) ==
  /\ "exit" \in Calls /\ At(c, p, "kern")
  /\ ctx' = [ctx EXCEPT ![p] = ExitContext(p)]
  /\ UNCHANGED <<state, chan, killed, slice_ticks, cpu_proc, timer0, ticks, nextpid,
                 procVars, queueVars, metricVars>>

NobodyReparented(p) == parent

\* The parents once exit() has passed the children of p to init.
Reparented(p) == [k \in Slots |-> IF parent[k] = p THEN initproc ELSE parent[k]]

\* exit() wakes init if it gets a zombie.
InitWoken(p) == IF \E k \in Slots : parent[k] = p /\ state[k] = "ZOMBIE"
                THEN SleepersOn(initproc) ELSE {}

Completed == IF metrics_active THEN metrics_proc_completed + 1 ELSE metrics_proc_completed

\* exit() with ptable.lock held: wake the parent, pass the children to init and
\* wake it if one of them is a zombie, become a zombie and leave the CPU.
Exit(c, p) ==
  LET first  == SleepersOn(parent[p])
      second == InitWoken(p)
  IN /\ At(c, p, "exit")
     /\ state' = [q \in Slots |-> IF q = p THEN "ZOMBIE"
                                  ELSE IF q \in first \cup second THEN "RUNNABLE"
                                  ELSE state[q]]
     /\ EnqueueWoken(first, second)
     /\ parent' = Reparented(p)
     /\ ctx' = [ctx EXCEPT ![p] = "user"]
     /\ cpu_proc' = [cpu_proc EXCEPT ![c] = 0]
     /\ etime' = [etime EXCEPT ![p] = ticks]
     /\ metrics_proc_completed' = Completed
     /\ UNCHANGED <<pid, chan, killed, ctime, slice_ticks, np, timer0, ticks, nextpid,
                    metrics_active, metrics_start_tick>>

SleepOnCpu(c, p, ch) ==
  /\ "sleep" \in Calls
  /\ At(c, p, "kern") \/ At(c, p, "exit")
  /\ state' = [state EXCEPT ![p] = "SLEEPING"]
  /\ chan' = [chan EXCEPT ![p] = ch]
  /\ UNCHANGED <<killed, slice_ticks, ctx, cpu_proc, timer0, ticks, nextpid, procVars,
                 queueVars, metricVars>>

\* sleep() called by kernel code in a system call or in exit().  Besides the
\* channels of the devices and pipes there is the process's own address, on
\* which plock_acquire() sleeps.
Sleep(c, p, ch) ==
  /\ "sleep" \in Calls
  /\ At(c, p, "kern") \/ At(c, p, "exit")
  /\ state' = [state EXCEPT ![p] = "SLEEPING"]
  /\ chan' = [chan EXCEPT ![p] = ch]
  /\ cpu_proc' = [cpu_proc EXCEPT ![c] = 0]
  /\ UNCHANGED <<killed, slice_ticks, ctx, timer0, ticks, nextpid, procVars, queueVars,
                 metricVars>>

\* wakeup() called by kernel code or an interrupt handler on some CPU; one that
\* finds nobody asleep on the channel changes nothing.
Wakeup(ch) ==
  /\ SleepersOn(ch) # {}
  /\ \E c \in CPUs : cpu_proc[c] # 0 => ctx[cpu_proc[c]] # "panic"
  /\ wakeup1(ch)
  /\ UNCHANGED <<chan, killed, slice_ticks, ctx, cpu_proc, timer0, ticks, nextpid,
                 procVars, metricVars>>

\* kill() marks the first slot with that pid, whatever its state.  A sleeper
\* becomes RUNNABLE and is put on no run queue.
Kill(c, p, target) ==
  /\ "kill" \in Calls /\ At(c, p, "kern")
  /\ ctx' = [ctx EXCEPT ![p] = "ret"]
  /\ \/ \E q \in Slots :
          /\ pid[q] = target /\ \A r \in 1..q-1 : pid[r] # target
          /\ killed' = [killed EXCEPT ![q] = TRUE]
          /\ state' = [state EXCEPT ![q] = IF @ = "SLEEPING" THEN "RUNNABLE" ELSE @]
     \/ /\ \A q \in Slots : pid[q] # target
        /\ UNCHANGED <<killed, state>>
  /\ UNCHANGED <<chan, slice_ticks, cpu_proc, timer0, ticks, nextpid, procVars,
                 queueVars, metricVars>>

start_measure(c, p) ==
  /\ "measure" \in Calls /\ At(c, p, "kern")
  /\ metrics_active' = TRUE
  /\ metrics_start_tick' = ticks
  /\ metrics_proc_completed' = 0
  /\ ctx' = [ctx EXCEPT ![p] = "ret"]
  /\ UNCHANGED <<state, chan, killed, slice_ticks, cpu_proc, timer0, ticks, nextpid,
                 procVars, queueVars, etime>>

end_measure(c, p) ==
  /\ "measure" \in Calls /\ At(c, p, "kern")
  /\ metrics_active' = FALSE
  /\ ctx' = [ctx EXCEPT ![p] = "ret"]
  /\ UNCHANGED <<state, chan, killed, slice_ticks, cpu_proc, timer0, ticks, nextpid,
                 procVars, queueVars, etime, metrics_start_tick,
                 metrics_proc_completed>>
-----------------------------------------------------------------------------
(***************************************************************************)
(* wait() and the scheduler.                                               *)
(***************************************************************************)

\* One turn of wait()'s loop, on CPU c with ptable.lock held: reap the first
\* zombie child, or give up, or sleep.
WaitTurn(c, p) ==
  LET children == {k \in Slots : parent[k] = p}
      zombies  == {k \in children : state[k] = "ZOMBIE"}
      Return   == /\ chan' = [chan EXCEPT ![p] = 0]
                  /\ ctx' = [ctx EXCEPT ![p] = "ret"]
                  /\ cpu_proc' = [cpu_proc EXCEPT ![c] = p]
  IN \/ /\ Return
        /\ \E k \in zombies :
             /\ \A z \in zombies : k <= z
             /\ state' = [state EXCEPT ![p] = "RUNNING", ![k] = "UNUSED"]
             /\ pid' = [pid EXCEPT ![k] = 0]
             /\ parent' = [parent EXCEPT ![k] = 0]
             /\ killed' = [killed EXCEPT ![k] = FALSE]
     \/ /\ Return
        /\ zombies = {} /\ (children = {} \/ killed[p])
        /\ state' = [state EXCEPT ![p] = "RUNNING"]
        /\ UNCHANGED <<pid, parent, killed>>
     \/ /\ zombies = {} /\ children # {} /\ ~killed[p]
        /\ state' = [state EXCEPT ![p] = "SLEEPING"]
        /\ chan' = [chan EXCEPT ![p] = p]
        /\ ctx' = [ctx EXCEPT ![p] = "wait"]
        /\ cpu_proc' = [cpu_proc EXCEPT ![c] = 0]
        /\ UNCHANGED <<pid, parent, killed>>

Wait(c, p) ==
  /\ "wait" \in Calls /\ At(c, p, "kern")
  /\ WaitTurn(c, p)
  /\ UNCHANGED <<ctime, np, slice_ticks, timer0, ticks, nextpid, queueVars, metricVars>>

ChosenInOrder(c, queue, i) ==
  /\ i \in DOMAIN queue /\ state[queue[i]] = "RUNNABLE"
  /\ \A j \in DOMAIN queue : (j # i /\ state[queue[j]] = "RUNNABLE") => i < j

\* The position in a run queue that the scheduler of CPU c stops at: on an
\* E-core the first RUNNABLE process, on a P-core the RUNNABLE process with the
\* smallest ctime, the first one if several have it.
Chosen(c, queue, i) ==
  /\ i \in DOMAIN queue /\ state[queue[i]] = "RUNNABLE"
  /\ \A j \in DOMAIN queue :
       (j # i /\ state[queue[j]] = "RUNNABLE") =>
         IF c \in ECores THEN i < j
         ELSE \/ ctime[queue[i]] < ctime[queue[j]]
              \/ ctime[queue[i]] = ctime[queue[j]] /\ i < j

dequeue(queue, i) ==
  [j \in 1..Len(queue)-1 |-> IF j < i THEN queue[j] ELSE queue[j+1]]

\* The rest of scheduler()'s loop once the run queues are rq and their counts
\* qc: dequeue the chosen process and run it until it releases ptable.lock.
Dispatch(c, rq, qc) ==
  \E i \in DOMAIN rq[c] :
    LET p == rq[c][i]
    IN /\ Chosen(c, rq[c], i)
       /\ runq' = [rq EXCEPT ![c] = dequeue(@, i)]
       /\ queue_count' = [qc EXCEPT ![c] = @ - 1]
       /\ slice_ticks' = [slice_ticks EXCEPT ![p] = 0]
       /\ \/ ctx[p] = "wait" /\ WaitTurn(c, p)
          \/ /\ ctx[p] # "wait"
             /\ state' = [state EXCEPT ![p] = "RUNNING"]
             /\ chan' = [chan EXCEPT ![p] = 0]
             /\ cpu_proc' = [cpu_proc EXCEPT ![c] = p]
             /\ UNCHANGED <<pid, parent, killed, ctx>>

AnyLonger(c, l) == queue_count[c] >= queue_count[l] + 1

\* E-core c is overloaded with respect to P-core l.
Overloaded(c, l) == queue_count[c] >= queue_count[l] + 3

\* load_balance() on CPU c moves the process at position v of its run queue to
\* P-core l: the first one with a pid above 2.
Pushes(c, v, l) ==
  /\ c \in ECores /\ get_lightest_p_core(l)
  /\ Overloaded(c, l)
  /\ v \in DOMAIN runq[c]
  /\ state[runq[c][v]] = "RUNNABLE" /\ pid[runq[c][v]] > 2
  /\ \A j \in 1..v-1 : ~(state[runq[c][j]] = "RUNNABLE" /\ pid[runq[c][j]] > 2)

\* One turn of the scheduler's loop on an idle CPU.
Schedule(c) ==
  LET push(v, l) == ticks % 5 = 0 /\ Pushes(c, v, l)
  IN /\ cpu_proc[c] = 0
     /\ \/ /\ \A v \in DOMAIN runq[c], l \in CPUs : ~push(v, l)
           /\ Dispatch(c, runq, queue_count)
        \/ \E v \in DOMAIN runq[c], l \in CPUs :
             /\ push(v, l)
             /\ Dispatch(c,
                  [runq EXCEPT ![c] = dequeue(@, v), ![l] = Append(@, runq[c][v])],
                  [queue_count EXCEPT ![c] = @ - 1, ![l] = @ + 1])
     /\ UNCHANGED <<ctime, np, timer0, ticks, nextpid, metricVars>>
-----------------------------------------------------------------------------
(***************************************************************************)
(* The timer interrupt.                                                    *)
(***************************************************************************)

\* CPU 0 counts the tick and wakes the processes in sys_sleep(), whatever it
\* was doing; the rest of its trap follows if it was running a process.
Tick ==
  /\ ~timer0
  /\ cpu_proc[0] # 0 => ctx[cpu_proc[0]] # "panic"
  /\ ticks' = (ticks + 1) % TickWrap
  /\ wakeup1(TickChan)
  /\ timer0' = (cpu_proc[0] # 0)
  /\ UNCHANGED <<chan, killed, slice_ticks, ctx, cpu_proc, nextpid, procVars, metricVars>>

YieldsLate(c, p) == c \in ECores => slice_ticks[p] >= RR_QUANTUM_TICKS

\* The tick just charged to p ends its turn: its slice on an E-core is used up,
\* and a P-core yields at every tick.
Yields(c, p) == c \in ECores => slice_ticks[p] + 1 >= RR_QUANTUM_TICKS

\* The part of the trap every CPU runs when it interrupted process p: charge
\* the tick to p; exit if p was killed and in user code; give up the CPU if the
\* slice is used up (E-core) or always (P-core).  What was interrupted in user
\* code has one more check of p->killed to pass.
TimerTrap(c, p) ==
  LET dies   == killed[p] /\ ctx[p] = "user"
      yields == ~dies /\ Yields(c, p)
  IN /\ cpu_proc[c] = p /\ p # 0 /\ ctx[p] # "panic"
     /\ c = 0 => timer0
     /\ timer0' = IF c = 0 THEN FALSE ELSE timer0
     /\ ctx' = [ctx EXCEPT ![p] = IF dies THEN ExitContext(p)
                                  ELSE IF @ = "user" THEN "ret" ELSE @]
     /\ slice_ticks' = [slice_ticks EXCEPT ![p] =
                          IF yields /\ c \in ECores THEN 0 ELSE slice_ticks[p] + 1]
     /\ \/ /\ yields
           /\ state' = [state EXCEPT ![p] = "RUNNABLE"]
           /\ enqueue(c, p)
           /\ cpu_proc' = [cpu_proc EXCEPT ![c] = 0]
        \/ ~yields /\ UNCHANGED <<state, runq, queue_count, cpu_proc>>
     /\ UNCHANGED <<chan, killed, ticks, nextpid, procVars, metricVars>>
-----------------------------------------------------------------------------
Step(c, p) ==
  \/ Syscall(c, p) \/ SyscallDone(c, p) \/ TrapReturn(c, p) \/ Fault(c, p)
  \/ ForkAlloc(c, p) \/ ForkFail(c, p) \/ ForkDone(c, p)
  \/ ExitCall(c, p) \/ Exit(c, p) \/ Wait(c, p)
  \/ \E ch \in (Chans \cup {p}) : Sleep(c, p, ch)
  \/ \E target \in KillPids : Kill(c, p, target)
  \/ start_measure(c, p) \/ end_measure(c, p)
  \/ TimerTrap(c, p)

Next ==
  \/ \E c \in CPUs, p \in Slots : Step(c, p)
  \/ \E c \in CPUs : Schedule(c)
  \/ \E ch \in (Chans \cup Slots) : Wakeup(ch)
  \/ Tick

Spec == Init /\ [][Next]_vars

\* The timer keeps interrupting every CPU, and a CPU that finds a process on its
\* run queue runs it.
Fairness ==
  /\ WF_vars(Tick)
  /\ \A c \in CPUs : /\ WF_vars(Schedule(c))
                     /\ WF_vars(\E p \in Slots : TimerTrap(c, p))

FairSpec == Spec /\ Fairness
-----------------------------------------------------------------------------
(***************************************************************************)
(* Properties.                                                             *)
(***************************************************************************)

\* Type invariant: every field of struct proc and struct cpu holds a value of
\* its type, a channel is one of the kernel's or the sleeper's own address.
TypeOK ==
  /\ state \in [Slots -> States]
  /\ pid \in [Slots -> Nat]
  /\ parent \in [Slots -> 0..NPROC]
  /\ chan \in [Slots -> Chans \cup (0..NPROC)]
  /\ killed \in [Slots -> BOOLEAN]
  /\ ctime \in [Slots -> Nat]
  /\ slice_ticks \in [Slots -> Nat]
  /\ ctx \in [Slots -> Contexts]
  /\ np \in [Slots -> 0..NPROC]
  /\ cpu_proc \in [CPUs -> 0..NPROC]
  /\ runq \in [CPUs -> Seq(Slots)]
  /\ queue_count \in [CPUs -> Int]
  /\ timer0 \in BOOLEAN
  /\ ticks \in Nat
  /\ nextpid \in Nat
  /\ etime \in [Slots -> Nat]
  /\ metrics_active \in BOOLEAN
  /\ metrics_start_tick \in Nat
  /\ metrics_proc_completed \in Nat

\* enqueue() and dequeue() keep every run queue a list of RUNNABLE processes
\* in which no process occurs twice, and no process is on two queues: the
\* linked list through p->next_run has one owner.
QueuesDisjoint ==
  \A c, d \in CPUs : \A i \in DOMAIN runq[c], j \in DOMAIN runq[d] :
    /\ state[runq[c][i]] = "RUNNABLE"
    /\ runq[c][i] = runq[d][j] => (c = d /\ i = j)

\* queue_count, which fork(), wakeup1() and load_balance() compare, is the
\* length of the run queue.
CountsRight == \A c \in CPUs : queue_count[c] = Len(runq[c])

\* No process is lost: a RUNNABLE process that has not been killed is on the run
\* queue of some CPU, where a scheduler can find it.
RunnableQueued ==
  \A p \in Slots : (state[p] = "RUNNABLE" /\ ~killed[p]) =>
                     \E c \in CPUs : \E i \in DOMAIN runq[c] : runq[c][i] = p

\* A scheduler finds exactly the processes that are to run, each of them once.
QueuesSound == TypeOK /\ QueuesDisjoint /\ CountsRight /\ RunnableQueued

\* A process is RUNNING iff it is the current process of a CPU, and then of one
\* CPU only: two CPUs never run on the same kernel stack.
RunsOnOneCpu ==
  /\ \A c \in CPUs : cpu_proc[c] # 0 => state[cpu_proc[c]] = "RUNNING"
  /\ \A c, d \in CPUs : (cpu_proc[c] # 0 /\ cpu_proc[c] = cpu_proc[d]) => c = d
  /\ \A p \in Slots : state[p] = "RUNNING" => \E c \in CPUs : cpu_proc[c] = p

\* Two processes never have the same pid, the first one keeps pid 1, and
\* nextpid is above all of them, also above the pids failed forks left behind.
PidsUnique ==
  /\ \A p \in Slots : pid[p] < nextpid
  /\ \A p, q \in Slots : (p # q /\ pid[p] = pid[q]) => pid[p] = 0
  /\ pid[initproc] = 1

\* The parent of a process has neither exited nor been reaped: exit() hands the
\* children over to init, so every zombie has somebody to reap it.
ParentAlive ==
  \A p \in Slots :
    /\ parent[p] # 0 => state[parent[p]] \notin {"UNUSED", "EMBRYO", "ZOMBIE"}
    /\ (p # initproc /\ state[p] \notin {"UNUSED", "EMBRYO"}) => parent[p] # 0

\* No wakeup is lost between exit() and wait(): a process asleep in wait() has
\* no zombie child, whether its own or one inherited from an exited child.
NoMissedExit ==
  \A p, k \in Slots : (state[p] = "SLEEPING" /\ ctx[p] = "wait" /\ parent[k] = p)
                        => state[k] # "ZOMBIE"

\* A slot that fork() is filling belongs to one forking process and stays out of
\* everybody else's hands until fork() is done with it.
EmbryoOwned ==
  /\ \A p \in Slots : ctx[p] = "fork" => (np[p] # 0 /\ state[np[p]] = "EMBRYO")
  /\ \A p, q \in Slots : (ctx[p] = "fork" /\ ctx[q] = "fork" /\ np[p] = np[q]) => p = q

\* A process's place in the kernel fits its state: only a live process is inside
\* the kernel, only kernel code that can sleep sleeps, a sleeper in wait() sleeps
\* on its own address, a slot without a process has no parent, and nobody is its
\* own parent.
LifeCycle ==
  \A p \in Slots :
    /\ ctx[p] # "user" => state[p] \in {"RUNNABLE", "RUNNING", "SLEEPING"}
    /\ state[p] = "SLEEPING" => ctx[p] \in {"kern", "exit", "wait"}
    /\ ctx[p] = "wait" => state[p] # "RUNNING"
    /\ (state[p] = "SLEEPING" /\ ctx[p] = "wait") => chan[p] = p
    /\ state[p] \in {"UNUSED", "EMBRYO"} => parent[p] = 0
    /\ parent[p] # p

\* The first process, to which exit() passes every orphan, is always there to
\* take them: it neither exits nor is it anybody's child.
InitAlive ==
  /\ state[initproc] \in {"RUNNABLE", "RUNNING", "SLEEPING"}
  /\ parent[initproc] = 0 /\ ctx[initproc] # "exit"

\* The table is a family: fork(), exit() and wait() keep every slot in the life cycle of
\* a process, with a pid of its own, below a live parent, and below init in the end.
FamilySound == PidsUnique /\ ParentAlive /\ EmbryoOwned /\ LifeCycle /\ InitAlive

\* A waiting process changes queue only when load_balance() pushes it from an
\* E-core to a P-core, and even after the E-core has then taken its next process
\* the P-core's queue is not the longer one; pids 1 and 2 stay where they are.
PushBalances ==
  [][\A c, l \in CPUs, p \in Slots :
       (c # l /\ p \in Members(runq[c]) /\ p \in Members(runq'[l])) =>
         /\ c \in ECores /\ l \in PCores /\ pid[p] > 2
         /\ queue_count'[l] <= queue_count'[c]]_vars

\* Once a process has been killed it never gets back from the kernel to user
\* code.
KilledStaysInKernel ==
  [][\A p \in Slots : (killed[p] /\ ctx[p] # "user" /\ state[p] = "RUNNING")
                        => ~(ctx'[p] = "user" /\ state'[p] = "RUNNING")]_vars

\* Round robin on the E-cores: a process that stays on an E-core has been charged
\* fewer than RR_QUANTUM_TICKS timer interrupts since it was dispatched (one that
\* the timer trap has just sent into exit() may have used them up).
SliceRespected ==
  \A c \in ECores : LET p == cpu_proc[c] IN
    (p # 0 /\ ctx[p] \notin {"exit", "panic"}) => slice_ticks[p] < RR_QUANTUM_TICKS

\* First come first served on the P-cores: when a P-core takes a process, nobody
\* it leaves waiting was created earlier.
PcoreOldestFirst ==
  [][\A c \in PCores : \A q \in Members(runq'[c]) :
       (cpu_proc[c] = 0 /\ cpu_proc'[c] # 0) => ctime[cpu_proc'[c]] <= ctime[q]]_vars

NoPanic == \A c \in CPUs : cpu_proc[c] # 0 => ctx[cpu_proc[c]] # "panic"

\* Round robin: as long as no CPU panics, a process on the run queue of an
\* E-core is eventually run or moved to a P-core.
EcoreNoStarvation ==
  []NoPanic =>
    \A c \in ECores, p \in Slots :
      (p \in Members(runq[c])) ~> (p \notin Members(runq[c]))

\* kill() "Wake process from sleep if necessary.": as long as no CPU panics, a
\* killed process that is RUNNABLE eventually gets a CPU.
KilledProcessRuns ==
  []NoPanic =>
    \A p \in Slots : (killed[p] /\ state[p] = "RUNNABLE") ~> (state[p] # "RUNNABLE")
=============================================================================
