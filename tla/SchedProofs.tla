----------------------------- MODULE SchedProofs -----------------------------
(***************************************************************************)
(* What the scheduler, the timer and the traps of module Proc may never    *)
(* do, for every number of slots and CPUs: theorems that rest on the       *)
(* invariant of ProcProofs.                                                *)
(***************************************************************************)
EXTENDS ProcProofs

USE ZenonT(30), SMTT(30)

\* The process of a CPU is a slot.
LEMMA CpuProcFacts ==
  ASSUME IInv
  PROVE  /\ \A c \in CPUs : cpu_proc[c] # 0 => cpu_proc[c] \in Slots
         /\ \A c, d \in CPUs : (cpu_proc[c] # 0 /\ cpu_proc[c] = cpu_proc[d]) => c = d
         /\ \A p \in Slots : p # 0
         /\ ECores \subseteq CPUs /\ PCores \subseteq CPUs
<1>1. \A c \in CPUs : cpu_proc[c] \in 0..NPROC
  BY DEF IInv, TypeOK
<1>2. \A c \in CPUs : cpu_proc[c] # 0 => cpu_proc[c] \in Slots
  BY <1>1, SlotFacts
<1>3. QED
  BY <1>2, SlotFacts DEF IInv, RunsOnOneCpu, ECores, PCores

-----------------------------------------------------------------------------
(***************************************************************************)
(* A turn of the scheduler.                                                *)
(***************************************************************************)

\* The scheduler of CPU c has taken the process at position i of its queue, the queues
\* being rq and their counts qc.
Took(c, rq, qc, i) ==
  /\ i \in 1..Len(rq[c]) /\ rq[c][i] \in Slots /\ Chosen(c, rq[c], i)
  /\ runq' = [rq EXCEPT ![c] = dequeue(@, i)] /\ queue_count' = [qc EXCEPT ![c] = @ - 1]

\* CPU c has run process p until it released ptable.lock.
Ran(c, p) ==
  /\ cpu_proc[c] = 0 /\ state[p] = "RUNNABLE"
  /\ slice_ticks' = [slice_ticks EXCEPT ![p] = 0]
  /\ \E r \in {0, p} : cpu_proc' = [cpu_proc EXCEPT ![c] = r]
  /\ UNCHANGED ctx \/ \E x \in {"ret", "wait"} : ctx' = [ctx EXCEPT ![p] = x]

LEMMA DispatchRuns ==
  ASSUME NEW c \in CPUs, cpu_proc[c] = 0, NEW rq \in Queues, NEW qc, Dispatch(c, rq, qc)
  PROVE  \E i \in 1..Len(rq[c]) : Took(c, rq, qc, i) /\ Ran(c, rq[c][i])
<1>1. PICK i \in DOMAIN rq[c] :
        /\ Chosen(c, rq[c], i)
        /\ runq' = [rq EXCEPT ![c] = dequeue(@, i)]
        /\ queue_count' = [qc EXCEPT ![c] = @ - 1]
        /\ slice_ticks' = [slice_ticks EXCEPT ![rq[c][i]] = 0]
        /\ \/ WaitTurn(c, rq[c][i])
           \/ cpu_proc' = [cpu_proc EXCEPT ![c] = rq[c][i]] /\ UNCHANGED ctx
  BY DEF Dispatch
<1> DEFINE p == rq[c][i]
<1>2. i \in 1..Len(rq[c]) /\ p \in Slots
  BY SMTT(30) DEF Queues
<1>3. Took(c, rq, qc, i)
  BY <1>1, <1>2 DEF Took
<1>4. state[p] = "RUNNABLE"
  BY <1>1 DEF Chosen
<1> HIDE DEF p
<1>5. /\ \E r \in {0, p} : cpu_proc' = [cpu_proc EXCEPT ![c] = r]
      /\ UNCHANGED ctx \/ \E x \in {"ret", "wait"} : ctx' = [ctx EXCEPT ![p] = x]
  <2>1. CASE WaitTurn(c, p)
    BY <2>1, ZenonT(60) DEF WaitTurn
  <2>2. CASE cpu_proc' = [cpu_proc EXCEPT ![c] = p] /\ UNCHANGED ctx
    BY <2>2
  <2>3. QED
    BY <1>1, <2>1, <2>2 DEF p
<1>6. Ran(c, p)
  BY <1>1, <1>4, <1>5 DEF Ran, p
<1>7. QED
  BY <1>2, <1>3, <1>6 DEF p

\* The queues after load_balance() has pushed the process at position v to P-core l.
Pushed(c, v, l) == [runq EXCEPT ![c] = dequeue(@, v), ![l] = Append(@, runq[c][v])]
PushedCounts(c, l) == [queue_count EXCEPT ![c] = @ - 1, ![l] = @ + 1]

LEMMA PushedQueues ==
  ASSUME IInv, NEW c \in CPUs, NEW l \in CPUs, NEW v \in DOMAIN runq[c], Pushes(c, v, l)
  PROVE  /\ Pushed(c, v, l) \in Queues /\ c \in ECores /\ l \in PCores /\ c # l
         /\ v \in 1..Len(runq[c]) /\ runq[c][v] \in Slots
         /\ \A d \in CPUs : Pushed(c, v, l)[d] = IF d = c THEN dequeue(runq[c], v)
                                                ELSE IF d = l THEN Append(runq[l], runq[c][v])
                                                ELSE runq[d]
<1>1. c \in ECores /\ l \in PCores /\ c # l
  BY DEF Pushes, get_lightest_p_core, FirstLightest, PCores
<1>2. runq \in Queues
  BY DEF IInv, QueueInv
<1>3. v \in 1..Len(runq[c]) /\ runq[c][v] \in Slots /\ runq[c] \in Seq(Slots)
  BY <1>2, SMTT(30) DEF Queues
<1>4. dequeue(runq[c], v) \in Seq(Slots)
  BY <1>3, DequeueProperties
<1>5. Append(runq[l], runq[c][v]) \in Seq(Slots)
  BY <1>2, <1>3, SMTT(30) DEF Queues
<1>6. ASSUME NEW d \in CPUs
      PROVE  Pushed(c, v, l)[d] = IF d = c THEN dequeue(runq[c], v)
                                  ELSE IF d = l THEN Append(runq[l], runq[c][v])
                                  ELSE runq[d]
  BY <1>1, <1>2 DEF Pushed, Queues
<1>7. Pushed(c, v, l) \in Queues
  BY <1>1, <1>2, <1>4, <1>5 DEF Pushed, Queues
<1>8. QED
  BY <1>1, <1>3, <1>6, <1>7

\* The scheduler takes a process from its own queue, perhaps after a push.
LEMMA ScheduleForm ==
  ASSUME IInv, NEW c \in CPUs, Schedule(c)
  PROVE  \/ \E i \in 1..Len(runq[c]) : Took(c, runq, queue_count, i) /\ Ran(c, runq[c][i])
         \/ \E v \in DOMAIN runq[c], l \in CPUs :
              /\ Pushes(c, v, l)
              /\ \E i \in 1..Len(Pushed(c, v, l)[c]) :
                   /\ Took(c, Pushed(c, v, l), PushedCounts(c, l), i)
                   /\ Ran(c, Pushed(c, v, l)[c][i])
<1>1. cpu_proc[c] = 0
  BY DEF Schedule
<1>2. CASE Dispatch(c, runq, queue_count)
  <2>1. runq \in Queues
    BY DEF IInv, QueueInv
  <2>2. QED
    BY <1>1, <1>2, <2>1, DispatchRuns
<1>3. ASSUME NEW v \in DOMAIN runq[c], NEW l \in CPUs, Pushes(c, v, l),
             Dispatch(c, Pushed(c, v, l), PushedCounts(c, l))
      PROVE  \E i \in 1..Len(Pushed(c, v, l)[c]) :
                   /\ Took(c, Pushed(c, v, l), PushedCounts(c, l), i)
                   /\ Ran(c, Pushed(c, v, l)[c][i])
  BY <1>1, <1>3, PushedQueues, DispatchRuns
<1>4. \/ Dispatch(c, runq, queue_count)
      \/ \E v \in DOMAIN runq[c], l \in CPUs :
           Pushes(c, v, l) /\ Dispatch(c, Pushed(c, v, l), PushedCounts(c, l))
  BY DEF Schedule, Pushed, PushedCounts
<1>5. QED
  BY <1>2, <1>3, <1>4

LEMMA ScheduleRuns ==
  ASSUME IInv, NEW c \in CPUs, Schedule(c)
  PROVE  \E p \in Slots : Ran(c, p)
BY ScheduleForm DEF Took
-----------------------------------------------------------------------------
(***************************************************************************)
(* A killed process does not get back to user code.                        *)
(***************************************************************************)

\* ctx' when one process moves to a place x in the kernel.
LEMMA MovedInKernel ==
  ASSUME IInv, NEW p \in Slots, NEW x, x # "user" \/ ~killed[p],
         ctx' = [ctx EXCEPT ![p] = x], NEW q \in Slots, killed[q], ctx[q] # "user"
  PROVE  ctx'[q] # "user"
BY DEF IInv, TypeOK

LEMMA KilledStep ==
  ASSUME IInv, [Next]_vars, NEW q \in Slots, killed[q], ctx[q] # "user", state[q] = "RUNNING"
  PROVE  ~(ctx'[q] = "user" /\ state'[q] = "RUNNING")
<1>1. ASSUME NEW c \in CPUs, NEW p \in Slots, Step(c, p)
      PROVE  ~(ctx'[q] = "user" /\ state'[q] = "RUNNING")
  <2>1. ExitContext(p) # "user"
    BY DEF ExitContext
  <2>2. CASE Syscall(c, p)
    <3>1. ctx' = [ctx EXCEPT ![p] = IF killed[p] THEN ExitContext(p) ELSE "kern"]
      BY <2>2 DEF Syscall
    <3>2. QED
      BY <2>1, <3>1, MovedInKernel
  <2>3. CASE TrapReturn(c, p)
    <3>1. ctx' = [ctx EXCEPT ![p] = IF killed[p] THEN ExitContext(p) ELSE "user"]
      BY <2>3 DEF TrapReturn
    <3>2. QED
      BY <2>1, <3>1, MovedInKernel
  <2>4. CASE \/ SyscallDone(c, p) \/ Fault(c, p) \/ ExitCall(c, p)
             \/ start_measure(c, p) \/ end_measure(c, p)
             \/ ForkAlloc(c, p) \/ ForkFail(c, p)
             \/ \E target \in KillPids : Kill(c, p, target)
    <3>1. \E x \in {"ret", "fork", ExitContext(p)} : ctx' = [ctx EXCEPT ![p] = x]
      BY <2>4, ZenonT(60) DEF SyscallDone, Fault, ExitCall, start_measure, end_measure,
                              ForkAlloc, ForkFail, Kill
    <3>2. QED
      BY <2>1, <3>1, MovedInKernel
  <2>5. CASE ForkDone(c, p)
    <3>1. ctx' = [ctx EXCEPT ![p] = "ret", ![np[p]] = "user"] /\ ctx[p] = "fork"
      BY <2>5 DEF ForkDone, At
    <3>2. state[np[p]] = "EMBRYO"
      BY <3>1 DEF IInv, EmbryoOwned
    <3>3. np[p] # q
      BY <3>2
    <3>4. QED
      BY <3>1, <3>3 DEF IInv, TypeOK
  <2>6. CASE Exit(c, p)
    <3>1. ctx' = [ctx EXCEPT ![p] = "user"] /\ state'[p] = "ZOMBIE"
      BY <2>6 DEF Exit
    <3>2. QED
      BY <3>1 DEF IInv, TypeOK
  <2>7. CASE Wait(c, p)
    <3>1. \E x \in {"ret", "wait"} : ctx' = [ctx EXCEPT ![p] = x]
      BY <2>7, ZenonT(60) DEF Wait, WaitTurn
    <3>2. QED
      BY <3>1, MovedInKernel
  <2>8. CASE \E ch \in (Chans \cup {p}) : Sleep(c, p, ch)
    BY <2>8 DEF Sleep
  <2>9. CASE TimerTrap(c, p)
    <3>1. ctx' = [ctx EXCEPT ![p] = IF killed[p] /\ ctx[p] = "user" THEN ExitContext(p)
                                    ELSE IF @ = "user" THEN "ret" ELSE @]
      BY <2>9 DEF TimerTrap
    <3>2. QED
      BY <2>1, <3>1 DEF IInv, TypeOK
  <2>10. QED
    BY <1>1, <2>2, <2>3, <2>4, <2>5, <2>6, <2>7, <2>8, <2>9 DEF Step
<1>2. ASSUME NEW c \in CPUs, Schedule(c)
      PROVE  ctx'[q] # "user"
  <2>1. PICK p \in Slots : Ran(c, p)
    BY <1>2, ScheduleRuns
  <2>2. UNCHANGED ctx \/ \E x \in {"ret", "wait"} : ctx' = [ctx EXCEPT ![p] = x]
    BY <2>1 DEF Ran
  <2>3. QED
    BY <2>2, MovedInKernel
<1>3. ASSUME Tick \/ (\E ch \in (Chans \cup Slots) : Wakeup(ch)) \/ UNCHANGED vars
      PROVE  ctx'[q] # "user"
  BY <1>3 DEF Tick, Wakeup, vars
<1>4. QED
  BY <1>1, <1>2, <1>3 DEF Next

\* Once a process has been killed, no trap or system call takes it back to user code.
THEOREM KilledNeverReturns == Spec => KilledStaysInKernel
<1> DEFINE A == \A p \in Slots : (killed[p] /\ ctx[p] # "user" /\ state[p] = "RUNNING")
                                  => ~(ctx'[p] = "user" /\ state'[p] = "RUNNING")
<1>1. IInv /\ [Next]_vars => [A]_vars
  BY KilledStep
<1>2. QED
  BY <1>1, Invariance, PTL DEF Spec, KilledStaysInKernel
-----------------------------------------------------------------------------
(***************************************************************************)
(* The time slice of an E-core.                                            *)
(***************************************************************************)

\* A process on a CPU that moves on, or gives up the CPU, outside exit(); the others that
\* run stay where they are.
LEMMA SliceMove ==
  ASSUME IInv, SliceRespected, NEW c \in CPUs, NEW p \in Slots, cpu_proc[c] = p,
         ctx[p] \notin {"exit", "panic"},
         \A q \in Slots : state[q] = "RUNNING" => slice_ticks'[q] = slice_ticks[q],
         \A q \in Slots : (q # p /\ state[q] = "RUNNING") => ctx'[q] = ctx[q],
         NEW r \in {0, p}, cpu_proc' = [cpu_proc EXCEPT ![c] = r]
  PROVE  SliceRespected'
<1>1. SUFFICES ASSUME NEW d \in ECores, cpu_proc'[d] # 0,
                      ctx'[cpu_proc'[d]] \notin {"exit", "panic"}
               PROVE  slice_ticks'[cpu_proc'[d]] < RR_QUANTUM_TICKS
  BY DEF SliceRespected, ECores
<1>2. d \in CPUs /\ cpu_proc'[d] = cpu_proc[d]
  BY <1>1, CpuProcFacts DEF IInv, TypeOK
<1>3. cpu_proc[d] \in Slots /\ state[cpu_proc[d]] = "RUNNING"
  BY <1>1, <1>2, CpuProcFacts DEF IInv, RunsOnOneCpu
<1>4. ctx[cpu_proc[d]] \notin {"exit", "panic"}
  BY <1>1, <1>2, <1>3
<1>5. slice_ticks[cpu_proc[d]] < RR_QUANTUM_TICKS
  BY <1>1, <1>2, <1>4 DEF SliceRespected
<1>6. QED
  BY <1>2, <1>3, <1>5

\* Nothing about the processes that run changes, except that one may leave its CPU.
LEMMA SliceStays ==
  ASSUME IInv, SliceRespected, UNCHANGED slice_ticks,
         \A d \in CPUs : cpu_proc'[d] # 0 =>
           cpu_proc'[d] = cpu_proc[d] /\ ctx'[cpu_proc[d]] = ctx[cpu_proc[d]]
  PROVE  SliceRespected'
<1>1. SUFFICES ASSUME NEW d \in ECores, cpu_proc'[d] # 0,
                      ctx'[cpu_proc'[d]] \notin {"exit", "panic"}
               PROVE  slice_ticks'[cpu_proc'[d]] < RR_QUANTUM_TICKS
  BY DEF SliceRespected, ECores
<1>2. cpu_proc'[d] = cpu_proc[d] /\ ctx'[cpu_proc[d]] = ctx[cpu_proc[d]]
  BY <1>1, CpuProcFacts
<1>3. QED
  BY <1>1, <1>2 DEF SliceRespected

LEMMA SliceTimer ==
  ASSUME IInv, SliceRespected, NEW c \in CPUs, NEW p \in Slots, TimerTrap(c, p)
  PROVE  SliceRespected'
<1> DEFINE dies   == killed[p] /\ ctx[p] = "user"
           yields == ~dies /\ Yields(c, p)
<1>1. /\ cpu_proc[c] = p
      /\ ctx' = [ctx EXCEPT ![p] = IF dies THEN ExitContext(p)
                                   ELSE IF @ = "user" THEN "ret" ELSE @]
      /\ slice_ticks' = [slice_ticks EXCEPT ![p] =
                           IF yields /\ c \in ECores THEN 0 ELSE slice_ticks[p] + 1]
      /\ IF yields THEN cpu_proc' = [cpu_proc EXCEPT ![c] = 0] ELSE cpu_proc' = cpu_proc
  BY DEF TimerTrap
<1>2. yields => (c \in ECores => slice_ticks[p] + 1 >= RR_QUANTUM_TICKS)
  BY DEF Yields
<1>3. ~yields => dies \/ ~(c \in ECores => slice_ticks[p] + 1 >= RR_QUANTUM_TICKS)
  BY DEF Yields
<1>4. ExitContext(p) \in {"exit", "panic"}
  BY DEF ExitContext
<1>5. slice_ticks \in [Slots -> Nat] /\ ctx \in [Slots -> Contexts]
  BY DEF IInv, TypeOK
<1>6. cpu_proc \in [CPUs -> 0..NPROC]
  BY DEF IInv, TypeOK
<1> HIDE DEF dies, yields
<1>7. SUFFICES ASSUME NEW d \in ECores, cpu_proc'[d] # 0,
                      ctx'[cpu_proc'[d]] \notin {"exit", "panic"}
               PROVE  slice_ticks'[cpu_proc'[d]] < RR_QUANTUM_TICKS
  BY DEF SliceRespected, ECores
<1>8. d \in CPUs
  BY CpuProcFacts
<1>9. CASE d = c
  <2>1. ~yields /\ cpu_proc'[d] = p
    BY <1>1, <1>6, <1>7, <1>8, <1>9
  <2>2. ctx'[p] = IF dies THEN ExitContext(p) ELSE IF ctx[p] = "user" THEN "ret" ELSE ctx[p]
    BY <1>1, <1>5
  <2>3. ~dies
    BY <1>4, <1>7, <2>1, <2>2
  <2>4. ~(slice_ticks[p] + 1 >= RR_QUANTUM_TICKS)
    BY <1>3, <1>9, <2>1, <2>3
  <2>5. slice_ticks'[p] = slice_ticks[p] + 1
    BY <1>1, <1>5, <2>1
  <2>6. QED
    BY <1>5, <2>1, <2>4, <2>5, ProcAssumption, SMTT(30)
<1>10. CASE d # c
  <2>1. cpu_proc'[d] = cpu_proc[d]
    BY <1>1, <1>6, <1>8, <1>10
  <2>2. cpu_proc[d] \in Slots /\ cpu_proc[d] # p
    BY <1>1, <1>7, <1>8, <1>10, <2>1, CpuProcFacts
  <2>3. /\ ctx'[cpu_proc[d]] = ctx[cpu_proc[d]]
        /\ slice_ticks'[cpu_proc[d]] = slice_ticks[cpu_proc[d]]
    BY <1>1, <1>5, <2>2
  <2>4. QED
    BY <1>7, <2>1, <2>3 DEF SliceRespected
<1>11. QED
  BY <1>9, <1>10

LEMMA SliceSchedule ==
  ASSUME IInv, SliceRespected, NEW c \in CPUs, Schedule(c)
  PROVE  SliceRespected'
<1>1. PICK p \in Slots : Ran(c, p)
  BY ScheduleRuns
<1>2. PICK r \in {0, p} : cpu_proc' = [cpu_proc EXCEPT ![c] = r]
  BY <1>1 DEF Ran
<1>3. slice_ticks' = [slice_ticks EXCEPT ![p] = 0] /\ state[p] = "RUNNABLE"
  BY <1>1 DEF Ran
<1>4. \A q \in Slots : q # p => ctx'[q] = ctx[q]
  BY <1>1 DEF Ran, IInv, TypeOK
<1>5. SUFFICES ASSUME NEW d \in ECores, cpu_proc'[d] # 0,
                      ctx'[cpu_proc'[d]] \notin {"exit", "panic"}
               PROVE  slice_ticks'[cpu_proc'[d]] < RR_QUANTUM_TICKS
  BY DEF SliceRespected, ECores
<1>6. d \in CPUs /\ cpu_proc \in [CPUs -> 0..NPROC] /\ slice_ticks \in [Slots -> Nat]
  BY CpuProcFacts DEF IInv, TypeOK
<1>7. CASE d = c
  <2>1. cpu_proc'[d] = p
    BY <1>2, <1>5, <1>6, <1>7
  <2>2. slice_ticks'[p] = 0
    BY <1>3, <1>6
  <2>3. QED
    BY <2>1, <2>2, ProcAssumption, SMTT(30)
<1>8. CASE d # c
  <2>1. cpu_proc'[d] = cpu_proc[d]
    BY <1>2, <1>6, <1>8
  <2>2. cpu_proc[d] \in Slots /\ state[cpu_proc[d]] = "RUNNING"
    BY <1>5, <1>6, <2>1, CpuProcFacts DEF IInv, RunsOnOneCpu
  <2>3. cpu_proc[d] # p
    BY <1>3, <2>2
  <2>4. /\ ctx'[cpu_proc[d]] = ctx[cpu_proc[d]]
        /\ slice_ticks'[cpu_proc[d]] = slice_ticks[cpu_proc[d]]
    BY <1>3, <1>4, <1>6, <2>2, <2>3
  <2>5. QED
    BY <1>5, <2>1, <2>4 DEF SliceRespected
<1>9. QED
  BY <1>7, <1>8

LEMMA SliceStep ==
  ASSUME IInv, SliceRespected, [Next]_vars
  PROVE  SliceRespected'
<1>1. ASSUME NEW c \in CPUs, NEW p \in Slots, Step(c, p)
      PROVE  SliceRespected'
  <2> DEFINE others == \A q \in Slots : (q # p /\ state[q] = "RUNNING") => ctx'[q] = ctx[q]
  <2>0. ctx \in [Slots -> Contexts] /\ cpu_proc \in [CPUs -> 0..NPROC]
    BY DEF IInv, TypeOK
  <2>1. CASE \/ Syscall(c, p) \/ SyscallDone(c, p) \/ TrapReturn(c, p) \/ Fault(c, p)
             \/ ForkFail(c, p) \/ ExitCall(c, p)
             \/ (\E target \in KillPids : Kill(c, p, target))
             \/ start_measure(c, p) \/ end_measure(c, p)
    <3>1. /\ \E w \in {"user", "kern", "ret", "fork"} : At(c, p, w)
          /\ \E x : ctx' = [ctx EXCEPT ![p] = x]
          /\ UNCHANGED <<slice_ticks, cpu_proc>>
      BY <2>1, ZenonT(60) DEF Syscall, SyscallDone, TrapReturn, Fault, ForkFail, ExitCall,
                              Kill, start_measure, end_measure
    <3>2. cpu_proc[c] = p /\ ctx[p] \notin {"exit", "panic"}
      BY <3>1 DEF At
    <3>3. others
      BY <2>0, <3>1
    <3>4. cpu_proc' = [cpu_proc EXCEPT ![c] = p]
      BY <2>0, <3>1, <3>2
    <3>5. QED
      BY <3>1, <3>2, <3>3, <3>4, SliceMove
  <2>2. CASE ForkAlloc(c, p)
    <3>1. /\ cpu_proc[c] = p /\ ctx[p] = "kern" /\ cpu_proc' = cpu_proc
          /\ \E x : ctx' = [ctx EXCEPT ![p] = x]
          /\ UNCHANGED slice_ticks \/ \E n \in Slots : state[n] = "UNUSED"
                                        /\ slice_ticks' = [slice_ticks EXCEPT ![n] = 0]
      BY <2>2, ZenonT(60) DEF ForkAlloc, FirstUnused, At
    <3>2. \A q \in Slots : state[q] = "RUNNING" => slice_ticks'[q] = slice_ticks[q]
      BY <3>1 DEF IInv, TypeOK
    <3>3. others
      BY <2>0, <3>1
    <3>4. cpu_proc' = [cpu_proc EXCEPT ![c] = p]
      BY <2>0, <3>1
    <3>5. QED
      BY <3>1, <3>2, <3>3, <3>4, SliceMove
  <2>3. CASE ForkDone(c, p)
    <3>1. /\ cpu_proc[c] = p /\ ctx[p] = "fork" /\ UNCHANGED <<cpu_proc, slice_ticks>>
          /\ ctx' = [ctx EXCEPT ![p] = "ret", ![np[p]] = "user"]
      BY <2>3 DEF ForkDone, At
    <3>2. state[np[p]] = "EMBRYO"
      BY <3>1 DEF IInv, EmbryoOwned
    <3>3. others
      BY <2>0, <3>1, <3>2
    <3>4. cpu_proc' = [cpu_proc EXCEPT ![c] = p]
      BY <2>0, <3>1
    <3>5. QED
      BY <3>1, <3>3, <3>4, SliceMove
  <2>4. CASE Wait(c, p)
    <3>1. /\ cpu_proc[c] = p /\ ctx[p] = "kern" /\ UNCHANGED slice_ticks
          /\ \E x : ctx' = [ctx EXCEPT ![p] = x]
          /\ \E r \in {0, p} : cpu_proc' = [cpu_proc EXCEPT ![c] = r]
      BY <2>4, ZenonT(60) DEF Wait, WaitTurn, At
    <3>2. others
      BY <2>0, <3>1
    <3>3. QED
      BY <3>1, <3>2, SliceMove
  <2>5. CASE Exit(c, p) \/ \E ch \in (Chans \cup {p}) : Sleep(c, p, ch)
    <3>1. /\ cpu_proc[c] = p /\ cpu_proc' = [cpu_proc EXCEPT ![c] = 0]
          /\ UNCHANGED slice_ticks
          /\ UNCHANGED ctx \/ ctx' = [ctx EXCEPT ![p] = "user"]
      BY <2>5, ZenonT(60) DEF Exit, Sleep, At
    <3>2. ASSUME NEW d \in CPUs, cpu_proc'[d] # 0
          PROVE  cpu_proc'[d] = cpu_proc[d] /\ ctx'[cpu_proc[d]] = ctx[cpu_proc[d]]
      <4>1. d # c /\ cpu_proc'[d] = cpu_proc[d]
        BY <2>0, <3>1, <3>2
      <4>2. cpu_proc[d] \in Slots /\ cpu_proc[d] # p
        BY <3>1, <3>2, <4>1, CpuProcFacts
      <4>3. QED
        BY <2>0, <3>1, <4>1, <4>2
    <3>3. QED
      BY <3>1, <3>2, SliceStays
  <2>6. CASE TimerTrap(c, p)
    BY <2>6, SliceTimer
  <2>7. QED
    BY <1>1, <2>1, <2>2, <2>3, <2>4, <2>5, <2>6 DEF Step
<1>2. ASSUME NEW c \in CPUs, Schedule(c)
      PROVE  SliceRespected'
  BY <1>2, SliceSchedule
<1>3. ASSUME Tick \/ (\E ch \in (Chans \cup Slots) : Wakeup(ch)) \/ UNCHANGED vars
      PROVE  SliceRespected'
  <2>1. UNCHANGED <<slice_ticks, ctx, cpu_proc>>
    BY <1>3 DEF Tick, Wakeup, vars
  <2>2. QED
    BY <2>1, SliceStays
<1>4. QED
  BY <1>1, <1>2, <1>3 DEF Next

\* No process stays on an E-core beyond its time slice: the timer trap takes the CPU away
\* at the tick that uses it up, unless that trap has just sent it into exit().
THEOREM SlicesRespected == Spec => []SliceRespected
<1>1. Init => SliceRespected
  <2>1. Init => \A c \in CPUs : cpu_proc[c] = 0
    BY SMTT(30) DEF Init
  <2>2. QED
    BY <2>1 DEF SliceRespected, ECores
<1>2. IInv /\ SliceRespected /\ [Next]_vars => SliceRespected'
  BY SliceStep
<1>3. QED
  BY <1>1, <1>2, Invariance, PTL DEF Spec
-----------------------------------------------------------------------------
(***************************************************************************)
(* First come first served on a P-core.                                    *)
(***************************************************************************)

\* Only the scheduler of an idle CPU gives it a process.
LEMMA OnlySchedulerDispatches ==
  ASSUME IInv, [Next]_vars, NEW c \in CPUs, cpu_proc[c] = 0, cpu_proc'[c] # 0
  PROVE  Schedule(c)
<1>0. cpu_proc \in [CPUs -> 0..NPROC]
  BY DEF IInv, TypeOK
<1>1. ASSUME NEW d \in CPUs, NEW p \in Slots, Step(d, p)
      PROVE  FALSE
  <2>1. /\ cpu_proc[d] = p /\ p # 0
        /\ \/ UNCHANGED cpu_proc
           \/ \E r \in {0, p} : cpu_proc' = [cpu_proc EXCEPT ![d] = r]
    <3>1. CASE \/ Syscall(d, p) \/ SyscallDone(d, p) \/ TrapReturn(d, p) \/ Fault(d, p)
               \/ ForkAlloc(d, p) \/ ForkFail(d, p) \/ ForkDone(d, p) \/ ExitCall(d, p)
               \/ (\E target \in KillPids : Kill(d, p, target))
               \/ start_measure(d, p) \/ end_measure(d, p)
      BY <3>1, ZenonT(60) DEF Syscall, SyscallDone, TrapReturn, Fault, ForkAlloc, ForkFail,
                              ForkDone, ExitCall, Kill, start_measure, end_measure, At
    <3>2. CASE Exit(d, p) \/ (\E ch \in (Chans \cup {p}) : Sleep(d, p, ch))
      BY <3>2, ZenonT(60) DEF Exit, Sleep, At
    <3>3. CASE Wait(d, p)
      BY <3>3, ZenonT(60) DEF Wait, WaitTurn, At
    <3>4. CASE TimerTrap(d, p)
      BY <3>4, ZenonT(60) DEF TimerTrap
    <3>5. QED
      BY <1>1, <3>1, <3>2, <3>3, <3>4 DEF Step
  <2>2. QED
    BY <1>0, <2>1
<1>2. ASSUME NEW d \in CPUs, Schedule(d)
      PROVE  d = c
  <2>1. PICK p \in Slots : Ran(d, p)
    BY <1>2, ScheduleRuns
  <2>2. \E r \in {0, p} : cpu_proc' = [cpu_proc EXCEPT ![d] = r]
    BY <2>1 DEF Ran
  <2>3. QED
    BY <1>0, <2>2
<1>3. ASSUME Tick \/ (\E ch \in (Chans \cup Slots) : Wakeup(ch)) \/ UNCHANGED vars
      PROVE  FALSE
  BY <1>3 DEF Tick, Wakeup, vars
<1>4. QED
  BY <1>1, <1>2, <1>3 DEF Next

LEMMA OldestStep ==
  ASSUME IInv, [Next]_vars, NEW c \in PCores, NEW q \in Members(runq'[c]),
         cpu_proc[c] = 0, cpu_proc'[c] # 0
  PROVE  ctime[cpu_proc'[c]] <= ctime[q]
<1>1. c \in CPUs /\ c \notin ECores /\ runq \in Queues /\ cpu_proc \in [CPUs -> 0..NPROC]
  BY DEF PCores, IInv, QueueInv, TypeOK
<1>2. Schedule(c)
  BY <1>1, OnlySchedulerDispatches
<1>3. PICK i \in 1..Len(runq[c]) : Took(c, runq, queue_count, i) /\ Ran(c, runq[c][i])
  BY <1>1, <1>2, ScheduleForm, PushedQueues
<1>4. cpu_proc'[c] = runq[c][i]
  BY <1>1, <1>3 DEF Ran
<1>5. runq[c] \in Seq(Slots) /\ runq'[c] = dequeue(runq[c], i)
  BY <1>1, <1>3 DEF Took, Queues
<1>6. /\ dequeue(runq[c], i) \in Seq(Slots) /\ Len(dequeue(runq[c], i)) = Len(runq[c]) - 1
      /\ \A k \in 1..Len(runq[c])-1 :
           dequeue(runq[c], i)[k] = IF k < i THEN runq[c][k] ELSE runq[c][k+1]
  BY <1>5, DequeueProperties
<1>7. PICK k \in 1..Len(runq[c])-1 : q = dequeue(runq[c], i)[k]
  BY <1>5, <1>6, SMTT(30) DEF Members
<1>8. PICK j \in 1..Len(runq[c]) : j # i /\ q = runq[c][j]
  <2>1. CASE k < i
    BY <1>5, <1>6, <1>7, <2>1, SMTT(30)
  <2>2. CASE ~(k < i)
    <3>1. k + 1 \in 1..Len(runq[c]) /\ k + 1 # i
      BY <1>5, <1>7, <2>2, SMTT(30)
    <3>2. QED
      BY <1>6, <1>7, <2>2, <3>1
  <2>3. QED
    BY <2>1, <2>2
<1>9. q \in Slots /\ runq[c][i] \in Slots
  BY <1>5, <1>8, SMTT(30)
<1>10. state[q] = "RUNNABLE"
  BY <1>1, <1>8, <1>9 DEF IInv, QueueInv, In
<1>11. \/ ctime[runq[c][i]] < ctime[runq[c][j]]
       \/ ctime[runq[c][i]] = ctime[runq[c][j]]
  <2>1. Chosen(c, runq[c], i) /\ j \in DOMAIN runq[c]
    BY <1>3, <1>5, <1>8, SMTT(30) DEF Took
  <2>2. QED
    BY <1>1, <1>8, <1>10, <2>1 DEF Chosen
<1>12. ctime \in [Slots -> Nat]
  BY DEF IInv, TypeOK
<1>13. QED
  BY <1>4, <1>8, <1>9, <1>11, <1>12, SMTT(30)

\* The scheduler of a P-core takes the process that was created first among all that wait
\* on its queue.
THEOREM OldestFirst == Spec => PcoreOldestFirst
<1> DEFINE A == \A c \in PCores : \A q \in Members(runq'[c]) :
                  (cpu_proc[c] = 0 /\ cpu_proc'[c] # 0) => ctime[cpu_proc'[c]] <= ctime[q]
<1>1. IInv /\ [Next]_vars => [A]_vars
  BY OldestStep
<1>2. QED
  BY <1>1, Invariance, PTL DEF Spec, PcoreOldestFirst
-----------------------------------------------------------------------------
(***************************************************************************)
(* Processes that change queue.                                            *)
(***************************************************************************)

\* Whoever is on a queue after the step was on it before, or did not wait on any.
NobodyMoves ==
  \A l \in CPUs : \A i \in 1..Len(runq'[l]) :
    \/ \E j \in 1..Len(runq[l]) : runq'[l][i] = runq[l][j]
    \/ state[runq'[l][i]] # "RUNNABLE"

LEMMA EnqueueMovesNobody ==
  ASSUME IInv, NEW c \in CPUs, NEW p \in Slots, state[p] # "RUNNABLE", enqueue(c, p)
  PROVE  NobodyMoves
<1>1. runq' = [runq EXCEPT ![c] = Append(@, p)] /\ runq \in [CPUs -> Seq(Slots)]
  BY DEF enqueue, IInv, QueueInv, Queues
<1>2. ASSUME NEW l \in CPUs, NEW i \in 1..Len(runq'[l]), l # c
      PROVE  \E j \in 1..Len(runq[l]) : runq'[l][i] = runq[l][j]
  BY <1>1, <1>2
<1>3. ASSUME NEW i \in 1..Len(runq'[c])
      PROVE  runq'[c][i] = p \/ \E j \in 1..Len(runq[c]) : runq'[c][i] = runq[c][j]
  <2>1. runq'[c] = Append(runq[c], p) /\ runq[c] \in Seq(Slots)
    BY <1>1
  <2>2. Len(runq'[c]) = Len(runq[c]) + 1 /\ Len(runq[c]) \in Nat
    BY <2>1, SMTT(30)
  <2>3. CASE i = Len(runq[c]) + 1
    BY <2>1, <2>3, SMTT(30)
  <2>4. CASE i # Len(runq[c]) + 1
    <3>1. i \in 1..Len(runq[c])
      BY <2>2, <2>4, SMTT(30)
    <3>2. runq'[c][i] = runq[c][i]
      BY <2>1, <3>1, SMTT(30)
    <3>3. QED
      BY <3>1, <3>2
  <2>5. QED
    BY <2>3, <2>4
<1>4. ASSUME NEW l \in CPUs, NEW i \in 1..Len(runq'[l])
      PROVE  \/ \E j \in 1..Len(runq[l]) : runq'[l][i] = runq[l][j]
             \/ state[runq'[l][i]] # "RUNNABLE"
  <2>1. CASE l = c
    BY <1>3, <2>1
  <2>2. CASE l # c
    BY <1>2, <2>2
  <2>3. QED
    BY <2>1, <2>2
<1>5. QED
  BY <1>4 DEF NobodyMoves

LEMMA ConcatProperties ==
  ASSUME NEW S, NEW s \in Seq(S), NEW t \in Seq(S)
  PROVE  /\ Len(s) \in Nat /\ Len(t) \in Nat /\ Len(s \o t) = Len(s) + Len(t)
         /\ \A i \in 1..Len(s) : (s \o t)[i] = s[i]
         /\ \A i \in 1..Len(s) + Len(t) : i > Len(s) => (s \o t)[i] = t[i - Len(s)]
BY SMTT(30)

LEMMA WakingMovesNobody ==
  ASSUME IInv, NEW first, NEW second, first \cup second \subseteq Slots,
         \A p \in first \cup second : state[p] = "SLEEPING", EnqueueWoken(first, second)
  PROVE  NobodyMoves
<1> DEFINE woken == first \cup second
<1>1. PICK added \in [ECores -> Lists(woken)] :
        runq' = [c \in CPUs |-> IF c \in ECores THEN runq[c] \o added[c] ELSE runq[c]]
  BY DEF EnqueueWoken
<1>0. woken \subseteq Slots
  OBVIOUS
<1> HIDE DEF woken
<1>2. runq \in [CPUs -> Seq(Slots)]
  BY DEF IInv, QueueInv, Queues
<1>3. SUFFICES ASSUME NEW l \in CPUs, NEW i \in 1..Len(runq'[l])
               PROVE  \/ \E j \in 1..Len(runq[l]) : runq'[l][i] = runq[l][j]
                      \/ state[runq'[l][i]] # "RUNNABLE"
  BY DEF NobodyMoves
<1>4. CASE l \notin ECores
  BY <1>1, <1>2, <1>4
<1>5. CASE l \in ECores
  <2>1. PICK n \in 0..NPROC : added[l] \in [1..n -> woken]
    BY <1>5, SMTT(30) DEF Lists
  <2>2. n \in Nat
    BY <2>1, ProcAssumption, SMTT(30)
  <2>3. added[l] \in Seq(Slots) /\ Len(added[l]) = n
    <3>1. added[l] \in [1..n -> Slots]
      BY <1>0, <2>1
    <3>2. QED
      BY <2>2, <3>1, SMTT(30)
  <2>4. runq'[l] = runq[l] \o added[l] /\ runq[l] \in Seq(Slots)
    BY <1>1, <1>2, <1>5
  <2>5. Len(runq'[l]) = Len(runq[l]) + n /\ Len(runq[l]) \in Nat
    <3>1. Len(runq[l] \o added[l]) = Len(runq[l]) + Len(added[l]) /\ Len(runq[l]) \in Nat
      BY <2>3, <2>4, ConcatProperties
    <3>2. QED
      BY <2>3, <2>4, <3>1
  <2>6. CASE i \in 1..Len(runq[l])
    <3>1. runq'[l][i] = runq[l][i]
      BY <2>3, <2>4, <2>6, SMTT(30)
    <3>2. QED
      BY <2>6, <3>1
  <2>7. CASE i \notin 1..Len(runq[l])
    <3>1. i - Len(runq[l]) \in 1..n
      BY <2>2, <2>5, <2>7, SMTT(30)
    <3>2. runq'[l][i] = added[l][i - Len(runq[l])]
      <4>1. i \in 1..Len(runq[l]) + Len(added[l]) /\ i > Len(runq[l])
        BY <2>2, <2>3, <2>5, <2>7, SMTT(30)
      <4>2. QED
        BY <2>3, <2>4, <4>1, ConcatProperties, SMTT(30)
    <3>3. runq'[l][i] \in woken
      BY <2>1, <3>1, <3>2
    <3>4. state[runq'[l][i]] = "SLEEPING"
      BY <3>3 DEF woken
    <3>5. QED
      BY <3>4
  <2>8. QED
    BY <2>6, <2>7
<1>6. QED
  BY <1>4, <1>5

\* A wakeup, exit() and fork() put on a queue only processes that did not wait on one, and
\* no other step of a process or of an interrupt moves anybody.
LEMMA StepsMoveNobody ==
  ASSUME IInv, [Next]_vars, \A c \in CPUs : ~Schedule(c)
  PROVE  NobodyMoves
<1>0. UNCHANGED runq => NobodyMoves
  BY DEF NobodyMoves
<1>1. ASSUME NEW c \in CPUs, NEW p \in Slots, Step(c, p)
      PROVE  NobodyMoves
  <2>1. CASE \/ Syscall(c, p) \/ SyscallDone(c, p) \/ TrapReturn(c, p) \/ Fault(c, p)
             \/ ForkAlloc(c, p) \/ ForkFail(c, p) \/ ExitCall(c, p) \/ Wait(c, p)
             \/ (\E ch \in (Chans \cup {p}) : Sleep(c, p, ch))
             \/ (\E target \in KillPids : Kill(c, p, target))
             \/ start_measure(c, p) \/ end_measure(c, p)
    <3>1. UNCHANGED runq
      BY <2>1 DEF Syscall, SyscallDone, TrapReturn, Fault, ForkAlloc, ForkFail, ExitCall,
                  Wait, Sleep, Kill, start_measure, end_measure, queueVars
    <3>2. QED
      BY <1>0, <3>1
  <2>2. CASE ForkDone(c, p)
    <3>1. ctx[p] = "fork" /\ \E e \in CPUs : enqueue(e, np[p])
      BY <2>2 DEF ForkDone, At
    <3>2. np[p] \in Slots /\ state[np[p]] = "EMBRYO"
      <4>1. np[p] \in 0..NPROC /\ np[p] # 0 /\ state[np[p]] = "EMBRYO"
        BY <3>1 DEF IInv, TypeOK, EmbryoOwned
      <4>2. QED
        BY <4>1, SlotFacts
    <3>3. state[np[p]] # "RUNNABLE"
      BY <3>2
    <3>4. QED
      BY <3>1, <3>2, <3>3, EnqueueMovesNobody
  <2>3. CASE Exit(c, p)
    <3>1. EnqueueWoken(SleepersOn(parent[p]), InitWoken(p))
      BY <2>3 DEF Exit
    <3>2. /\ SleepersOn(parent[p]) \cup InitWoken(p) \subseteq Slots
          /\ \A q \in SleepersOn(parent[p]) \cup InitWoken(p) : state[q] = "SLEEPING"
      BY DEF SleepersOn, InitWoken
    <3>3. QED
      BY <3>1, <3>2, WakingMovesNobody
  <2>4. CASE TimerTrap(c, p)
    <3>1. cpu_proc[c] = p /\ (UNCHANGED runq \/ enqueue(c, p))
      BY <2>4 DEF TimerTrap
    <3>2. state[p] = "RUNNING"
      BY <3>1, SlotFacts DEF IInv, RunsOnOneCpu
    <3>3. state[p] # "RUNNABLE"
      BY <3>2
    <3>4. QED
      BY <1>0, <3>1, <3>3, EnqueueMovesNobody
  <2>5. QED
    BY <1>1, <2>1, <2>2, <2>3, <2>4 DEF Step
<1>2. ASSUME NEW ch, wakeup1(ch)
      PROVE  NobodyMoves
  <2>1. /\ EnqueueWoken(SleepersOn(ch), {})
        /\ SleepersOn(ch) \cup {} \subseteq Slots
        /\ \A q \in SleepersOn(ch) \cup {} : state[q] = "SLEEPING"
    BY <1>2 DEF wakeup1, SleepersOn
  <2>2. QED
    BY <2>1, WakingMovesNobody
<1>3. CASE Tick
  BY <1>2, <1>3 DEF Tick
<1>4. CASE \E ch \in (Chans \cup Slots) : Wakeup(ch)
  BY <1>2, <1>4 DEF Wakeup
<1>5. CASE UNCHANGED vars
  BY <1>0, <1>5 DEF vars, queueVars
<1>6. QED
  BY <1>1, <1>3, <1>4, <1>5 DEF Next

\* The members of a queue, by position.
LEMMA MembersByPosition ==
  ASSUME NEW S, NEW s \in Seq(S), NEW p \in Members(s)
  PROVE  \E i \in 1..Len(s) : p = s[i]
BY SMTT(30) DEF Members

\* A scheduler that takes a process from queues rq leaves on each queue processes that were
\* on it.
LEMMA TookLeaves ==
  ASSUME NEW c \in CPUs, NEW rq \in Queues, NEW qc, NEW i, Took(c, rq, qc, i),
         NEW l \in CPUs, NEW p \in Members(runq'[l])
  PROVE  \E j \in 1..Len(rq[l]) : p = rq[l][j]
<1>1. runq' = [rq EXCEPT ![c] = dequeue(@, i)] /\ i \in 1..Len(rq[c])
  BY DEF Took
<1>2. rq[l] \in Seq(Slots) /\ rq[c] \in Seq(Slots)
  BY DEF Queues
<1>3. CASE l # c
  <2>1. runq'[l] = rq[l]
    BY <1>1, <1>3 DEF Queues
  <2>2. QED
    BY <1>2, <2>1, MembersByPosition, SMTT(30)
<1>4. CASE l = c
  <2>1. runq'[c] = dequeue(rq[c], i)
    BY <1>1 DEF Queues
  <2>2. /\ dequeue(rq[c], i) \in Seq(Slots) /\ Len(dequeue(rq[c], i)) = Len(rq[c]) - 1
        /\ \A k \in 1..Len(rq[c])-1 :
             dequeue(rq[c], i)[k] = IF k < i THEN rq[c][k] ELSE rq[c][k+1]
    BY <1>1, <1>2, DequeueProperties
  <2>3. PICK k \in 1..Len(rq[c])-1 : p = dequeue(rq[c], i)[k]
    BY <1>4, <2>1, <2>2, MembersByPosition, SMTT(30)
  <2>4. k \in 1..Len(rq[c]) /\ k + 1 \in 1..Len(rq[c])
    BY <1>2, <2>3, SMTT(30)
  <2>5. QED
    BY <1>4, <2>2, <2>3, <2>4
<1>5. QED
  BY <1>3, <1>4

LEMMA PushStep ==
  ASSUME IInv, [Next]_vars, NEW c \in CPUs, NEW l \in CPUs, NEW p \in Slots, c # l,
         p \in Members(runq[c]), p \in Members(runq'[l])
  PROVE  c \in ECores /\ l \in PCores /\ pid[p] > 2 /\ queue_count'[l] <= queue_count'[c]
<1>0. runq \in Queues /\ Distinct(runq) /\ queue_count \in [CPUs -> Int]
  BY DEF IInv, QueueInv
<1>1. PICK i \in 1..Len(runq[c]) : p = runq[c][i]
  <2>1. runq[c] \in Seq(Slots)
    BY <1>0 DEF Queues
  <2>2. QED
    BY <2>1, MembersByPosition
<1>2. ~ \E j \in 1..Len(runq[l]) : p = runq[l][j]
  BY <1>0, <1>1 DEF Distinct
<1>3. state[p] = "RUNNABLE"
  BY <1>1 DEF IInv, QueueInv, In
<1>4. ~NobodyMoves
  <2>1. IInv'
    BY NextStep
  <2>2. runq'[l] \in Seq(Slots)
    BY <2>1 DEF IInv, QueueInv, Queues
  <2>3. PICK k \in 1..Len(runq'[l]) : p = runq'[l][k]
    BY <2>2, MembersByPosition
  <2>4. QED
    BY <1>2, <1>3, <2>3 DEF NobodyMoves
<1>5. PICK d \in CPUs : Schedule(d)
  BY <1>4, StepsMoveNobody
<1>6. ASSUME NEW k, Took(d, runq, queue_count, k)
      PROVE  FALSE
  BY <1>0, <1>2, <1>6, TookLeaves
<1>7. PICK v \in DOMAIN runq[d], m \in CPUs :
        /\ Pushes(d, v, m)
        /\ \E k : Took(d, Pushed(d, v, m), PushedCounts(d, m), k)
  BY <1>5, <1>6, ScheduleForm
<1>8. /\ Pushed(d, v, m) \in Queues /\ d \in ECores /\ m \in PCores /\ d # m
      /\ v \in 1..Len(runq[d]) /\ runq[d][v] \in Slots
      /\ \A e \in CPUs : Pushed(d, v, m)[e] = IF e = d THEN dequeue(runq[d], v)
                                             ELSE IF e = m THEN Append(runq[m], runq[d][v])
                                             ELSE runq[e]
  BY <1>7, PushedQueues, SMTT(30)
<1>9. PICK k : Took(d, Pushed(d, v, m), PushedCounts(d, m), k)
  BY <1>7
<1>10. PICK j \in 1..Len(Pushed(d, v, m)[l]) : p = Pushed(d, v, m)[l][j]
  BY <1>8, <1>9, TookLeaves
<1>11. l = m /\ p = runq[d][v]
  <2>1. CASE l = d
    <3>1. runq[d] \in Seq(Slots)
      BY <1>0 DEF Queues
    <3>2. /\ Len(dequeue(runq[d], v)) = Len(runq[d]) - 1
          /\ \A x \in 1..Len(runq[d])-1 :
               dequeue(runq[d], v)[x] = IF x < v THEN runq[d][x] ELSE runq[d][x+1]
      BY <1>8, <3>1, DequeueProperties
    <3>3. j \in 1..Len(runq[d])-1 /\ p = dequeue(runq[d], v)[j]
      BY <1>8, <1>10, <2>1, <3>2
    <3>4. j \in 1..Len(runq[d]) /\ j + 1 \in 1..Len(runq[d])
      BY <3>1, <3>3, SMTT(30)
    <3>5. QED
      BY <1>2, <2>1, <3>2, <3>3, <3>4
  <2>2. CASE l # d /\ l # m
    BY <1>2, <1>8, <1>10, <2>2
  <2>3. CASE l = m /\ l # d
    <3>1. runq[m] \in Seq(Slots) /\ Pushed(d, v, m)[l] = Append(runq[m], runq[d][v])
      BY <1>0, <1>8, <2>3 DEF Queues
    <3>2. CASE j \in 1..Len(runq[m])
      <4>1. p = runq[m][j]
        BY <1>8, <1>10, <3>1, <3>2, SMTT(30)
      <4>2. QED
        BY <1>2, <2>3, <3>2, <4>1
    <3>3. CASE j \notin 1..Len(runq[m])
      <4>1. j = Len(runq[m]) + 1
        BY <1>8, <1>10, <3>1, <3>3, SMTT(30)
      <4>2. QED
        BY <1>8, <1>10, <2>3, <3>1, <4>1, SMTT(30)
    <3>4. QED
      BY <3>2, <3>3
  <2>4. QED
    BY <2>1, <2>2, <2>3
<1>12. c = d
  <2>1. runq[c][i] = runq[d][v]
    BY <1>1, <1>11
  <2>2. QED
    BY <1>0, <1>8, <2>1 DEF Distinct
<1>13. pid[p] > 2 /\ queue_count[d] >= queue_count[m] + 3
  BY <1>7, <1>11 DEF Pushes, Overloaded
<1>14. queue_count' = [PushedCounts(d, m) EXCEPT ![d] = @ - 1]
  BY <1>9 DEF Took
<1>15. queue_count'[d] = queue_count[d] - 2 /\ queue_count'[m] = queue_count[m] + 1
  BY <1>0, <1>8, <1>14, SMTT(30) DEF PushedCounts
<1>16. queue_count'[m] <= queue_count'[d]
  BY <1>0, <1>13, <1>15, SMTT(30)
<1>17. QED
  BY <1>8, <1>11, <1>12, <1>13, <1>16

\* A process that waits on a queue is moved to another one only by load_balance(), from an
\* E-core to a P-core whose queue is afterwards not the longer one, and never pid 1 or 2.
THEOREM PushesBalance == Spec => PushBalances
<1> DEFINE A == \A c, l \in CPUs, p \in Slots :
                  (c # l /\ p \in Members(runq[c]) /\ p \in Members(runq'[l])) =>
                    /\ c \in ECores /\ l \in PCores /\ pid[p] > 2
                    /\ queue_count'[l] <= queue_count'[c]
<1>1. IInv /\ [Next]_vars => [A]_vars
  BY PushStep
<1>2. QED
  BY <1>1, Invariance, PTL DEF Spec, PushBalances
=============================================================================
