SPECIFICATION Spec
CONSTANTS
  NPROC = 3
  NCPU = 2
  RR_QUANTUM_TICKS = 1
  TickWrap = 1
  MaxPid = 4
  KillPids = {0, 3}
  Calls = {"fork", "exit", "wait", "sleep", "kill", "fault"}
  TickChan = tick
  Chans = {tick}
INVARIANTS QueuesSound RunsOnOneCpu FamilySound NoMissedExit
 
CHECK_DEADLOCK FALSE
