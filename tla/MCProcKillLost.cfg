SPECIFICATION FairSpec
CONSTANTS
  NPROC = 2
  NCPU = 1
  RR_QUANTUM_TICKS = 1
  TickWrap = 1
  MaxPid = 2
  KillPids = {2}
  Calls = {"fork", "sleep", "kill"}
  TickChan = tick
  Chans = {tick}
PROPERTIES KilledProcessRuns
CHECK_DEADLOCK FALSE
