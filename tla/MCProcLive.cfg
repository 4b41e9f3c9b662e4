SPECIFICATION FairSpec
CONSTANTS
  NPROC = 3
  NCPU = 2
  RR_QUANTUM_TICKS = 2
  TickWrap = 2
  MaxPid = 3
  KillPids = {}
  Calls = {"fork", "exit", "measure"}
  TickChan = tick
  Chans = {tick}
PROPERTY EcoreNoStarvation
CHECK_DEADLOCK FALSE
