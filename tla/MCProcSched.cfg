SPECIFICATION Spec
CONSTANTS
  NPROC = 4
  NCPU = 2
  RR_QUANTUM_TICKS = 2
  TickWrap = 2
  MaxPid = 4
  KillPids = {}
  Calls = {"fork"}
  TickChan = tick
  Chans = {tick}
INVARIANTS SliceRespected
PROPERTIES PushBalances 
CHECK_DEADLOCK FALSE
