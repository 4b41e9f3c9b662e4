SPECIFICATION MCSpec
CONSTANTS
  Procs = {p1, p2}
  Blocks = {b1, b2, b3}
  Vals = {0, 1}
  InitVal = 0
  OpBlocks = 1
  MAXOPBLOCKS = 2
  LOGSIZE = 4
  nlog = 4
  NoProc = none
  NBUF = 2
  NoBlock = noblock
INVARIANTS LogSound CacheSound
PROPERTIES IsAtomic SleeperWoken RequestServed
CHECK_DEADLOCK FALSE
