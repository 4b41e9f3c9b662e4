SPECIFICATION Spec
CONSTANTS
  Procs = {p1, p2}
  NoProc = NoProc
  NInodes = 3
  Names = {"a", "b"}
  Paths <- MCPaths
  Copy <- MCCopy
  NFILE = 2
  NOFILE = 1
  MaxOps = 2
  MaxCalls = 3
  Calls = {"open", "unlink"}
SYMMETRY Symmetry
INVARIANT UnusedFreed
CHECK_DEADLOCK FALSE
