SPECIFICATION Spec
CONSTANTS
  Procs = {p1, p2}
  NoProc = NoProc
  NInodes = 3
  Names = {"a", "b"}
  Paths <- MCPaths
  Copy <- MCCopy
  NFILE = 2
  NOFILE = 2
  MaxOps = 2
  MaxCalls = 3
  Calls = {"create", "open", "unlink", "mkdir", "mknod", "chdir", "link", "make_duplicate", "close", "exit", "dup", "fork"}
SYMMETRY Symmetry
INVARIANTS CountsRight   DeadlocksKnown
CHECK_DEADLOCK FALSE
