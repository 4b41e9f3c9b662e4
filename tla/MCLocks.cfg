SPECIFICATION MCSpec
CONSTANTS
  NCPU = 2
  NLOCK = 2
  Paths = {"timer", "sys_sleep", "sys_sleep_woken", "allocproc",
           "print_info", "cprintf", "consoleintr", "consoleread",
           "consoleread_woken", "exit", "wait", "pipewrite",
           "pipewrite_woken", "pipeclose", "begin_op", "begin_op_woken",
           "end_op", "iderw", "iderw_woken", "ideintr",
           "plock_acquire", "plock_acquire_woken", "plock_release", "acquiresleep",
           "acquiresleep_woken", "releasesleep", "rwlock_acquire", "rwlock_acquire_woken",
           "rwlock_release"}
  p1 = p1
  p2 = p2
  p3 = p3
  Procs = {p1, p2, p3}
  NoProc = none
  Strays = {p1}
  Priorities <- RankedPriorities
  Parents = {p2}
  Killable = {p1}
INVARIANTS LockSound OrderSound  NoLostWakeup
PROPERTIES SleepLockIsMutex PLockHandoverToHighest SleepersServed
CHECK_DEADLOCK FALSE
