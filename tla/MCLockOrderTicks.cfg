SPECIFICATION Spec
CONSTANTS
  NCPU = 2
  Paths = {"timer", "allocproc"}
INVARIANTS NoCircularWait
