SPECIFICATION MCSpec
CONSTANTS
  Writers = {w1, w2}
  Readers = {r1}
  PIPESIZE = 2
  Wrap = 4
  Byte = {"a", "b"}
  Junk = "junk"
  Buffers <- SomeBuffers
  MaxRead = 2
  Killable = {w1, r1}
  Inums = {1, 2}
  Handles = {h1, h2}
  Bytes = {8, 9}
  NBlocks = 5
  BSIZE = 2
  NDIRECT = 1
  MaxChunk = 2
  MaxData = 3
  UintMax = 31
  MaxSteps = 5
  Procs = {p1, p2}
  initproc = p1
  Page <- MCPages
  NoPage = 0
  PGSIZE = 2
  PPT = 3
  NPDE = 3
  UintMod = 64
  Increments <- MCIncrements
  Images <- MCImages
  MaxCalls = 4
  HeapMax = 13
  MinCore = 4
  Requests = {1, 2, 4}
SYMMETRY Symmetry
INVARIANTS PipeSound BlocksSound PagesSound SpaceSound HeapSound
PROPERTIES EndIsEnd IsStream  ForkCopies
CHECK_DEADLOCK FALSE
