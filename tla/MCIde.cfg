CONSTANTS
  Threads = {a, b}
  Disks = {0, 1}
  Sectors = 3
  MaxOp = 2
  MaxCnt = 3
  Limit = 3
  Values = {"x", "y"}
  NULL = NULL
SPECIFICATION FairSpec
INVARIANTS
  CommandsDoNotOverlap
  TransfersExact
PROPERTIES
  WritesOnlyRequested
  CallsReturn
CHECK_DEADLOCK FALSE
