CONSTANTS
  Pages = 4
  UserPages = 4
  TablePages = 2
  PageLimit = 4
  Processes = {p}
  Kernel = k
  NULL = NULL
  PG_SIZE = 10
  ArenaSize = 4
  MinBlock = 2
  DESC_CNT = 2
  Sizes = {0, 2, 3, 7, 14, 33}
  PageRequests = {1}
  MaxLive <- MCMaxLive
SPECIFICATION Spec
INVARIANTS
  AllocationsDisjoint
  FreeListsExact
  BitmapsExact
  ScanIsFirstFit
CHECK_DEADLOCK FALSE
