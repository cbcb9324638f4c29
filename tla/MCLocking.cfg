CONSTANTS
  Threads = {m, i, t1, t2}
  main_thread = m
  idle_thread = i
  Priority <- MCPriority
  NULL = NULL
  Locks = {l}
  Started <- MCStarted
  MaxDepth = 2
SPECIFICATION FairSpec
INVARIANTS
  NoPanic
  MutualExclusion
  TagOnOneList
  NoLostWakeup
PROPERTIES
  ImplementsMutex
  LockMovesOn
CHECK_DEADLOCK FALSE
