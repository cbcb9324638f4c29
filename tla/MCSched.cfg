CONSTANTS
  Threads = {m, i, t1, t2}
  main_thread = m
  idle_thread = i
  Priority <- MCPriority
  TickMod = 3
  Sleepers = {t1}
  SleepTicks = {1, 2}
SPECIFICATION FairSpec
INVARIANTS
  NoPanic
  ReadyListExact
  IdleHaltsOnlyWhenNothingIsReady
PROPERTIES
  SleepNotShort
  ReadyRuns
