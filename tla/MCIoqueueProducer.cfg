CONSTANTS
  Threads = {m, i, c1, p1}
  main_thread = m
  idle_thread = i
  Priority <- MCPriority
  NULL = NULL
  Locks = {q}
  Started <- MCStarted
  BUFFSIZE = 3
  Chars = {a}
  Consumers = {c1}
  Producers = {p1}
  Keyboard = FALSE
  ioq = q
SPECIFICATION FairSpec
PROPERTIES
  BlockedProducerIsWoken
