CONSTANTS
  Threads = {m, i, c1, c2, p1}
  main_thread = m
  idle_thread = i
  Priority <- MCPriority
  NULL = NULL
  Locks = {q}
  Started <- MCStarted
  BUFFSIZE = 3
  Chars = {a, b}
  Consumers = {c1, c2}
  Producers = {p1}
  Keyboard = TRUE
  ioq = q
SPECIFICATION Spec
INVARIANTS
  NoPanic
  SleepsOnlyOnEmpty
PROPERTIES
  ImplementsFifo
