CONSTANTS
  Pages = 4
  UserPages = 2
  TablePages = 1
  PageLimit = 4
  Processes = {p, q}
  Kernel = k
  NULL = NULL
  KernelThreads = {a, b}
  Settings <- MCSettingsUnlocked
  MaxPages = 2
  MaxRuns = 2
  BitsPerByte = 4
SPECIFICATION Spec
INVARIANT FramesNotShared
CHECK_DEADLOCK FALSE
