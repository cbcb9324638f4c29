CONSTANTS
  Threads = {k, l}
  Processes = {p, q}
  Pages = 6
  UserPages = 2
  TablePages = 3
  PageLimit = 4
  Kernel = Kernel
  NULL = NULL
SYMMETRY Symmetry
SPECIFICATION Spec
INVARIANTS
  OwnSpace
  FrameInPlace
  PidsUnique
  StaleOnlyUnmapped
