CONSTANTS
  Tasks = {a, b}
  Inodes = {0, 1, 2}
  Existing = {0}
  Copies = {x, y}
  InodeCells = 2
  SectorCells = 3
  Wrap = 2
  MaxChange = 2
  NONE = NONE
SYMMETRY Symmetry
SPECIFICATION Spec
INVARIANTS
  WalkOnList
  OneCopy
  CountIsHolders
  SyncKept
CHECK_DEADLOCK FALSE
