CONSTANTS
  Slots = 4
  Logics = 2
  MaxPrimaries = 4
  MaxChain = 3
  Sizes = {5, 7, 8, 10, 16, 17}
  inode_table_sects = 3
  BITS_PER_SECTOR = 8
  BITS_PER_BYTE = 2
  MaxCrashes = 1
  NONE = NONE
SPECIFICATION FSpec
INVARIANTS
  PartitionsListed
  BuffersFreed
  MountedIsComplete
  FormattedIsComplete
PROPERTIES
  FilesKept
  BootDone
CHECK_DEADLOCK FALSE
