SPECIFICATION FairSpec
CONSTANTS
  TotalSize = 5
  BlockSize = 2
  MaxCorrupt = 1
  Faulty = {}
PROPERTIES RedoRepairs
CHECK_DEADLOCK FALSE
