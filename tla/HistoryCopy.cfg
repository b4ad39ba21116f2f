SPECIFICATION FairSpec
CONSTANTS
  c1 = c1
  c2 = c2
  i1 = i1
  i2 = i2
  Calls = {c1, c2}
  Inodes = {i1, i2}
  Disks <- MCDisks
  Queries = {c1}
  NFiles = 3
  MaxSlots = 1
  MaxTries = 2
  MaxBlocks = 4
  Writes = 2
  None = None
INVARIANTS
  CopyExisted
  SpaceIsBounded
PROPERTY EveryCallAnswered
CHECK_DEADLOCK FALSE
