CONSTANTS
  Sizes = {1, 2, 4, 8}
  MinAlloc = 1
  Requests = {1, 3}
  MaxChunks = 3
  NoList = NoList
  NoBlock = NoBlock
SPECIFICATION FairSpec
INVARIANTS NoOverlap ListOnDiskSafe Accounted
PROPERTIES EventuallyFlushed
CHECK_DEADLOCK FALSE
