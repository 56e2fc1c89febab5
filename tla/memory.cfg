SPECIFICATION FairSpec
CONSTANTS
  HeapSize = 17
  PageSize = 4
  KernelEnd = 6
  NumPages = 11
  PcbSize = 3
  MaxPid = 4
  MaxThreads = 7
INVARIANTS
  TypeOK
  SegmentsTile
  BestFit
  PcbsAreBlocks
  StacksDistinct
PROPERTIES
  AllocatorSpec
  WalkEnds
CHECK_DEADLOCK FALSE
