CONSTANTS
  TREEBIN_SHIFT = 2
  NTREEBINS = 8
  SIZE_BITS = 8
  HeapBase = 8
  HeapLength = 24
  Granularity = 8
  TrimThreshold = 12
  MaxRequest = 900
  num_pes = 2
  AllocCalls <- MCAllocCalls
  ReallocSizes = {0, 60}
  MaxBlocks = 3
  MaxAhead = 2
  MaxCalls = 5
SPECIFICATION Spec
INVARIANTS HeapConsistent RemoteBlockValid AllFreedIsTop
