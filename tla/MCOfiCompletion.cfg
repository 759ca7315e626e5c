CONSTANTS
  t1 = t1
  t2 = t2
  None = None
  Threads <- MCThreads
  MaxBB = 2
  TxDepth = 2
  Builds <- MCBuilds
SPECIFICATION Spec
INVARIANTS
  QuietCompletes
  CompletionCounting
  BuffersAccounted
PROPERTIES
  CallsReturn
