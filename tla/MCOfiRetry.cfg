CONSTANTS
  t1 = t1
  t2 = t2
  None = None
  Threads <- MCThreads
  MaxBB = 2
  TxDepth = 1
  Builds <- RetryBuilds
SPECIFICATION Spec
PROPERTY RetryComes
