CONSTANTS
  NumPEs = 7
  MaxStride = 3
  MaxTreePEs = 13
  MaxRadix = 5
  ChunkSizes <- MCChunkSizes
  MaxInBins = 5
  TREEBIN_SHIFT = 2
  NTREEBINS = 4
  SIZE_BITS = 6
SPECIFICATION Spec
INVARIANTS
  TreesSpan
  TeamNumbering
  SharedTeamIsNode
  BinsGiveBestFit
