CONSTANTS
  AllPEs <- MCAllPEs
  Host <- MCHost
  Builds <- MCBuilds
  Bases = {1, 2}
  MaxPuts = 1
SPECIFICATION Spec
INVARIANTS
  NothingLost
  ReleasedAfterAll
  LayersNested
  PeersKnown
PROPERTIES
  JobEnds
CHECK_DEADLOCK FALSE
