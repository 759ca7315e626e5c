CONSTANTS
  Jobs <- MCJobs
  COLL_CROSSOVER = 4
  tree_radix = 2
  NumSlots = 2
SPECIFICATION Spec
INVARIANTS
  BarrierCompletesPuts
  PSyncRestored
  WordsBounded
PROPERTY IsBarrier
