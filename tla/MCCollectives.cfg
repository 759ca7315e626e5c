SPECIFICATION Spec
CONSTANTS
  Jobs <- MCJobs
  MaxElems = 8
  NumSlots = 5
  COLL_CROSSOVER = 3
  COLL_SIZE_CROSSOVER = 2
  tree_radix = 2
INVARIANTS ResultIsComplete PSyncRestored
