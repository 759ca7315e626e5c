CONSTANT num_pes = 3
SPECIFICATION Spec
INVARIANTS
  TypeOK
  MutualExclusion
  CriticalPutsComplete
  QueueEncoding
PROPERTIES
  LockCallsReturn
  FifoSpec
