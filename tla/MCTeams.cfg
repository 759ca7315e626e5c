SPECIFICATION Spec
CONSTANTS
  num_pes = 3
  TEAMS_MAX = 3
  Nodes <- TwoNodes
  Children <- SomeChildren
  Programs <- TwoPrograms
  MaxCalls = 4
INVARIANTS PsyncOwnership OwnPsyncSafe SplitAllOrNothing NobodyStuck
CHECK_DEADLOCK FALSE
