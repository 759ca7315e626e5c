SPECIFICATION Spec
CONSTANTS
  num_pes = 3
  TEAMS_MAX = 4
  Nodes <- OneNode
  Children <- AllPEs
  Programs <- Broadcasts
  MaxCalls = 3
INVARIANTS PsyncSafe
CHECK_DEADLOCK FALSE
