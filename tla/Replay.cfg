SPECIFICATION Spec
CONSTANTS
  N = 2
  MaxBodies = 3
  MaxTick = 3
INVARIANTS
  AlignedTapeReplays
CHECK_DEADLOCK FALSE
