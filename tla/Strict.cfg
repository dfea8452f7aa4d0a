SPECIFICATION Spec
CONSTANTS
  v1 = v1
  v2 = v2
  Vehicles <- MCVehicles
  MaxTick = 3
  Garbage = TRUE
  StrictTimeout = 1
INVARIANTS
  LockstepCount
  AbortNamesAStraggler
PROPERTIES
  StagedFrameResolved
CHECK_DEADLOCK FALSE
