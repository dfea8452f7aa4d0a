SPECIFICATION Spec
CONSTANTS
  v1 = v1
  v2 = v2
  Vehicles <- MCVehicles
  MaxTick = 5
  Garbage = TRUE
  HoldTicks = 1
  GraceTicks = 1
  MaxLag = 1
  MaxDue = 3
  Prompt <- MCPrompt
INVARIANTS
  FrozenBodyAgrees
  NoZombie
  PromptNeverFrozen
  LagBounded
PROPERTIES
  GraceIsExact
  FrameTakenUp
CHECK_DEADLOCK FALSE
