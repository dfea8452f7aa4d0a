CONSTANTS
  Dt = 1
  Tau = 1
  OmegaMax = 16
  Arm = 2
  KTorque = 1
  Gravity = 256
  LinDrag <- MCLinDrag
  InertiaInverse <- MCInertiaInverse
  Pwm <- MCPwm
  Packs <- MCPacks
  Winds <- MCWinds
  Attitudes <- MCAttitudes
  Kicks <- MCKicks
  Options <- MCOptions
  Capacity = 1024
  Widths = {3, 22}
  MaxTick = 3
SPECIFICATION Spec
INVARIANTS
  RepliesFit
PROPERTIES
  FrozenHoldsPose
  BatteryHonest
  ImplementsRigidBody
CHECK_DEADLOCK FALSE
