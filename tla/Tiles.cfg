SPECIFICATION Spec
CONSTANTS
  v1 = v1
  v2 = v2
  Inputs <- MCInputs
  Previous <- MCPrevious
  Fragile = {"w1"}
  Vehicles <- TwoVehicles
  Places <- MCPlaces
  Paths <- MCPaths
  Clearance = 1
  BackFaces = FALSE
  KeepRadius = 6
  MaxResident = 3
  Period = 2
  MaxTick = 5
SYMMETRY AnyVehicle
INVARIANTS
  NodesBounded
  StreamedInTime
  NearTilesKept
  NoChurn
  ClearIsClear
  NoPhantomTiles
CHECK_DEADLOCK FALSE
