SPECIFICATION Spec
CONSTANTS
  v1 = v1
  v2 = v2
  Inputs <- MCInputs
  Previous <- MCPrevious
  Fragile = {"w0"}
  Vehicles <- OneVehicle
  Places <- MCPlaces
  Paths <- MCPaths
  Clearance = 1
  BackFaces = FALSE
  KeepRadius = 2
  MaxResident = 2
  Period = 2
  MaxTick = 3
INVARIANT
  GeometryHonest
CHECK_DEADLOCK FALSE
