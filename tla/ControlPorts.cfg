SPECIFICATION Spec
CONSTANTS
  Commands <- MCCommands
  Requests <- MCRequests
  Vehicles = {0, 1}
  BaseInstance = 1
  MaxInstance = 3
  MaxId = 2
INVARIANT
  FreeInstancesAreFree
CHECK_DEADLOCK FALSE
