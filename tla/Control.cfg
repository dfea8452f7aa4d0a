SPECIFICATION Spec
CONSTANTS
  Commands <- MCCommands
  Requests <- MCRequests
  Vehicles = {0, 1}
  BaseInstance = 1
  MaxInstance = 3
  MaxId = 2
INVARIANTS
  NothingLeaks
  OneSitlPerPort
PROPERTIES
  CommandsServed
  ChildrenReaped
  ShutdownEnds
CHECK_DEADLOCK FALSE
