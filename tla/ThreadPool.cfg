SPECIFICATION PoolSpec
CONSTANTS
  N = 3
  Counts <- MCCounts
  MaxCalls = 3
INVARIANTS
  NoUseAfterReturn
  EachIndexOnce
PROPERTIES
  CallReturns
  JoinReturns
CHECK_DEADLOCK FALSE
