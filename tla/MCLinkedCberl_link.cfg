SPECIFICATION LinkedFairSpec
CONSTANTS
  Callers = {o, c}
  Patient = {o}
  Owner = o
  OwnerTraps = FALSE
  MaxCalls = 2
PROPERTIES
  ConnectionFollowsOwner
  OwnerNeverHangs
CHECK_DEADLOCK FALSE
