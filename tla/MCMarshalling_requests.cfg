SPECIFICATION Spec
CONSTANTS
  ShortBits = 2
  IntBits = 4
  LongBits = 5
  Workload <- AllRequests
  Codes <- AllCodes
  MaxCalls = 1
INVARIANTS
  RefusedIfUnfit
  CommandIsAsAsked
  ResultIsTold
CHECK_DEADLOCK FALSE
