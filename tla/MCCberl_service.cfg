SPECIFICATION FairSpec
CONSTANTS
  Callers = {c1, c2}
  Patient = {c2}
  MaxCalls = 3
PROPERTIES
  ImplementsService
  UsesExecutor
  EveryCallReturns
  AnsweredWhileUp
  TornDown
CHECK_DEADLOCK FALSE
