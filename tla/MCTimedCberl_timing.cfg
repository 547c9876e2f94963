SPECIFICATION TimedSpec
CONSTANTS
  Callers = {c1, c2}
  Patient = {c2}
  MaxCalls = 3
  TimeoutArg = 2
INVARIANT WaitAtMostTwice
CHECK_DEADLOCK FALSE
