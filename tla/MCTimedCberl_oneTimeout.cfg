SPECIFICATION TimedSpec
CONSTANTS
  Callers = {c1, c2}
  Patient = {c2}
  MaxCalls = 2
  TimeoutArg = 2
INVARIANT
  CallWithinTimeout
CHECK_DEADLOCK FALSE
