SPECIFICATION Spec
CONSTANTS
  Callers = {c1, c2}
  Patient = {}
  MaxCalls = 4
SYMMETRY Symmetry
INVARIANTS
  TypeOK
  AnswerIsOwn
  ExecutedInCallOrder
  LeftoversAreTimedOut
  ReceiveIsUnambiguous
  RequestsAreTracked
CHECK_DEADLOCK FALSE
