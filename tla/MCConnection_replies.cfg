SPECIFICATION Spec
CONSTANTS
  Keys = {k1, k2}
  Servers = {s1, s2}
  MaxItems = 3
  MaxOps = 2
INVARIANTS
  CookieIsAlive
  RepliesCoverRequest
  HttpStatusIsSet
CHECK_DEADLOCK FALSE
