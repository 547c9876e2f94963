SPECIFICATION Spec
CONSTANTS
  Keys = {k1, k2, k3}
  Servers = {s1, s2}
  MaxItems = 3
  MaxOps = 1
INVARIANT
  RepliesInRequestOrder
CHECK_DEADLOCK FALSE
