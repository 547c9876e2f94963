SPECIFICATION Spec
CONSTANTS
  Processes = {p1, p2}
  k1 = k1
  k2 = k2
  v1 = v1
  v2 = v2
  Keys = {k1, k2}
  Values = {v1, v2}
  Other = Other
  Crash = Crash
  Workload <- DataWorkload
  Nodes = 1
  MaxCalls = 3
  MaxForeign = 1
INVARIANTS
  TypeOK
  CasIdentifiesValue
  AckNamesOwnVersion
SYMMETRY Symmetry
CHECK_DEADLOCK FALSE
