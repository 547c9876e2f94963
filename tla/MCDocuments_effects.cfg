SPECIFICATION Spec
CONSTANTS
  Processes = {p1, p2}
  k1 = k1
  k2 = k2
  v1 = v1
  v2 = v2
  Keys = {k1}
  Values = {v1}
  Other = Other
  Crash = Crash
  Workload <- EffectsWorkload
  Nodes = 3
  MaxCalls = 3
  MaxForeign = 1
PROPERTIES
  NoLostUpdate
  EffectIsAsAsked
  DurableWhenTold
SYMMETRY Symmetry
CHECK_DEADLOCK FALSE
