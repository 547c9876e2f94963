SPECIFICATION FairSpec
CONSTANT MaxOps = 4
INVARIANTS
  TypeOK
  UsedWhileOpen
  UpMeansConnected
  NothingIsLeft
  OwnersAreCounted
PROPERTIES
  ConnectReturns
  ClientGoes
  ConnectionGoes
CHECK_DEADLOCK FALSE
