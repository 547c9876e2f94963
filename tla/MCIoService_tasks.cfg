SPECIFICATION FairSpec
CONSTANT MaxTasks = 5
INVARIANTS
  TypeOK
  NoLostWakeUp
  OutstandingIsCounted
PROPERTIES
  ImplementsExecutor
  DestructorEnds
  EveryTaskRuns
CHECK_DEADLOCK FALSE
