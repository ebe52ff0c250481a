SPECIFICATION FairSpec
CONSTANTS
  Tasks = {t1, t2}
  NoTask = NoTask
  Values = {1, 2}
  MaxTime = 3
  MaxCrashes = 1
INVARIANTS
  TypeOK
  RunningHasOwner
  OnceAtMostOnce
PROPERTIES
  CancelHolds
  IntervalRespected
  DueTaskRuns
CHECK_DEADLOCK FALSE
