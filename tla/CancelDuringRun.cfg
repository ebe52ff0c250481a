SPECIFICATION Spec
CONSTANTS
  Tasks = {t1}
  NoTask = NoTask
  Values = {1}
  MaxTime = 2
  MaxCrashes = 0
PROPERTIES
  CancelledNotRescheduled
CHECK_DEADLOCK FALSE
