SPECIFICATION Spec
CONSTANTS
  Sessions = {s1}
  Closers = {c1}
  CliMayFail = FALSE
  MaxConcurrent = 1
  MaxPendingNew = 1
  MaxPrompts = 0
  MaxCrashes = 1
PROPERTIES
  StaleContainersCleared
CHECK_DEADLOCK FALSE
