SPECIFICATION Spec
CONSTANTS
  Sessions = {s1}
  Closers = {c1}
  CliMayFail = FALSE
  MaxConcurrent = 1
  MaxPendingNew = 1
  MaxPrompts = 1
  MaxCrashes = 0
PROPERTIES
  IdleOnlyWhenUnused
CHECK_DEADLOCK FALSE
