SPECIFICATION Spec
CONSTANTS
  Sessions = {s1}
  Closers = {c1}
  CliMayFail = FALSE
  MaxConcurrent = 1
  MaxPendingNew = 1
  MaxPrompts = 0
  MaxCrashes = 0
INVARIANTS
  NothingActiveAfterShutdown
CHECK_DEADLOCK FALSE
