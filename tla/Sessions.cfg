SPECIFICATION Spec
CONSTANTS
  Sessions = {s1, s2, s3}
  Closers = {}
  CliMayFail = FALSE
  MaxConcurrent = 1
  MaxPendingNew = 2
  MaxPrompts = 0
  MaxCrashes = 1
SYMMETRY Symmetry
INVARIANTS
  TypeOK
  CapacityOvershoot
PROPERTIES
  RunnerSpec
CHECK_DEADLOCK FALSE
