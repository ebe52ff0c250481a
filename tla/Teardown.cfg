SPECIFICATION FairSpec
CONSTANTS
  Sessions = {s1}
  Closers = {c1, c2}
  CliMayFail = TRUE
  MaxConcurrent = 1
  MaxPendingNew = 1
  MaxPrompts = 2
  MaxCrashes = 1
INVARIANTS
  EveryContainerKnown
  TeardownAhead
  UncountedContainersEnd
  ClosedSessionIsInert
  AgentAccountedFor
  ActiveRowExplained
  ShutdownClosesSnapshot
PROPERTIES
  ActiveLosesContainerToIdle
  IdleTeardown
  ShutdownCompletes
CHECK_DEADLOCK FALSE
