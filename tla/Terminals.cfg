SPECIFICATION FairSpec
CONSTANTS
  t1 = t1
  t2 = t2
  NoLimit = NoLimit
  Terminals <- MCTerminals
  Chunks <- MCChunks
  ErrorText <- MCErrorText
  Limits <- MCLimits
  MaxChunks = 2
  MaxWaits = 1
INVARIANTS
  TypeOK
  NoProcessLeft
  OutputIsTail
  ExitStatusAgrees
PROPERTIES
  ReleaseEndsWaits
CHECK_DEADLOCK FALSE
