SPECIFICATION Spec
CONSTANTS
  Null = Null
  Strings = {"s", "t", "a", "b", "c", "A", "1", "2"}
  Missing = Missing
  Requests <- MCRequests
  Listings <- MCListings
  AgentTexts = {"note"}
  MaxTokens = 6
  MaxDamage = 2
INVARIANTS
  TypeOK
  ModeAgrees
  TextKept
  McpDelivered
  DetectionMonotone
PROPERTIES
  OnlyFirstSectionReplaced
CHECK_DEADLOCK FALSE
