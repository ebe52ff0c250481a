SPECIFICATION Spec
CONSTANTS
  p1 = p1
  p2 = p2
  p3 = p3
  Prompts <- MCPrompts
  MaxChunks = 1
  MaxCollected = 2
SYMMETRY Symmetry
INVARIANTS
  ResponsePersisted
CHECK_DEADLOCK FALSE
