SPECIFICATION ReplaySpec
CONSTANTS
  Prompts = {p1, p2}
  MaxChunks = 2
  MaxCollected = 3
  MaxTime = 1
SYMMETRY Symmetry
INVARIANTS
  TypeOK
  OwnAnswer
  AnswerComplete
  ReplayExact
  QuestionFirst
PROPERTIES
  ImplementsTranscript
CHECK_DEADLOCK FALSE
