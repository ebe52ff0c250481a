SPECIFICATION Spec
CONSTANTS
  Writes = {w1, w2}
  Reads = {r1}
  Original = Original
  Garbled = Garbled
  Null = Null
  MaxLines = 2
SYMMETRY Symmetry
INVARIANTS
  TypeOK
  LoneWriteStored
  NoShiftedLines
  ReadExact
CHECK_DEADLOCK FALSE
