SPECIFICATION Spec
CONSTANTS
  a = a
  b = b
  col0 = col0
  col1 = col1
  d2 = d2
  d4 = d4
  f1 = f1
  f2 = f2
  f4 = f4
  NaN = NaN
  Labels = {a, b, col0, col1}
  Digits = {d2, d4}
  Int64 = {d2}
  Floats = {f1, f2, f4, NaN}
  FloatCells = {f1, NaN}
  ToFloat <- MCToFloat
  Width = 2
  ColName <- MCColName
  MaxLabels = 2
  Seen <- MCSeen
  MaxRows = 4
CHECK_DEADLOCK FALSE
INVARIANTS TypeOK RowsFaithful NoteInvertible ImportsExpected
