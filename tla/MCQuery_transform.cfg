SPECIFICATION Spec
CONSTANTS
  Ops = {"zscore", "minmax"}
  NDim = 2
  Names <- MCNames
  MaxAxes = 1
  Hints = {"device"}
CHECK_DEADLOCK FALSE
INVARIANTS ResultOfOp
