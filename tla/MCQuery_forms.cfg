SPECIFICATION Spec
CONSTANTS
  Ops = {"mean", "std", "quantile", "histogram", "null_count", "covariance", "zscore", "none"}
  NDim = 2
  Names <- MCNames
  MaxAxes = 2
  Hints = {"device", "memory_budget"}
CHECK_DEADLOCK FALSE
INVARIANTS UnknownReported HintsReachEngine AxesAsMeant
