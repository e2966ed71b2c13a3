SPECIFICATION SpillSpec
CONSTANTS
  Sessions = {s1}
  Handles = {h1}
  Datasets = {"a", "b"}
  NoData = NoData
  Results = {r1, r2}
  Methods = {zscore}
  Elements <- MCElements
  Wide <- MCWide
  Overwrites = FALSE
  NoResult = NoResult
SYMMETRY Symmetry
CHECK_DEADLOCK FALSE
INVARIANTS LengthChecked
