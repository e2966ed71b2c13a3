SPECIFICATION SpillSpec
CONSTANTS
  Sessions = {s1, s2}
  Handles = {h1}
  Datasets = {"a", "b"}
  NoData = NoData
  Results = {r1, r2}
  Methods = {zscore, minmax}
  Elements <- MCElements
  Wide <- MCWide
  Overwrites = TRUE
  NoResult = NoResult
SYMMETRY Symmetry
CHECK_DEADLOCK FALSE
INVARIANTS SpillTypeOK WrittenOnce SpillFaithful SidecarFaithful
