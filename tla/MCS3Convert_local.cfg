SPECIFICATION Spec
CONSTANTS
  Arrays = {"a", "b"}
  Chunks = {"0", "1"}
  MaxFaults = 1
  NoDst = NoDst
CHECK_DEADLOCK FALSE
INVARIANTS MatchesLocal
