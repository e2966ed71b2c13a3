SPECIFICATION ConvertSpec
CONSTANTS
  Arrays = {"a", "b"}
  Chunks = {"0", "1"}
  MaxFaults = 2
  NoDst = NoDst
  LinkNames = {"x", "y"}
  MaxDepth = 3
CHECK_DEADLOCK FALSE
INVARIANTS ConvertTypeOK MatchesLocalUnfaulted NothingInvented ConfigurationReported TreeComplete
 
