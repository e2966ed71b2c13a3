SPECIFICATION Spec
CONSTANTS
  Rank = 2
  MaxDim = 3
  MaxStep = 2
CHECK_DEADLOCK FALSE
INVARIANTS ReadFaithful ViewsSlabs
