SPECIFICATION Spec
CONSTANTS
  Committers = {c1, c2}
  Readers = {r1}
  Parts = {p1, p2}
  t1 = t1
  t2 = t2
  Tets <- MCTets
  Claim <- MCClaim
  MaxGen = 3
  MaxAcked = 3
  Explicit = {}
  Direct = FALSE
  MayReseal = FALSE
  Prunes = FALSE
  HoldsGil = FALSE
  NoTet = NoTet
  NoClient = NoClient
  Dead = Dead
SYMMETRY Symmetry
CHECK_DEADLOCK FALSE
INVARIANTS TypeOK SelectionWhole AckedDurable
PROPERTIES CurrentAdvances KeepsPromise
