SPECIFICATION Spec
CONSTANTS
  Committers = {c1, c2}
  Readers = {r1}
  Parts = {p1, p2}
  t1 = t1
  t2 = t2
  Tets <- MCOneTet
  Claim <- MCClaim
  MaxGen = 2
  MaxAcked = 1
  Explicit = {2}
  Direct = TRUE
  MayReseal = TRUE
  Prunes = TRUE
  HoldsGil = FALSE
  NoTet = NoTet
  NoClient = NoClient
  Dead = Dead
SYMMETRY Symmetry
CHECK_DEADLOCK FALSE
PROPERTIES OnlyCasDangles HandlePinned
