SPECIFICATION LocalSpec
CONSTANTS
  Committers = {c1, c2}
  Readers = {r1}
  Parts = {p1, p2}
  Tets = {"x1", "x2"}
  Claim <- MCClaim
  Schema <- MCSchema
  Datasets = {"x", "y"}
  MaxGen = 2
  MaxAcked = 2
  Explicit = {2}
  Packed = {1}
  Direct = FALSE
  MayReseal = FALSE
  Prunes = FALSE
  HoldsGil = FALSE
  NoTet = NoTet
  NoClient = NoClient
  Dead = Dead
SYMMETRY Symmetry
CHECK_DEADLOCK FALSE
INVARIANTS LocalTypeOK NoFork
PROPERTIES StagedKept RemovedOnlyPacked SchemaKept
