SPECIFICATION Spec
CONSTANTS
  Entities = {1, 2}
  Nil = Nil
  Lats <- LatsLine
  Lngs <- LngsLine
  Fences = {"small", "wide"}
  Contains <- MCContains
  FenceBox <- MCFenceBox
  CmsRows = {1, 2}
  CmsCols = {0, 1, 2}
  Column <- MCColumn
  RateLimit = 2
  Workers = {w1, w2}
  Refs = {r1, r2}
  MaxPackets = 3
  MaxSeeds = 1
  Serial = TRUE
  SetupFirst = TRUE
SYMMETRY Interchangeable
INVARIANTS
  TypeOK
  GridMatchesHistory
  EnterNeverMissed
  EventsAlternate
  NoExitWithoutEnter
  NoDuplicateCommitted
