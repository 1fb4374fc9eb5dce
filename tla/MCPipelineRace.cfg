SPECIFICATION Spec
CONSTANTS
  Entities = {1}
  Nil = Nil
  Lats <- LatsSquare
  Lngs <- LngsSquare
  Fences = {}
  Contains <- MCContains
  FenceBox <- MCFenceBox
  CmsRows = {1, 2}
  CmsCols = {0, 1}
  Column <- MCColumn
  RateLimit = 2
  Workers = {w1, w2}
  Refs = {r1, r2, r3}
  MaxPackets = 3
  MaxSeeds = 1
  Serial = FALSE
  SetupFirst = FALSE
SYMMETRY Interchangeable
INVARIANTS
  NeverLost
  NoTornHistory
  AnalyticsComplete
  Accounting
