SPECIFICATION Spec
CONSTANTS
  Entities = {1}
  Nil = Nil
  Lats <- LatsNorth
  Lngs <- LngsNorth
  Fences = {"north"}
  Contains <- NorthContains
  FenceBox <- NorthBox
  CmsRows = {1, 2}
  CmsCols = {0, 1, 2}
  Column <- MCColumn
  RateLimit = 2
  Workers = {w1}
  Refs = {r1}
  MaxPackets = 3
  MaxSeeds = 1
  Serial = TRUE
  SetupFirst = TRUE
INVARIANT EnterAnnounced
