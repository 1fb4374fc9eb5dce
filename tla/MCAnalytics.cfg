SPECIFICATION AnalyticsSpec
CONSTANTS
  Entities = {1, 33, 513, 8193}
  Nil = Nil
  CmsRows = {0, 1, 2, 3}
  CmsCols <- UsedColumns
  Column <- CodeColumn
  Hash <- CodeHashes
  MaxRank = 9
  RateLimit = 2
  MaxOffered = 6
  BusyCells = {0, 255}
INVARIANTS
  SketchBounds
  RateBound
  PrivateLimit
  SketchOfWhoCame
PROPERTY LimiterSpec
