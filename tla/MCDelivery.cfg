SPECIFICATION FairSpec
CONSTANTS
  Entities = {1, 2}
  Nil = Nil
  TickCells = {3, 4}
  Subs = {1}
  CellsOf <- MCCellsOf
  Wanted <- MCWanted
  ChanCap = 2
  MaxVersion = 2
INVARIANTS
  TypeOK
  OneFrameEach
PROPERTIES
  FeedSpec
  Fresh
