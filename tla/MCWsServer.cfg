SPECIFICATION FairSpec
CONSTANTS
  Entities = {e1, e2}
  Nil = Nil
  Subs = {1}
  TickCells = {3, 4}
  CellsOf <- MCCellsOf
  ChanCap = 2
  MaxDropped = 1
  Followers = {1}
INVARIANTS
  TypeOK
  IndexMatchesTable
  ChannelLifetime
  ServedWhileUp
  ReleasedWhenDone
PROPERTIES
  GoneClientReleased
  TickNeverBlocks
