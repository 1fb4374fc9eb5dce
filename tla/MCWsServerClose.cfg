SPECIFICATION Spec
CONSTANTS
  Entities = {e1}
  Nil = Nil
  Subs = {1}
  TickCells = {3, 4}
  CellsOf <- MCCellsOf
  ChanCap = 1
  MaxDropped = 1
  Followers = {1}
INVARIANT NoSendOnClosedChannel
