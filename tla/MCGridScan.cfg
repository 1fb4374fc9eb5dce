SPECIFICATION Spec
CONSTANTS
  Entities = {1, 17}
  Nil = Nil
  Lats = {0}
  Lngs <- ScanLngs
  Circle <- MCCircle
  CircleBox <- MCCircleBox
  MaxMoves = 2
INVARIANTS
  StillEntitiesExact
  SightingsOwed
