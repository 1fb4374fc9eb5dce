------------------------------ MODULE GridScan ------------------------------
(***************************************************************************)
(* Reading the grid while entities move: QueryCircle, Count, ShardStats    *)
(* and Get of pkg/spatial/grid.go against RouteWithPrevious and Remove.    *)
(*                                                                         *)
(* A scan visits slots, one stripe of one cell each, and locks only the    *)
(* slot it is reading; a move deletes under one lock and inserts under     *)
(* another. Here the packets of an entity are serial.                      *)
(***************************************************************************)
EXTENDS SpatialGrid, FiniteSets

CONSTANTS
  Circle,     \* the positions within the radius of the query
  CircleBox,  \* its centre and half-widths, as ShardsForRadius derives them
  MaxMoves    \* bound: updates of one entity during one scan

ASSUME ScanAssumption ==
  /\ Entities \subseteq Nat
  /\ Nil \notin Points
  /\ CircleBox \in [lat : -90 .. 90, lng : -180 .. 180, dLat : Nat, dLng : Nat]
  /\ Circle \subseteq Points
  /\ MaxMoves \in Nat

VARIABLES
  place,   \* the position an entity was last routed to, or Nil
  target,  \* the position a move has deleted the old entry for, or Nil
  op,      \* the scan in progress, or "idle"
  wanted,  \* the entity Get looks for
  todo,    \* the slots it has yet to visit
  found,   \* how often it has come across each entity
  moves    \* history: updates that overlap the scan

vars == <<grid, place, target, op, wanted, todo, found, moves>>
scan == <<op, wanted, todo, found>>

Stripe(e) == e % 16
Slots(cells, stripes) == { 16 * c + s : c \in cells, s \in stripes }

Scans == {"query", "count", "get"}

Init ==
  /\ GridInit
  /\ place = [e \in Entities |-> Nil] /\ target = [e \in Entities |-> Nil]
  /\ op = "idle" /\ wanted = Nil /\ todo = {}
  /\ found = [e \in Entities |-> 0] /\ moves = [e \in Entities |-> 0]

-----------------------------------------------------------------------------
(* The writers. *)

\* An update of e begins; the bound only counts those a scan can notice.
Update(e) ==
  IF op = "idle" THEN UNCHANGED moves
  ELSE moves[e] < MaxMoves /\ moves' = [moves EXCEPT ![e] = @ + 1]

\* RouteWithPrevious without a previous position, or within a cell.
Put(e, p) ==
  /\ target[e] = Nil /\ p # place[e]
  /\ place[e] # Nil => ShardKey(place[e]) = ShardKey(p)
  /\ Update(e) /\ Route(e, p)
  /\ place' = [place EXCEPT ![e] = p]
  /\ UNCHANGED <<target, scan>>

\* RouteWithPrevious across cells: delete, then insert.
LeaveCell(e, p) ==
  /\ target[e] = Nil /\ place[e] # Nil /\ ShardKey(place[e]) # ShardKey(p)
  /\ Update(e) /\ DeleteEntry(e, ShardKey(place[e]))
  /\ target' = [target EXCEPT ![e] = p]
  /\ UNCHANGED <<place, scan>>

EnterCell(e) ==
  /\ target[e] # Nil
  /\ Route(e, target[e])
  /\ place' = [place EXCEPT ![e] = target[e]]
  /\ target' = [target EXCEPT ![e] = Nil]
  /\ UNCHANGED <<scan, moves>>

Remove(e) ==
  /\ target[e] = Nil /\ place[e] # Nil
  /\ Update(e) /\ DeleteEntry(e, ShardKey(place[e]))
  /\ place' = [place EXCEPT ![e] = Nil]
  /\ UNCHANGED <<target, scan>>

-----------------------------------------------------------------------------
(* The scans. *)

Begin(kind, e, slots) ==
  /\ op = "idle" /\ op' = kind /\ wanted' = e /\ todo' = slots
  /\ moves' = [d \in Entities |-> IF target[d] = Nil THEN 0 ELSE 1]
  /\ UNCHANGED <<grid, place, target, found>>

\* A slot no entity can be in is empty whenever it is visited; such visits
\* are left out.
Stripes == { Stripe(e) : e \in Entities }
UsedCells == { ShardKey(p) : p \in Points }

QueryCircle ==
  Begin("query", Nil, Slots(ShardsForRadius(CircleBox) \cap UsedCells, Stripes))
Count == Begin("count", Nil, Slots(UsedCells, Stripes))
Get(e) == Begin("get", e, Slots(UsedCells, {Stripe(e)}))

\* What the scan is looking for among the entries of e.
Matches(e) ==
  CASE op = "query" -> grid[e] \cap Circle
    [] op = "count" -> grid[e]
    [] op = "get"   -> IF e = wanted THEN grid[e] ELSE {}

\* The entities a visit to a slot comes across.
Hits(slot) ==
  { e \in Entities : /\ Stripe(e) = slot % 16
                     /\ \E p \in Matches(e) : ShardKey(p) = slot \div 16 }

\* The turn of a slot: a query goes by the list of ShardsForRadius, the other
\* scans by the keys of the cells, and all of them through a cell's stripes.
TurnOf(slot) ==
  IF op = "query" THEN 16 * ListPlace(CircleBox, slot \div 16) + (slot % 16) ELSE slot

\* The next slot is visited; Get stops at the first hit.
Visit ==
  /\ todo # {}
  /\ LET slot == CHOOSE s \in todo : \A t \in todo : TurnOf(s) <= TurnOf(t)
     IN  /\ found' = [e \in Entities |-> IF e \in Hits(slot) THEN found[e] + 1 ELSE found[e]]
         /\ todo' = IF op = "get" /\ Hits(slot) # {} THEN {} ELSE todo \ {slot}
  /\ UNCHANGED <<grid, place, target, op, wanted, moves>>

\* The result is returned; the bookkeeping of the scan is forgotten.
Return ==
  /\ op # "idle" /\ todo = {}
  /\ op' = "idle" /\ wanted' = Nil
  /\ found' = [e \in Entities |-> 0] /\ moves' = [e \in Entities |-> 0]
  /\ UNCHANGED <<grid, place, target, todo>>

Next ==
  \/ \E e \in Entities : \E p \in Points : Put(e, p) \/ LeaveCell(e, p)
  \/ \E e \in Entities : EnterCell(e) \/ Remove(e)
  \/ QueryCircle \/ Count \/ \E e \in Entities : Get(e)
  \/ Visit \/ Return

Spec == Init /\ [][Next]_vars

-----------------------------------------------------------------------------
Done(kind) == op = kind /\ todo = {}

\* A scan reports an entity that is not updated while it runs exactly once,
\* if it is there, and never otherwise: the cells ShardsForRadius lists cover
\* its box, and no entry is stale. A query may miss what its circle, but not
\* its box, contains (hash.go:50).
StillEntitiesExact ==
  \A e \in Entities : moves[e] = 0 =>
    /\ Done("query") =>
         /\ found[e] <= (IF place[e] \in Circle THEN 1 ELSE 0)
         /\ place[e] \in Circle /\ WithinBox(CircleBox, place[e]) => found[e] = 1
    /\ Done("count") => found[e] = (IF place[e] # Nil THEN 1 ELSE 0)
    /\ Done("get") /\ e = wanted => found[e] = (IF place[e] # Nil THEN 1 ELSE 0)

\* Every further sighting of an entity is owed to an update of its own: scans
\* and the moves of others never duplicate it, and Get reports it once.
SightingsOwed ==
  \A e \in Entities :
    /\ found[e] <= 1 + moves[e]
    /\ op = "get" => found[e] <= 1
=============================================================================
