---------------------------- MODULE SpatialGrid -----------------------------
(***************************************************************************)
(* The live position index: pkg/spatial/grid.go.                           *)
(*                                                                         *)
(* Each cell holds a map from entity to its state, striped by entity and   *)
(* guarded by one mutex per stripe. The key a state is stored under is     *)
(* always the cell of the coordinate it carries (grid.go:31, 41), so the   *)
(* maps are represented, per entity, by the set of positions found in      *)
(* them: grid[e] holds a position of cell c exactly when shards[c] has an  *)
(* entry for e. An operation that takes one stripe lock is one step.       *)
(***************************************************************************)
EXTENDS SpatialTypes, SpatialHash

CONSTANTS
  Lats, Lngs   \* the latitudes and longitudes that occur, in degrees

ASSUME GridAssumption == Lats \subseteq -90 .. 90 /\ Lngs \subseteq -180 .. 180

VARIABLE grid

Points == [lat : Lats, lng : Lngs]

GridTypeOK == grid \in [Entities -> SUBSET Points]

GridInit == grid = [e \in Entities |-> {}]

\* delete(oldShard.entries[stripe], id)
Without(positions, cell) == { q \in positions : ShardKey(q) # cell }

\* Mutant of Route: the old entry of the cell is kept.
RouteKeeping(e, p) == grid' = [grid EXCEPT ![e] = @ \cup {p}]

\* The store that ends Route and RouteWithPrevious: the entry of the cell of
\* p is overwritten, entries in other cells stay.
Route(e, p) ==
  grid' = [grid EXCEPT ![e] = Without(@, ShardKey(p)) \cup {p}]

\* Mutant of DeleteEntry: the old cell is not cleaned up.
DeleteNothing(e, cell) == UNCHANGED grid

\* The delete of RouteWithPrevious, a separate critical section.
DeleteEntry(e, cell) == grid' = [grid EXCEPT ![e] = Without(@, cell)]

\* Count(): an entity is counted once per cell that has an entry for it.
CellsHolding(e) == { ShardKey(q) : q \in grid[e] }
=============================================================================
