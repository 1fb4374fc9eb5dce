---------------------------- MODULE SpatialTypes ----------------------------
(***************************************************************************)
(* The identifiers shared by every component: pkg/spatial/types.go.        *)
(***************************************************************************)
CONSTANTS
  Entities,   \* the tracked entities (EntityID)
  Nil         \* Go's nil: a missing map entry, a pointer to nothing

ASSUME TypesAssumption == Nil \notin Entities
=============================================================================
