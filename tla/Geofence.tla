------------------------------ MODULE Geofence ------------------------------
(***************************************************************************)
(* The fence store and the evaluation of a move: pkg/geofence.             *)
(*                                                                         *)
(* A fence is a name with the set of positions it contains and the box its *)
(* centre and bounding radius span; the shape (circle or polygon) only     *)
(* matters through these. Register appends to the list and to the index    *)
(* under one lock, so the set of registered fences determines both.        *)
(* Positions inside a fence may lie outside its box (see SpatialHash); the *)
(* fences of which none does are those of BoxHolds.                        *)
(***************************************************************************)
EXTENDS SpatialGrid

CONSTANTS
  Fences,     \* the fences that may be registered, each at most once
  Contains,   \* Contains[f]: the positions inside f
  FenceBox    \* FenceBox[f]: centre of f, and half-widths of its bounding radius

ASSUME FenceAssumption ==
  /\ Contains \in [Fences -> SUBSET Points]
  /\ FenceBox \in [Fences -> [lat : -90 .. 90, lng : -180 .. 180,
                              dLat : Nat \ {0}, dLng : Nat]]

VARIABLE registered

FenceTypeOK == registered \in SUBSET Fences

FenceInit == registered = {}

Register(f) ==
  /\ f \notin registered
  /\ registered' = registered \cup {f}

\* The cells whose index lists f, computed once at registration.
IndexCells == [f \in Fences |-> ShardsForRadius(FenceBox[f])]

\* The box of f holds what f contains. For a circle near the equator it does;
\* at latitude 75 one of 1000 km is two degrees wider than its box.
BoxHolds == [f \in Fences |-> \A p \in Contains[f] : WithinBox(FenceBox[f], p)]

FencesNear(p) == { f \in registered : ShardKey(p) \in IndexCells[f] }

Events == [fence : Fences, type : {"enter", "exit"}]

\* Mutant of FirstSightEvents: an entity first seen inside raises nothing.
NoFirstSight(near, to) == {}

\* The events for an entity seen for the first time.
FirstSightEvents(near, to) ==
  { [fence |-> f, type |-> "enter"] : f \in { g \in near : to \in Contains[g] } }

\* Mutants of MoveEvents: where the entity comes from is not looked at.
EnterWhileInside(f, from, to) ==
  IF to \in Contains[f] THEN {[fence |-> f, type |-> "enter"]}
  ELSE IF from \in Contains[f] THEN {[fence |-> f, type |-> "exit"]} ELSE {}

ExitWhileOutside(f, from, to) ==
  IF to \notin Contains[f] THEN {[fence |-> f, type |-> "exit"]}
  ELSE IF from \notin Contains[f] THEN {[fence |-> f, type |-> "enter"]} ELSE {}

\* The event, if any, that moving between two positions raises for f.
MoveEvents(f, from, to) ==
  { ev \in [fence : {f}, type : {"enter", "exit"}] :
      \/ /\ ev.type = "enter" /\ from \notin Contains[f] /\ to \in Contains[f]
      \/ /\ ev.type = "exit" /\ from \in Contains[f] /\ to \notin Contains[f] }
=============================================================================
