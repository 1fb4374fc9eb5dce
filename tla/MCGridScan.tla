----------------------------- MODULE MCGridScan -----------------------------
(***************************************************************************)
(* An instance of GridScan. Two entities share a stripe. The circle around *)
(* (0, 175), with the radius of 15 degrees of latitude (hash.go:49), is on *)
(* the equator, where both half-widths are equal, and contains positions   *)
(* on both sides of the antimeridian: its cells wrap, and those of column  *)
(* 15 are visited before those of column 0. Longitude -100 lies outside.   *)
(***************************************************************************)
EXTENDS GridScan

ScanLngs == {-180, -170, -100, 179}

MCCircle == { p \in Points : p.lng \in {179, -180, -170} }
MCCircleBox == [lat |-> 0, lng |-> 175, dLat |-> 15, dLng |-> 15]
=============================================================================
