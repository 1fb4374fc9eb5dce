---------------------------- MODULE SpatialHash -----------------------------
(***************************************************************************)
(* The 16x16 grid of cells that every component keys its state by:         *)
(* pkg/spatial/hash.go.                                                    *)
(*                                                                         *)
(* Coordinates are whole degrees. At that resolution the floating point    *)
(* expressions of the code are exact where it matters: a cell border that  *)
(* is a whole degree is a multiple of 45, whose quotient is a dyadic       *)
(* fraction, and every other whole degree is far from a border. A radius   *)
(* in metres reaches this module as the half-widths dLat and dLng that     *)
(* ShardsForRadius derives from it (hash.go:49-52). They need not hold the *)
(* circle: r/cos(lat) is the width at the latitude of the centre, and a    *)
(* circle away from the equator is wider nearer to the pole. Nothing here  *)
(* assumes that a circle lies within its box.                              *)
(***************************************************************************)
EXTENDS Integers

\* The cells of the grid: ShardCount is 256.
Cells == 0 .. 255

LatBand(lat) == ((lat + 90) * 16) \div 180
LngBand(lng) == ((lng + 180) * 16) \div 360

\* Clamping to 0 .. 15. int32() truncates where \div floors; they differ
\* only below zero, where both results are clamped to the same 0.
Clamp(x) == IF x > 15 THEN 15 ELSE IF x < 0 THEN 0 ELSE x

ShardKey(p) == 16 * Clamp(LatBand(p.lat)) + Clamp(LngBand(p.lng))

\* The cells a box may touch. Rows and columns wrap (& 0x0F) instead of
\* being clamped as ShardKey does; latitude is cut at the poles first.
FirstRow(lat, dLat) == LatBand(IF lat - dLat < -90 THEN -90 ELSE lat - dLat)
LastRow(lat, dLat) == LatBand(IF lat + dLat > 90 THEN 90 ELSE lat + dLat)

BoxRows(lat, dLat) == { ix % 16 : ix \in FirstRow(lat, dLat) .. LastRow(lat, dLat) }

\* Mutant of BoxCols: columns are cut at the date line instead of wrapped.
BoxColsCut(lng, dLng) ==
  { iy \in 0 .. 15 : iy \in LngBand(lng - dLng) .. LngBand(lng + dLng) }

BoxCols(lng, dLng) ==
  { iy % 16 : iy \in LngBand(lng - dLng) .. LngBand(lng + dLng) }

ShardsForRadius(box) ==
  { 16 * x + y : x \in BoxRows(box.lat, box.dLat), y \in BoxCols(box.lng, box.dLng) }

\* The place of a cell in the list, which runs through the rows from the
\* first, in each through the columns from the first, and keeps the first
\* occurrence of a cell: a box across the date line lists column 15 before 0.
ListPlace(box, cell) ==
  16 * ((cell \div 16 - FirstRow(box.lat, box.dLat)) % 16)
     + (((cell % 16) - LngBand(box.lng - box.dLng)) % 16)

\* Longitudes are taken modulo a turn.
Turns == {-360, 0, 360}
LngWithin(lng, dLng, a) == \E turn \in Turns : a + turn \in lng - dLng .. lng + dLng

\* The points of the globe inside a box.
WithinBox(box, p) ==
  /\ p.lat \in box.lat - box.dLat .. box.lat + box.dLat
  /\ LngWithin(box.lng, box.dLng, p.lng)
=============================================================================
