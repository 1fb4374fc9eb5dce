---------------------------- MODULE FenceShapes -----------------------------
(***************************************************************************)
(* Polygon of pkg/geofence/fence.go on whole degrees, where its arithmetic *)
(* is exact once the division is multiplied out. The other shape, Circle,  *)
(* is a comparison of HaversineM with the radius.                          *)
(***************************************************************************)
EXTENDS Integers, Sequences, FiniteSets

\* The side that ends in vertex i starts in j; the first one in the last.
Before(vertices, i) == vertices[IF i = 1 THEN Len(vertices) ELSE i - 1]

\* The side crosses the parallel of p, its upper end not included ...
Straddles(vi, vj, p) == (vi.lat > p.lat) # (vj.lat > p.lat)

\* ... east of p: lng < (vj.Lng - vi.Lng) * (lat - vi.Lat) / (vj.Lat - vi.Lat) + vi.Lng.
WestOf(vi, vj, p) ==
  LET left == (p.lng - vi.lng) * (vj.lat - vi.lat)
      right == (vj.lng - vi.lng) * (p.lat - vi.lat)
  IN  IF vj.lat > vi.lat THEN left < right ELSE left > right

\* A ray to the east leaves the polygon an odd number of times.
InPolygon(vertices, p) ==
  LET crossed == { i \in 1 .. Len(vertices) :
                     LET vi == vertices[i]
                         vj == Before(vertices, i)
                     IN  Straddles(vi, vj, p) /\ WestOf(vi, vj, p) }
  IN  Len(vertices) >= 3 /\ Cardinality(crossed) % 2 = 1
=============================================================================
