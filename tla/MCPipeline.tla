----------------------------- MODULE MCPipeline -----------------------------
(***************************************************************************)
(* Small instances of Pipeline. Two polygons as fences: "small", two       *)
(* degrees wide around the origin, is indexed in its own rows only; the    *)
(* rows "wide" is indexed in hold every position that occurs. Latitudes 0  *)
(* and 5 share a row of cells, 40 lies in another; longitudes 0 and 100    *)
(* lie in different columns. A third fence, "north", is a circle.          *)
(***************************************************************************)
EXTENDS Pipeline, FenceShapes, TLC

At(y, x) == [lat |-> y, lng |-> x]
Rectangle(south, west, north, east) ==
  <<At(south, west), At(south, east), At(north, east), At(north, west)>>

LatsLine == {0, 5, 40}
LngsLine == {0}
LatsSquare == {0, 40}
LngsSquare == {0, 100}

Vertices(f) == IF f = "small" THEN Rectangle(-1, -1, 1, 1) ELSE Rectangle(3, -10, 45, 10)

MCContains == [f \in Fences |-> { p \in Points : InPolygon(Vertices(f), p) }]

\* The centres are the means of the vertices; the radius, 1.41 and 23.1
\* degrees of latitude, is the distance to the farthest one (fence.go:44).
MCFenceBox ==
  [f \in Fences |->
     IF f = "small" THEN [lat |-> 0, lng |-> 0, dLat |-> 2, dLng |-> 2]
                    ELSE [lat |-> 24, lng |-> 0, dLat |-> 23, dLng |-> 25]]

\* The circle of 1000 km around (75, 10), which is 9 and 34.7 degrees. It
\* contains (78, 46), 973 km away, one column beyond the box; the distances of
\* the others are 556 km, 334 km and, of (70, 46), 1299 km.
LatsNorth == {70, 78}
LngsNorth == {10, 46}
NorthContains == [f \in Fences |-> {At(70, 10), At(78, 10), At(78, 46)}]
NorthBox == [f \in Fences |-> [lat |-> 75, lng |-> 10, dLat |-> 9, dLng |-> 34]]

Corners == { At(y, x) : y \in {0, 2}, x \in {0, 2, 3} }
Around == { At(y, x) : y \in -1 .. 3, x \in -1 .. 4 }

\* A rectangle contains its southern and western border only, so rectangles
\* side by side share no position and leave none out.
ASSUME RectanglesHalfOpen ==
  \A p \in Around :
    InPolygon(Rectangle(0, 0, 2, 3), p) <=> p.lat \in 0 .. 1 /\ p.lng \in 0 .. 2

\* Cutting a quadrilateral along a diagonal divides its positions between the
\* two triangles, whatever its shape and orientation.
ASSUME DiagonalDivides ==
  \A a, b, c, d \in Corners, p \in Around :
    InPolygon(<<a, b, c, d>>, p) <=> (InPolygon(<<a, b, c>>, p) # InPolygon(<<a, c, d>>, p))

\* Two rows: the entities collide in the first and not in the second.
MCColumn == [e \in Entities |-> [r \in CmsRows |-> IF r = 1 THEN 0 ELSE e]]

WorkerSymmetry == Permutations(Workers)
RefSymmetry == Permutations(Refs)
Interchangeable == WorkerSymmetry \cup RefSymmetry
=============================================================================
