-------------------------- MODULE Geometry_proofs ---------------------------
(***************************************************************************)
(* The geometry the rest relies on. The cells ShardsForRadius lists cover  *)
(* the box it was given: queries and the fence index look nowhere else for *)
(* the positions in that box. A polygon lies in the box of its vertices,   *)
(* is the same however its vertices are listed, and is divided between its *)
(* parts when it is cut; all for any number of vertices.                   *)
(***************************************************************************)
EXTENDS SpatialHash, FenceShapes, FiniteSetTheorems, WellFoundedInduction, TLAPS

-----------------------------------------------------------------------------
(* Cells. *)

\* A row of cells is 11.25 degrees high, a column 22.5 degrees wide: bands
\* are integers, grow with the coordinate, and a turn is 16 columns.
LEMMA Bands ==
  ASSUME NEW a \in Int, NEW b \in Int
  PROVE  /\ LatBand(a) \in Int /\ LngBand(a) \in Int
         /\ a <= b => LatBand(a) <= LatBand(b) /\ LngBand(a) <= LngBand(b)
  BY DEF LatBand, LngBand

LEMMA Turn ==
  ASSUME NEW a \in Int
  PROVE  LngBand(a + 360) = LngBand(a) + 16 /\ LngBand(a - 360) = LngBand(a) - 16
  BY DEF LngBand

LEMMA BandRanges ==
  /\ \A a \in -90 .. 89 : LatBand(a) \in 0 .. 15
  /\ LatBand(90) = 16
  /\ \A a \in -180 .. 179 : LngBand(a) \in 0 .. 15
  BY DEF LatBand, LngBand

LEMMA Wrap ==
  ASSUME NEW a \in 0 .. 15
  PROVE  a % 16 = a /\ (a + 16) % 16 = a /\ (a - 16) % 16 = a
  OBVIOUS

\* The row of a latitude in the box is among the rows listed, at the poles
\* too, where ShardKey clamps and the loop wraps.
LEMMA RowCovered ==
  ASSUME NEW lat \in -90 .. 90, NEW dLat \in Nat \ {0},
         NEW a \in -90 .. 90, a \in lat - dLat .. lat + dLat
  PROVE  Clamp(LatBand(a)) \in BoxRows(lat, dLat)
<1> DEFINE lo == IF lat - dLat < -90 THEN -90 ELSE lat - dLat
           hi == IF lat + dLat > 90 THEN 90 ELSE lat + dLat
<1>1. lo \in -90 .. 89 /\ hi \in -90 .. 90 /\ lo <= a /\ a <= hi
  OBVIOUS
<1>2. BoxRows(lat, dLat) = { ix % 16 : ix \in LatBand(lo) .. LatBand(hi) }
  BY DEF BoxRows, FirstRow, LastRow
<1> HIDE DEF lo, hi
<1>3. CASE a # 90
  <2>1. LatBand(a) \in 0 .. 15
    BY <1>3, BandRanges
  <2>2. LatBand(a) \in LatBand(lo) .. LatBand(hi)
    BY <1>1, <2>1, Bands
  <2>3. Clamp(LatBand(a)) = LatBand(a) % 16
    BY <2>1, Wrap DEF Clamp
  <2>4. QED  BY <1>2, <2>2, <2>3
<1>4. CASE a = 90
  <2>1. hi = 90 /\ LatBand(hi) = 16 /\ LatBand(lo) \in 0 .. 15
    BY <1>1, <1>4, BandRanges
  <2>2. 15 \in LatBand(lo) .. LatBand(hi) /\ 15 % 16 = 15
    BY <2>1
  <2>3. Clamp(LatBand(a)) = 15
    BY <1>4, BandRanges DEF Clamp
  <2>4. QED  BY <1>2, <2>2, <2>3
<1>5. QED  BY <1>3, <1>4

\* The column of a longitude in the box, or a turn away from it, is listed.
LEMMA ColCovered ==
  ASSUME NEW lng \in Int, NEW dLng \in Nat, NEW a \in -180 .. 179,
         LngWithin(lng, dLng, a)
  PROVE  Clamp(LngBand(a)) \in BoxCols(lng, dLng)
<1>0. PICK turn \in {-360, 0, 360} : a + turn \in lng - dLng .. lng + dLng
  BY DEF LngWithin, Turns
<1>1. LngBand(a) \in 0 .. 15
  BY BandRanges
<1>2. LngBand(a + turn) \in LngBand(lng - dLng) .. LngBand(lng + dLng)
  BY <1>0, Bands
<1>3. LngBand(a + turn) % 16 = LngBand(a)
  <2>1. LngBand(a + turn) \in {LngBand(a), LngBand(a) + 16, LngBand(a) - 16}
    <3>1. CASE turn = 0
      BY <3>1
    <3>2. CASE turn = 360
      BY <3>2, Turn
    <3>3. CASE turn = -360
      <4>1. a + turn = a - 360
        BY <3>3
      <4>2. QED  BY <4>1, Turn
    <3>4. QED  BY <3>1, <3>2, <3>3
  <2>2. QED  BY <2>1, <1>1, Wrap
<1>4. Clamp(LngBand(a)) = LngBand(a)
  BY <1>1 DEF Clamp
<1>5. QED  BY <1>2, <1>3, <1>4 DEF BoxCols

\* For every box of positive height, the cell of every point inside it is
\* listed by ShardsForRadius (hash.go:48-83), across the antimeridian and at
\* the poles; longitude 180, the other name of -180, is not covered.
THEOREM Coverage ==
  ASSUME NEW box \in [lat : -90 .. 90, lng : -180 .. 180, dLat : Nat \ {0}, dLng : Nat],
         NEW p \in [lat : -90 .. 90, lng : -180 .. 179], WithinBox(box, p)
  PROVE  ShardKey(p) \in ShardsForRadius(box)
<1>0. /\ box.lat \in -90 .. 90 /\ box.lng \in Int /\ box.dLat \in Nat \ {0} /\ box.dLng \in Nat
      /\ p.lat \in -90 .. 90 /\ p.lng \in -180 .. 179
      /\ p.lat \in box.lat - box.dLat .. box.lat + box.dLat
  BY DEF WithinBox
<1>1. Clamp(LatBand(p.lat)) \in BoxRows(box.lat, box.dLat)
  BY <1>0, RowCovered
<1>2. Clamp(LngBand(p.lng)) \in BoxCols(box.lng, box.dLng)
  <2>1. LngWithin(box.lng, box.dLng, p.lng)
    BY DEF WithinBox
  <2>2. QED  BY <1>0, <2>1, ColCovered
<1>3. QED  BY <1>1, <1>2 DEF ShardKey, ShardsForRadius

-----------------------------------------------------------------------------
(* Induction over the naturals. *)

\* A set of naturals has a least element ...
LEMMA LeastOf ==
  ASSUME NEW S \in SUBSET Nat, S # {}
  PROVE  \E n \in S : \A m \in S : n <= m
<1> DEFINE R == OpToRel(<, Nat)
<1>1. IsWellFoundedOn(R, Nat)
  BY NatLessThanWellFounded
<1>2. \A x, y \in Nat : y < x => <<y, x>> \in R
  BY DEF OpToRel
<1> HIDE DEF R
<1>3. PICK n \in S : \A y \in S : ~ (<<y, n>> \in R)
  BY <1>1, WFMin
<1>4. \A m \in S : n <= m
  <2> SUFFICES ASSUME NEW m \in S, ~(n <= m) PROVE FALSE
    OBVIOUS
  <2>1. n \in Nat /\ m \in Nat
    OBVIOUS
  <2>2. m < n
    BY <2>1
  <2>3. QED  BY <2>1, <2>2, <1>2, <1>3
<1>5. QED  BY <1>4

\* ... so what holds of 0 and of the successors of what it holds of holds of
\* all: the induction the proofs use, with a set where a predicate would be.
LEMMA SetInduction ==
  ASSUME NEW S, 0 \in S, \A k \in Nat : k \in S => k + 1 \in S
  PROVE  Nat \subseteq S
<1> SUFFICES ASSUME Nat \ S # {} PROVE FALSE
  OBVIOUS
<1>1. PICK n \in Nat \ S : \A m \in Nat \ S : n <= m
  BY LeastOf
<1>2. n # 0 /\ n - 1 \in Nat
  BY <1>1
<1>3. n - 1 \in S
  BY <1>1, <1>2
<1>4. QED  BY <1>2, <1>3

-----------------------------------------------------------------------------
(* Polygons. *)

Positions == [lat : Int, lng : Int]
Polygons == Seq(Positions)

\* The sides that cross the parallel of p, and those that cross it east of p.
Sides(v, p) == { i \in 1 .. Len(v) : Straddles(v[i], Before(v, i), p) }
Crossed(v, p) == { i \in Sides(v, p) : WestOf(v[i], Before(v, i), p) }

LEMMA OddCrossed ==
  ASSUME NEW v, NEW p
  PROVE  InPolygon(v, p) <=> Len(v) >= 3 /\ Cardinality(Crossed(v, p)) % 2 = 1
<1>1. Crossed(v, p) = { i \in 1 .. Len(v) :
                          Straddles(v[i], Before(v, i), p) /\ WestOf(v[i], Before(v, i), p) }
  BY DEF Crossed, Sides
<1>2. QED  BY <1>1 DEF InPolygon

LEMMA FiniteSides ==
  ASSUME NEW v \in Polygons, NEW p
  PROVE  /\ IsFiniteSet(Sides(v, p)) /\ IsFiniteSet(Crossed(v, p))
         /\ Cardinality(Sides(v, p)) \in Nat /\ Cardinality(Crossed(v, p)) \in Nat
<1>1. Len(v) \in Nat
  BY DEF Polygons
<1>2. IsFiniteSet(1 .. Len(v))
  BY <1>1, FS_Interval
<1>3. Sides(v, p) \in SUBSET (1 .. Len(v)) /\ Crossed(v, p) \in SUBSET (1 .. Len(v))
  BY DEF Sides, Crossed
<1>4. IsFiniteSet(Sides(v, p)) /\ IsFiniteSet(Crossed(v, p))
  BY <1>2, <1>3, FS_Subset
<1>5. QED  BY <1>4, FS_CardinalityType

LEMMA Vertices ==
  ASSUME NEW v \in Polygons, NEW i \in 1 .. Len(v)
  PROVE  /\ v[i] \in Positions /\ v[i].lat \in Int /\ v[i].lng \in Int
         /\ \E j \in 1 .. Len(v) : Before(v, i) = v[j]
<1>1. Len(v) \in Nat /\ \A j \in 1 .. Len(v) : v[j] \in Positions
  BY DEF Polygons
<1>2. PICK j \in 1 .. Len(v) : Before(v, i) = v[j]
  <2>1. CASE i = 1
    BY <1>1, <2>1 DEF Before
  <2>2. CASE i # 1
    <3>1. i - 1 \in 1 .. Len(v)
      BY <1>1, <2>2
    <3>2. QED  BY <2>2, <3>1 DEF Before
  <2>3. QED  BY <2>1, <2>2
<1>3. v[i] \in Positions
  BY <1>1
<1>4. QED  BY <1>2, <1>3 DEF Positions

\* The boundary of a polygon goes back to where it started, so it crosses a
\* parallel an even number of times.
LEMMA EvenSides ==
  ASSUME NEW v \in Polygons, Len(v) # 0, NEW p \in Positions
  PROVE  Cardinality(Sides(v, p)) % 2 = 0
<1>1. Len(v) \in Nat \ {0}
  BY DEF Polygons
<1> DEFINE north(i) == v[i].lat > p.lat
           turns(k) == { i \in 2 .. k : north(i) # north(i - 1) }
           S == { k \in Nat : k \in 1 .. Len(v) =>
                    /\ IsFiniteSet(turns(k)) /\ Cardinality(turns(k)) \in Nat
                    /\ Cardinality(turns(k)) % 2 = (IF north(k) # north(1) THEN 1 ELSE 0) }
<1>2. Nat \subseteq S
  <2>1. 0 \in S
    OBVIOUS
  <2>2. ASSUME NEW k \in Nat, k \in S PROVE k + 1 \in S
    <3> SUFFICES ASSUME k + 1 \in 1 .. Len(v)
                 PROVE  /\ IsFiniteSet(turns(k + 1)) /\ Cardinality(turns(k + 1)) \in Nat
                        /\ Cardinality(turns(k + 1)) % 2 =
                             (IF north(k + 1) # north(1) THEN 1 ELSE 0)
      OBVIOUS
    <3>1. CASE k = 0
      <4>1. turns(k + 1) = {}
        BY <3>1
      <4>2. QED  BY <3>1, <4>1, FS_EmptySet
    <3>2. CASE k # 0
      <4>1. /\ IsFiniteSet(turns(k)) /\ Cardinality(turns(k)) \in Nat
            /\ Cardinality(turns(k)) % 2 = (IF north(k) # north(1) THEN 1 ELSE 0)
        BY <2>2, <3>2, <1>1
      <4>2. CASE north(k + 1) # north(k)
        <5>1. turns(k + 1) = turns(k) \cup {k + 1} /\ k + 1 \notin turns(k)
          BY <3>2, <4>2
        <5> HIDE DEF turns, north
        <5>2. /\ IsFiniteSet(turns(k + 1))
              /\ Cardinality(turns(k + 1)) = Cardinality(turns(k)) + 1
          <6>1. IsFiniteSet(turns(k))
            BY <4>1
          <6>2. /\ IsFiniteSet(turns(k) \cup {k + 1})
                /\ Cardinality(turns(k) \cup {k + 1}) =
                     IF k + 1 \in turns(k) THEN Cardinality(turns(k)) ELSE Cardinality(turns(k)) + 1
            BY <6>1, FS_AddElement
          <6>3. QED  BY <5>1, <6>2
        <5>3. north(k) \in BOOLEAN /\ north(k + 1) \in BOOLEAN /\ north(1) \in BOOLEAN
          BY DEF north
        <5>4. QED  BY <4>1, <4>2, <5>2, <5>3
      <4>3. CASE north(k + 1) = north(k)
        <5>1. turns(k + 1) = turns(k)
          BY <3>2, <4>3
        <5>2. QED  BY <4>1, <4>3, <5>1
      <4>4. QED  BY <4>2, <4>3
    <3>3. QED  BY <3>1, <3>2
  <2> HIDE DEF S
  <2>3. QED  BY <2>1, <2>2, SetInduction
<1>3. /\ IsFiniteSet(turns(Len(v))) /\ Cardinality(turns(Len(v))) \in Nat
      /\ Cardinality(turns(Len(v))) % 2 = (IF north(Len(v)) # north(1) THEN 1 ELSE 0)
  BY <1>1, <1>2
<1>4. \A i \in 2 .. Len(v) : Before(v, i) = v[i - 1]
  BY <1>1 DEF Before
<1>5. Before(v, 1) = v[Len(v)]
  BY DEF Before
<1>6. CASE north(Len(v)) # north(1)
  <2>1. Sides(v, p) = turns(Len(v)) \cup {1} /\ 1 \notin turns(Len(v))
    BY <1>1, <1>4, <1>5, <1>6 DEF Sides, Straddles
  <2>2. Cardinality(Sides(v, p)) = Cardinality(turns(Len(v))) + 1
    BY <1>3, <2>1, FS_AddElement
  <2> HIDE DEF turns, north
  <2>3. QED  BY <1>3, <1>6, <2>2
<1>7. CASE north(Len(v)) = north(1)
  <2>1. Sides(v, p) = turns(Len(v))
    BY <1>1, <1>4, <1>5, <1>7 DEF Sides, Straddles
  <2>2. QED  BY <1>3, <1>7, <2>1
<1>8. QED  BY <1>6, <1>7

\* Where a side crosses the parallel of p, as a sum of two products.
LEMMA WestOfSum ==
  ASSUME NEW a \in Positions, NEW b \in Positions, NEW p \in Positions, Straddles(a, b, p)
  PROVE  LET A == p.lng - a.lng
             B == p.lng - b.lng
             Y == p.lat - a.lat
             Z == b.lat - p.lat
         IN  /\ A \in Int /\ B \in Int /\ Y \in Int /\ Z \in Int
             /\ A * Z \in Int /\ B * Y \in Int
             /\ (Y >= 0 /\ Z > 0) \/ (Y < 0 /\ Z <= 0)
             /\ WestOf(a, b, p) <=> IF Z > 0 THEN A * Z + B * Y < 0 ELSE A * Z + B * Y > 0
<1> DEFINE A == p.lng - a.lng
           B == p.lng - b.lng
           D == b.lat - a.lat
           Y == p.lat - a.lat
           Z == b.lat - p.lat
<1>1. /\ A \in Int /\ B \in Int /\ D \in Int /\ Y \in Int /\ Z \in Int
      /\ b.lng - a.lng = A - B /\ D = Y + Z
  BY DEF Positions
<1>2. WestOf(a, b, p) <=> IF D > 0 THEN A * D < (A - B) * Y ELSE A * D > (A - B) * Y
  BY <1>1 DEF WestOf, Positions
<1>3. (D > 0 /\ Y >= 0 /\ Z > 0) \/ (~(D > 0) /\ Y < 0 /\ Z <= 0)
  BY DEF Straddles, Positions
<1> HIDE DEF A, B, D, Y, Z
<1>4. A * D = A * Y + A * Z /\ (A - B) * Y = A * Y - B * Y
  BY <1>1
<1>5. A * Z \in Int /\ B * Y \in Int /\ A * Y \in Int
  BY <1>1
<1>6. WestOf(a, b, p) <=> IF Z > 0 THEN A * Z + B * Y < 0 ELSE A * Z + B * Y > 0
  BY <1>1, <1>2, <1>3, <1>4, <1>5
<1>7. QED  BY <1>1, <1>3, <1>5, <1>6 DEF A, B, Y, Z

\* A side that crosses east of p has an end east of p, and one with both
\* ends east of p does cross east of it.
LEMMA SideEast ==
  ASSUME NEW a \in Positions, NEW b \in Positions, NEW p \in Positions, Straddles(a, b, p)
  PROVE  /\ WestOf(a, b, p) => p.lng < a.lng \/ p.lng < b.lng
         /\ p.lng < a.lng /\ p.lng < b.lng => WestOf(a, b, p)
<1> DEFINE A == p.lng - a.lng
           B == p.lng - b.lng
           Y == p.lat - a.lat
           Z == b.lat - p.lat
<1>1. /\ A \in Int /\ B \in Int /\ Y \in Int /\ Z \in Int
      /\ A * Z \in Int /\ B * Y \in Int
      /\ (Y >= 0 /\ Z > 0) \/ (Y < 0 /\ Z <= 0)
      /\ WestOf(a, b, p) <=> IF Z > 0 THEN A * Z + B * Y < 0 ELSE A * Z + B * Y > 0
  BY WestOfSum
<1>2. /\ p.lng < a.lng <=> A < 0
      /\ p.lng < b.lng <=> B < 0
  BY DEF Positions
<1> HIDE DEF A, B, Y, Z
<1>3. ASSUME A >= 0, B >= 0, Y >= 0, Z > 0 PROVE A * Z >= 0 /\ B * Y >= 0
  BY <1>3, <1>1
<1>4. ASSUME A >= 0, B >= 0, Y < 0, Z <= 0 PROVE A * Z <= 0 /\ B * Y <= 0
  BY <1>4, <1>1
<1>5. ASSUME A < 0, B < 0, Y >= 0, Z > 0 PROVE A * Z < 0 /\ B * Y <= 0
  BY <1>5, <1>1
<1>6. ASSUME A < 0, B < 0, Y < 0, Z <= 0 PROVE A * Z >= 0 /\ B * Y > 0
  BY <1>6, <1>1
<1>7. WestOf(a, b, p) => A < 0 \/ B < 0
  BY <1>1, <1>3, <1>4
<1>8. A < 0 /\ B < 0 => WestOf(a, b, p)
  BY <1>1, <1>5, <1>6
<1>9. QED  BY <1>2, <1>7, <1>8

\* A position inside a polygon lies between its southernmost and northernmost,
\* and between its westernmost and easternmost vertices (fence.go:69).
THEOREM InsideBounds ==
  ASSUME NEW v \in Polygons, NEW p \in Positions, InPolygon(v, p)
  PROVE  /\ \E i \in 1 .. Len(v) : v[i].lat <= p.lat
         /\ \E i \in 1 .. Len(v) : p.lat < v[i].lat
         /\ \E i \in 1 .. Len(v) : v[i].lng <= p.lng
         /\ \E i \in 1 .. Len(v) : p.lng < v[i].lng
<1>1. Len(v) >= 3 /\ Cardinality(Crossed(v, p)) % 2 = 1 /\ Len(v) \in Nat
  BY OddCrossed DEF Polygons
<1>2. PICK i \in Crossed(v, p) : TRUE
  <2>1. Crossed(v, p) = {} => Cardinality(Crossed(v, p)) = 0
    BY FS_EmptySet
  <2>2. QED  BY <1>1, <2>1
<1>3. i \in 1 .. Len(v) /\ Straddles(v[i], Before(v, i), p) /\ WestOf(v[i], Before(v, i), p)
  BY <1>2 DEF Crossed, Sides
<1>4. PICK j \in 1 .. Len(v) : Before(v, i) = v[j]
  BY <1>3, Vertices
<1>5. /\ v[i] \in Positions /\ v[j] \in Positions
      /\ v[i].lat \in Int /\ v[j].lat \in Int /\ p.lat \in Int
  BY <1>3, <1>4, Vertices DEF Positions
<1>6. (v[i].lat <= p.lat /\ p.lat < v[j].lat) \/ (v[j].lat <= p.lat /\ p.lat < v[i].lat)
  BY <1>3, <1>4, <1>5 DEF Straddles
<1>7. p.lng < v[i].lng \/ p.lng < v[j].lng
  BY <1>3, <1>4, <1>5, SideEast
<1>8. \E k \in 1 .. Len(v) : v[k].lng <= p.lng
  <2> SUFFICES ASSUME \A k \in 1 .. Len(v) : ~(v[k].lng <= p.lng) PROVE FALSE
    OBVIOUS
  <2>1. Sides(v, p) \subseteq Crossed(v, p)
    <3> SUFFICES ASSUME NEW k \in Sides(v, p)
                 PROVE  WestOf(v[k], Before(v, k), p)
      BY DEF Crossed
    <3>1. k \in 1 .. Len(v) /\ Straddles(v[k], Before(v, k), p)
      BY DEF Sides
    <3>2. PICK l \in 1 .. Len(v) : Before(v, k) = v[l]
      BY <3>1, Vertices
    <3>3. /\ v[k] \in Positions /\ v[l] \in Positions
          /\ v[k].lng \in Int /\ v[l].lng \in Int /\ p.lng \in Int
      BY <3>1, <3>2, Vertices DEF Positions
    <3>4. p.lng < v[k].lng /\ p.lng < v[l].lng
      BY <3>1, <3>3
    <3>5. QED  BY <3>1, <3>2, <3>3, <3>4, SideEast
  <2>2. Crossed(v, p) = Sides(v, p)
    BY <2>1 DEF Crossed
  <2>3. Cardinality(Sides(v, p)) % 2 = 0
    BY <1>1, EvenSides
  <2>4. QED  BY <1>1, <2>2, <2>3
<1>9. QED  BY <1>3, <1>4, <1>6, <1>7, <1>8

LEMMA BetweenEnds ==
  ASSUME NEW lo \in Int, NEW hi \in Int, NEW x \in Int, NEW S, S \subseteq lo .. hi,
         \E y \in S : y <= x, \E y \in S : x < y
  PROVE  x \in lo .. hi
<1>1. PICK y \in S : y <= x
  OBVIOUS
<1>2. PICK z \in S : x < z
  OBVIOUS
<1>3. y \in Int /\ lo <= y /\ z \in Int /\ z <= hi
  OBVIOUS
<1>4. QED  BY <1>1, <1>2, <1>3

\* So a polygon contains no position outside a box that has its vertices. Its
\* bounding radius reaches them (fence.go:44-49), but the box made of it need
\* not (hash.go:50): BoxHolds is a matter of the vertices alone.
THEOREM PolygonInBox ==
  ASSUME NEW v \in Polygons, NEW box \in [lat : Int, lng : Int, dLat : Int, dLng : Int],
         \A i \in 1 .. Len(v) : /\ v[i].lat \in box.lat - box.dLat .. box.lat + box.dLat
                                /\ v[i].lng \in box.lng - box.dLng .. box.lng + box.dLng,
         NEW p \in Positions, InPolygon(v, p)
  PROVE  WithinBox(box, p)
<1> DEFINE south == box.lat - box.dLat
           north == box.lat + box.dLat
           west == box.lng - box.dLng
           east == box.lng + box.dLng
<1>1. /\ p.lat \in Int /\ p.lng \in Int
      /\ south \in Int /\ north \in Int /\ west \in Int /\ east \in Int
  BY DEF Positions
<1>2. \A i \in 1 .. Len(v) : v[i].lat \in south .. north /\ v[i].lng \in west .. east
  OBVIOUS
<1>3. /\ \E i \in 1 .. Len(v) : v[i].lat <= p.lat
      /\ \E i \in 1 .. Len(v) : p.lat < v[i].lat
      /\ \E i \in 1 .. Len(v) : v[i].lng <= p.lng
      /\ \E i \in 1 .. Len(v) : p.lng < v[i].lng
  BY InsideBounds
<1> HIDE DEF south, north, west, east
<1> DEFINE lats == { v[i].lat : i \in 1 .. Len(v) }
           lngs == { v[i].lng : i \in 1 .. Len(v) }
<1>4. /\ lats \subseteq south .. north /\ lngs \subseteq west .. east
      /\ \E x \in lats : x <= p.lat
      /\ \E x \in lats : p.lat < x
      /\ \E x \in lngs : x <= p.lng
      /\ \E x \in lngs : p.lng < x
  BY <1>2, <1>3
<1> HIDE DEF lats, lngs
<1>5. p.lat \in south .. north /\ p.lng \in west .. east
  BY <1>1, <1>4, BetweenEnds
<1>6. p.lng + 0 = p.lng
  BY <1>1
<1>7. QED  BY <1>5, <1>6 DEF WithinBox, LngWithin, Turns, south, north, west, east

\* A rectangle contains its southern and western border only, so rectangles
\* side by side share no position and leave none out between them.
THEOREM RectangleHalfOpen ==
  ASSUME NEW south \in Int, NEW west \in Int, NEW north \in Int, NEW east \in Int,
         south < north, west < east, NEW p \in Positions
  PROVE  InPolygon(<< [lat |-> south, lng |-> west], [lat |-> south, lng |-> east],
                      [lat |-> north, lng |-> east], [lat |-> north, lng |-> west] >>, p)
           <=> south <= p.lat /\ p.lat < north /\ west <= p.lng /\ p.lng < east
<1> DEFINE a == [lat |-> south, lng |-> west]
           b == [lat |-> south, lng |-> east]
           c == [lat |-> north, lng |-> east]
           d == [lat |-> north, lng |-> west]
           v == <<a, b, c, d>>
           Crosses(i) == Straddles(v[i], Before(v, i), p) /\ WestOf(v[i], Before(v, i), p)
           band == south <= p.lat /\ p.lat < north
<1>1. Len(v) = 4 /\ v[1] = a /\ v[2] = b /\ v[3] = c /\ v[4] = d
  OBVIOUS
<1>2. Before(v, 1) = d /\ Before(v, 2) = a /\ Before(v, 3) = b /\ Before(v, 4) = c
  BY <1>1 DEF Before
<1>a. p.lat \in Int /\ p.lng \in Int
  BY DEF Positions
<1>3. ~Crosses(2) /\ ~Crosses(4)
  BY <1>1, <1>2 DEF Straddles
<1> DEFINE height == north - south
<1>h. height \in Int /\ height > 0 /\ north - south = height /\ south - north = -height
  OBVIOUS
<1> HIDE DEF height
<1>4. Crosses(1) <=> band /\ p.lng < west
  <2>1. Straddles(a, d, p) <=> band
    BY <1>a DEF Straddles
  <2>2. WestOf(a, d, p) <=> (p.lng - west) * height < 0
    BY <1>a, <1>h DEF WestOf
  <2>3. (p.lng - west) * height < 0 <=> p.lng - west < 0
    BY <1>a, <1>h
  <2>4. QED  BY <1>1, <1>2, <1>a, <2>1, <2>2, <2>3
<1>5. Crosses(3) <=> band /\ p.lng < east
  <2>1. Straddles(c, b, p) <=> band
    BY <1>a DEF Straddles
  <2>2. WestOf(c, b, p) <=> (p.lng - east) * (-height) > 0
    BY <1>a, <1>h DEF WestOf
  <2>3. (p.lng - east) * (-height) > 0 <=> p.lng - east < 0
    BY <1>a, <1>h
  <2>4. QED  BY <1>1, <1>2, <1>a, <2>1, <2>2, <2>3
<1>6. Crossed(v, p) = { i \in {1, 3} : Crosses(i) }
  <2>1. 1 .. 4 = {1, 2, 3, 4}
    OBVIOUS
  <2> HIDE DEF v
  <2>2. QED  BY <1>1, <1>3, <2>1 DEF Crossed, Sides
<1> HIDE DEF v, a, b, c, d, Crosses
<1>7. CASE Crosses(1)
  <2>1. Crosses(3)
    BY <1>4, <1>5, <1>7, <1>a
  <2>2. Crossed(v, p) = {1} \cup {3}
    BY <1>6, <1>7, <2>1
  <2>3. Cardinality({1}) = 1 /\ IsFiniteSet({1})
    BY FS_Singleton
  <2>4. Cardinality({1} \cup {3}) = 2
    <3>1. Cardinality({1} \cup {3}) =
            IF 3 \in {1} THEN Cardinality({1}) ELSE Cardinality({1}) + 1
      BY <2>3, FS_AddElement
    <3>2. QED  BY <2>3, <3>1
  <2>5. ~InPolygon(v, p)
    <3>1. Cardinality(Crossed(v, p)) % 2 # 1
      BY <2>2, <2>4
    <3>2. QED  BY <3>1, OddCrossed
  <2>6. QED  BY <1>4, <1>7, <1>a, <2>5 DEF v, a, b, c, d
<1>8. CASE ~Crosses(1) /\ Crosses(3)
  <2>1. Crossed(v, p) = {3}
    BY <1>6, <1>8
  <2>2. Cardinality(Crossed(v, p)) = 1
    BY <2>1, FS_Singleton
  <2>3. InPolygon(v, p)
    BY <1>1, <2>2, OddCrossed
  <2>4. QED  BY <1>4, <1>5, <1>8, <1>a, <2>3 DEF v, a, b, c, d
<1>9. CASE ~Crosses(1) /\ ~Crosses(3)
  <2>1. Crossed(v, p) = {}
    BY <1>6, <1>9
  <2>2. Cardinality(Crossed(v, p)) = 0
    BY <2>1, FS_EmptySet
  <2>3. ~InPolygon(v, p)
    BY <2>2, OddCrossed
  <2>4. QED  BY <1>5, <1>9, <1>a, <2>3 DEF v, a, b, c, d
<1>10. QED  BY <1>7, <1>8, <1>9

-----------------------------------------------------------------------------
(* The same polygon written in another way. *)

Crosses(a, b, p) == Straddles(a, b, p) /\ WestOf(a, b, p)

\* A side crosses east of p in whichever direction it is drawn.
LEMMA CrossesBack ==
  ASSUME NEW a \in Positions, NEW b \in Positions, NEW p \in Positions
  PROVE  Crosses(a, b, p) <=> Crosses(b, a, p)
<1>1. Straddles(a, b, p) <=> Straddles(b, a, p)
  BY DEF Straddles
<1>2. ASSUME Straddles(a, b, p) PROVE WestOf(a, b, p) <=> WestOf(b, a, p)
  <2> DEFINE A == p.lng - a.lng
             B == p.lng - b.lng
             Y == p.lat - a.lat
             Z == b.lat - p.lat
             U == p.lat - b.lat
             V == a.lat - p.lat
  <2>1. /\ A \in Int /\ B \in Int /\ Y \in Int /\ Z \in Int
        /\ A * Z \in Int /\ B * Y \in Int
        /\ (Y >= 0 /\ Z > 0) \/ (Y < 0 /\ Z <= 0)
        /\ WestOf(a, b, p) <=> IF Z > 0 THEN A * Z + B * Y < 0 ELSE A * Z + B * Y > 0
    BY <1>2, WestOfSum
  <2>2. WestOf(b, a, p) <=> IF V > 0 THEN B * V + A * U < 0 ELSE B * V + A * U > 0
    BY <1>1, <1>2, WestOfSum
  <2>3. U = -Z /\ V = -Y
    BY DEF Positions
  <2> HIDE DEF A, B, Y, Z, U, V
  <2>4. B * V = -(B * Y) /\ A * U = -(A * Z)
    BY <2>1, <2>3
  <2>5. QED  BY <2>1, <2>2, <2>3, <2>4
<1>3. QED  BY <1>1, <1>2 DEF Crosses

LEMMA Renumbered ==
  ASSUME NEW S, IsFiniteSet(S), NEW T, NEW f \in [S -> T],
         \A i, j \in S : f[i] = f[j] => i = j,
         \A k \in T : \E i \in S : f[i] = k
  PROVE  IsFiniteSet(T) /\ Cardinality(T) = Cardinality(S)
<1>1. f \in Bijection(S, T)
  BY DEF Bijection, Injection, IsInjective, Surjection
<1>2. ExistsBijection(S, T)
  BY <1>1 DEF ExistsBijection
<1>3. QED  BY <1>2, FS_Bijection

LEMMA DisjointUnion ==
  ASSUME NEW S, IsFiniteSet(S), NEW T, IsFiniteSet(T), S \cap T = {}
  PROVE  /\ IsFiniteSet(S \cup T) /\ Cardinality(S) \in Nat /\ Cardinality(T) \in Nat
         /\ Cardinality(S \cup T) = Cardinality(S) + Cardinality(T)
<1>1. /\ IsFiniteSet(S \cup T)
      /\ Cardinality(S \cup T) = Cardinality(S) + Cardinality(T) - Cardinality(S \cap T)
  BY FS_Union
<1>2. Cardinality(S \cap T) = 0
  BY FS_EmptySet
<1>3. Cardinality(S) \in Nat /\ Cardinality(T) \in Nat
  BY FS_CardinalityType
<1>4. QED  BY <1>1, <1>2, <1>3

Reversed(v) == [i \in 1 .. Len(v) |-> v[Len(v) + 1 - i]]
Rotated(v) == [i \in 1 .. Len(v) |-> v[IF i = Len(v) THEN 1 ELSE i + 1]]

LEMMA CrossedBy ==
  ASSUME NEW v, NEW p
  PROVE  Crossed(v, p) = { i \in 1 .. Len(v) : Crosses(v[i], Before(v, i), p) }
  BY DEF Crossed, Sides, Crosses

\* Which way round the vertices are listed makes no difference ...
LEMMA ReversedSame ==
  ASSUME NEW v \in Polygons, NEW p \in Positions
  PROVE  InPolygon(Reversed(v), p) <=> InPolygon(v, p)
<1> DEFINE n == Len(v)
           r == Reversed(v)
           turned(i) == IF i = 1 THEN 1 ELSE n + 2 - i
           f == [i \in Crossed(v, p) |-> turned(i)]
<1>1. n \in Nat /\ \A i \in 1 .. n : v[i] \in Positions
  BY DEF Polygons
<1>2. Len(r) = n /\ \A i \in 1 .. n : r[i] = v[n + 1 - i]
  <2>1. r \in Seq(Positions) /\ Len(r) = n
    <3>1. \A i \in 1 .. n : n + 1 - i \in 1 .. n
      BY <1>1
    <3>2. r \in [1 .. n -> Positions]
      BY <1>1, <3>1 DEF Reversed
    <3>3. QED  BY <1>1, <3>2
  <2>2. QED  BY <2>1 DEF Reversed
<1>3. ASSUME NEW i \in 1 .. n
      PROVE  /\ turned(i) \in 1 .. n /\ turned(turned(i)) = i
             /\ Crosses(r[turned(i)], Before(r, turned(i)), p) <=> Crosses(v[i], Before(v, i), p)
  <2>1. turned(i) \in 1 .. n /\ turned(turned(i)) = i
    BY <1>1
  <2>2. r[turned(i)] = Before(v, i) /\ Before(r, turned(i)) = v[i]
    <3>1. CASE i = 1
      <4>1. n + 1 - 1 = n /\ n + 1 - n = 1 /\ n \in 1 .. n
        BY <1>1
      <4>2. r[1] = v[n] /\ r[n] = v[1]
        BY <1>2, <4>1
      <4>3. QED  BY <1>2, <3>1, <4>2 DEF Before
    <3>2. CASE i # 1
      <4> DEFINE j == n + 2 - i
      <4>1. /\ j \in 1 .. n /\ j # 1 /\ j - 1 \in 1 .. n
            /\ n + 1 - j = i - 1 /\ n + 1 - (j - 1) = i
        BY <1>1, <3>2
      <4> HIDE DEF j
      <4>2. r[j] = v[i - 1] /\ r[j - 1] = v[i]
        BY <1>2, <4>1
      <4>3. turned(i) = j
        BY <3>2 DEF j
      <4>4. QED  BY <3>2, <4>1, <4>2, <4>3 DEF Before
    <3>3. QED  BY <3>1, <3>2
  <2>3. v[i] \in Positions /\ Before(v, i) \in Positions
    BY Vertices
  <2>4. QED  BY <2>1, <2>2, <2>3, CrossesBack
<1>4. Crossed(v, p) = { i \in 1 .. n : Crosses(v[i], Before(v, i), p) }
  BY CrossedBy
<1>5. Crossed(r, p) = { i \in 1 .. n : Crosses(r[i], Before(r, i), p) }
  BY <1>2, CrossedBy
<1> HIDE DEF turned, n, r
<1>6. f \in [Crossed(v, p) -> Crossed(r, p)]
  BY <1>3, <1>4, <1>5
<1>7. \A i, j \in Crossed(v, p) : f[i] = f[j] => i = j
  BY <1>3, <1>4
<1>8. \A k \in Crossed(r, p) : \E i \in Crossed(v, p) : f[i] = k
  <2> SUFFICES ASSUME NEW k \in Crossed(r, p)
               PROVE  turned(k) \in Crossed(v, p) /\ turned(turned(k)) = k
    OBVIOUS
  <2>1. k \in 1 .. n /\ Crosses(r[k], Before(r, k), p)
    BY <1>5
  <2>2. turned(k) \in 1 .. n /\ turned(turned(k)) = k
    BY <1>3, <2>1
  <2>3. Crosses(v[turned(k)], Before(v, turned(k)), p)
    BY <1>3, <2>1, <2>2
  <2>4. QED  BY <1>4, <2>2, <2>3
<1>9. IsFiniteSet(Crossed(v, p))
  BY FiniteSides
<1>10. Cardinality(Crossed(r, p)) = Cardinality(Crossed(v, p))
  <2> HIDE DEF f
  <2>1. QED  BY <1>6, <1>7, <1>8, <1>9, Renumbered
<1>11. Len(r) = Len(v)
  BY <1>2 DEF n
<1>12. InPolygon(r, p) <=> InPolygon(v, p)
  BY <1>10, <1>11, OddCrossed
<1>13. QED  BY <1>12 DEF r

\* ... nor does which vertex comes first.
LEMMA RotatedSame ==
  ASSUME NEW v \in Polygons, NEW p \in Positions
  PROVE  InPolygon(Rotated(v), p) <=> InPolygon(v, p)
<1> DEFINE n == Len(v)
           r == Rotated(v)
           earlier(i) == IF i = 1 THEN n ELSE i - 1
           later(i) == IF i = n THEN 1 ELSE i + 1
           f == [i \in Crossed(v, p) |-> earlier(i)]
<1>1. n \in Nat /\ \A i \in 1 .. n : v[i] \in Positions
  BY DEF Polygons
<1>2. /\ \A i \in 1 .. n : later(i) \in 1 .. n /\ earlier(i) \in 1 .. n
      /\ \A i \in 1 .. n : later(earlier(i)) = i /\ earlier(later(i)) = i
  BY <1>1
<1>3. Len(r) = n /\ \A i \in 1 .. n : r[i] = v[later(i)]
  <2>1. r = [i \in 1 .. n |-> v[later(i)]]
    BY DEF Rotated
  <2> HIDE DEF r, later
  <2>2. r \in [1 .. n -> Positions]
    BY <1>1, <1>2, <2>1
  <2>3. r \in Seq(Positions) /\ Len(r) = n
    BY <1>1, <2>2
  <2>4. QED  BY <2>1, <2>3
<1>4. /\ \A i \in 1 .. n : Before(v, i) = v[earlier(i)]
      /\ \A i \in 1 .. n : Before(r, i) = r[earlier(i)]
  BY <1>3 DEF Before
<1> HIDE DEF r, earlier, later
<1>5. ASSUME NEW i \in 1 .. n
      PROVE  Crosses(r[earlier(i)], Before(r, earlier(i)), p) <=> Crosses(v[i], Before(v, i), p)
  <2>1. r[earlier(i)] = v[i]
    BY <1>2, <1>3
  <2>2. Before(r, earlier(i)) = Before(v, i)
    <3>1. earlier(i) \in 1 .. n /\ earlier(earlier(i)) \in 1 .. n
      BY <1>2
    <3>2. Before(r, earlier(i)) = v[later(earlier(earlier(i)))]
      BY <1>3, <1>4, <3>1
    <3>3. QED  BY <1>2, <1>4, <3>1, <3>2
  <2>3. QED  BY <2>1, <2>2
<1>6. Crossed(v, p) = { i \in 1 .. n : Crosses(v[i], Before(v, i), p) }
  BY CrossedBy
<1>7. Crossed(r, p) = { i \in 1 .. n : Crosses(r[i], Before(r, i), p) }
  BY <1>3, CrossedBy
<1> HIDE DEF n
<1>8. f \in [Crossed(v, p) -> Crossed(r, p)]
  BY <1>2, <1>5, <1>6, <1>7
<1>9. \A i, j \in Crossed(v, p) : f[i] = f[j] => i = j
  <2> SUFFICES ASSUME NEW i \in Crossed(v, p), NEW j \in Crossed(v, p),
                      earlier(i) = earlier(j)
               PROVE  i = j
    OBVIOUS
  <2>1. i \in 1 .. n /\ j \in 1 .. n
    BY <1>6
  <2>2. QED  BY <1>2, <2>1
<1>10. \A k \in Crossed(r, p) : \E i \in Crossed(v, p) : f[i] = k
  <2> SUFFICES ASSUME NEW k \in Crossed(r, p)
               PROVE  later(k) \in Crossed(v, p) /\ earlier(later(k)) = k
    OBVIOUS
  <2>1. k \in 1 .. n /\ Crosses(r[k], Before(r, k), p)
    BY <1>7
  <2>2. later(k) \in 1 .. n /\ earlier(later(k)) = k
    BY <1>2, <2>1
  <2>3. Crosses(v[later(k)], Before(v, later(k)), p)
    BY <1>5, <2>1, <2>2
  <2>4. QED  BY <1>6, <2>2, <2>3
<1>11. IsFiniteSet(Crossed(v, p))
  BY FiniteSides
<1>12. Cardinality(Crossed(r, p)) = Cardinality(Crossed(v, p))
  <2> HIDE DEF f
  <2>1. QED  BY <1>8, <1>9, <1>10, <1>11, Renumbered
<1>13. Len(r) = Len(v)
  BY <1>3 DEF n
<1>14. InPolygon(r, p) <=> InPolygon(v, p)
  BY <1>12, <1>13, OddCrossed
<1>15. QED  BY <1>14 DEF r

\* What NewPolygon is given may start anywhere and go either way round.
THEOREM VertexOrder ==
  ASSUME NEW v \in Polygons, NEW p \in Positions
  PROVE  /\ InPolygon(Reversed(v), p) <=> InPolygon(v, p)
         /\ InPolygon(Rotated(v), p) <=> InPolygon(v, p)
  BY ReversedSame, RotatedSame

\* The two parts a polygon is cut into from its first to its k-th vertex.
FrontPart(v, k) == [i \in 1 .. k |-> v[i]]
BackPart(v, k) == [i \in 1 .. Len(v) - k + 2 |-> IF i = 1 THEN v[1] ELSE v[k + i - 2]]

OneIf(b, x) == IF b THEN {x} ELSE {}

LEMMA OneIfCount ==
  ASSUME NEW b \in BOOLEAN, NEW x
  PROVE  IsFiniteSet(OneIf(b, x)) /\ Cardinality(OneIf(b, x)) = IF b THEN 1 ELSE 0
<1>1. CASE b
  BY <1>1, FS_Singleton DEF OneIf
<1>2. CASE ~b
  BY <1>2, FS_EmptySet DEF OneIf
<1>3. QED  BY <1>1, <1>2

LEMMA Parity ==
  ASSUME NEW x \in Nat, NEW y \in Nat, NEW s \in {0, 1}, NEW c \in {0, 1}
  PROVE  (x + y + s) % 2 = 1 <=> ~ ((x + c) % 2 = 1 <=> (y + c + s) % 2 = 1)
<1>1. CASE s = 0 /\ c = 0
  BY <1>1
<1>2. CASE s = 0 /\ c = 1
  BY <1>2
<1>3. CASE s = 1 /\ c = 0
  BY <1>3
<1>4. CASE s = 1 /\ c = 1
  BY <1>4
<1>5. QED  BY <1>1, <1>2, <1>3, <1>4

\* A polygon cut along a diagonal is divided between its parts: wherever it is
\* cut, inside or not, what was in the polygon is in exactly one of them.
THEOREM DiagonalDivides ==
  ASSUME NEW v \in Polygons, NEW k \in 3 .. Len(v) - 1, NEW p \in Positions
  PROVE  InPolygon(v, p) <=> (InPolygon(FrontPart(v, k), p) # InPolygon(BackPart(v, k), p))
<1> DEFINE n == Len(v)
           m == n - k + 2
           a == FrontPart(v, k)
           b == BackPart(v, k)
           side(i) == Crosses(v[i], Before(v, i), p)
           cut == Crosses(v[1], v[k], p)
           F == { i \in 2 .. k : side(i) }
           G == { i \in k + 1 .. n : side(i) }
           H == { i \in 3 .. m : side(k + i - 2) }
<1>1. /\ n \in Nat /\ k \in Nat /\ k >= 3 /\ k <= n - 1 /\ m \in Nat /\ m >= 3
      /\ \A i \in 1 .. n : v[i] \in Positions
  BY DEF Polygons
<1>2. Len(a) = k /\ \A i \in 1 .. k : a[i] = v[i]
  <2>1. a \in [1 .. k -> Positions]
    BY <1>1 DEF FrontPart
  <2>2. a \in Seq(Positions) /\ Len(a) = k
    <3> HIDE DEF a
    <3>1. QED  BY <1>1, <2>1
  <2>3. QED  BY <2>2 DEF FrontPart
<1>3. Len(b) = m /\ b[1] = v[1] /\ \A i \in 2 .. m : b[i] = v[k + i - 2]
  <2>1. \A i \in 2 .. m : k + i - 2 \in 1 .. n
    BY <1>1
  <2>2. b \in [1 .. m -> Positions]
    BY <1>1, <2>1 DEF BackPart
  <2>3. b \in Seq(Positions) /\ Len(b) = m
    <3> HIDE DEF b, m
    <3>1. QED  BY <1>1, <2>2
  <2>4. 1 \in 1 .. m /\ \A i \in 2 .. m : i \in 1 .. m /\ i # 1
    BY <1>1
  <2>5. QED  BY <2>3, <2>4 DEF BackPart
<1>4. /\ \A i \in 2 .. n : Before(v, i) = v[i - 1]
      /\ Before(v, 1) = v[n]
      /\ \A i \in 2 .. k : Before(a, i) = a[i - 1]
      /\ Before(a, 1) = a[k]
      /\ \A i \in 2 .. m : Before(b, i) = b[i - 1]
      /\ Before(b, 1) = b[m]
  BY <1>1, <1>2, <1>3 DEF Before
<1> HIDE DEF a, b
<1>5. Crossed(v, p) = (F \cup G) \cup OneIf(side(1), 1)
  <2>1. 1 .. n = (2 .. k \cup k + 1 .. n) \cup {1}
    BY <1>1
  <2>2. Crossed(v, p) = { i \in 1 .. n : side(i) }
    BY CrossedBy
  <2> HIDE DEF side
  <2>3. QED  BY <2>1, <2>2 DEF OneIf
<1>6. Crossed(a, p) = F \cup OneIf(cut, 1)
  <2>1. Crossed(a, p) = { i \in 1 .. k : Crosses(a[i], Before(a, i), p) }
    BY <1>2, CrossedBy
  <2>2. \A i \in 2 .. k : Crosses(a[i], Before(a, i), p) <=> side(i)
    <3> SUFFICES ASSUME NEW i \in 2 .. k
                 PROVE  a[i] = v[i] /\ Before(a, i) = Before(v, i)
      OBVIOUS
    <3>1. i \in 1 .. k /\ i - 1 \in 1 .. k /\ i \in 2 .. n
      BY <1>1
    <3>2. QED  BY <1>2, <1>4, <3>1
  <2>3. Crosses(a[1], Before(a, 1), p) <=> cut
    <3>1. 1 \in 1 .. k /\ k \in 1 .. k
      BY <1>1
    <3>2. QED  BY <1>2, <1>4, <3>1
  <2>4. 1 .. k = 2 .. k \cup {1}
    BY <1>1
  <2> HIDE DEF side, cut
  <2>5. QED  BY <2>1, <2>2, <2>3, <2>4 DEF OneIf
<1>7. Crossed(b, p) = (H \cup OneIf(cut, 2)) \cup OneIf(side(1), 1)
  <2>1. Crossed(b, p) = { i \in 1 .. m : Crosses(b[i], Before(b, i), p) }
    BY <1>3, CrossedBy
  <2>2. \A i \in 3 .. m : Crosses(b[i], Before(b, i), p) <=> side(k + i - 2)
    <3> SUFFICES ASSUME NEW i \in 3 .. m
                 PROVE  b[i] = v[k + i - 2] /\ Before(b, i) = Before(v, k + i - 2)
      OBVIOUS
    <3>1. /\ i \in 2 .. m /\ i - 1 \in 2 .. m /\ k + i - 2 \in 2 .. n
          /\ k + (i - 1) - 2 = k + i - 2 - 1
      BY <1>1
    <3>2. b[i] = v[k + i - 2] /\ b[i - 1] = v[k + i - 2 - 1]
      BY <1>3, <3>1
    <3>3. Before(b, i) = b[i - 1] /\ Before(v, k + i - 2) = v[k + i - 2 - 1]
      BY <1>4, <3>1
    <3>4. QED  BY <3>2, <3>3
  <2>3. Crosses(b[2], Before(b, 2), p) <=> cut
    <3>1. 2 \in 2 .. m /\ k + 2 - 2 = k /\ 2 - 1 = 1 /\ 1 \in 1 .. n /\ k \in 1 .. n
      BY <1>1
    <3>2. b[2] = v[k] /\ Before(b, 2) = v[1]
      BY <1>3, <1>4, <3>1
    <3>3. QED  BY <1>1, <3>1, <3>2, CrossesBack
  <2>4. Crosses(b[1], Before(b, 1), p) <=> side(1)
    <3>1. m \in 2 .. m /\ k + m - 2 = n
      BY <1>1
    <3>2. QED  BY <1>3, <1>4, <3>1
  <2>5. 1 .. m = (3 .. m \cup {2}) \cup {1}
    BY <1>1
  <2> HIDE DEF side, cut, m
  <2>6. QED  BY <2>1, <2>2, <2>3, <2>4, <2>5 DEF OneIf
<1>8. IsFiniteSet(F) /\ IsFiniteSet(G)
  <2>1. IsFiniteSet(2 .. k) /\ IsFiniteSet(k + 1 .. n)
    BY <1>1, FS_Interval
  <2>2. F \in SUBSET (2 .. k) /\ G \in SUBSET (k + 1 .. n)
    OBVIOUS
  <2>3. QED  BY <2>1, <2>2, FS_Subset
<1>9. IsFiniteSet(H) /\ Cardinality(H) = Cardinality(G)
  <2> DEFINE f == [i \in G |-> i - k + 2]
  <2>1. f \in [G -> H]
    <3> SUFFICES ASSUME NEW i \in G PROVE i - k + 2 \in H
      OBVIOUS
    <3>1. i \in k + 1 .. n /\ side(i)
      OBVIOUS
    <3>2. i - k + 2 \in 3 .. m /\ k + (i - k + 2) - 2 = i
      BY <1>1, <3>1
    <3> HIDE DEF side
    <3>3. QED  BY <3>1, <3>2
  <2>2. \A i, j \in G : f[i] = f[j] => i = j
    <3> SUFFICES ASSUME NEW i \in G, NEW j \in G, i - k + 2 = j - k + 2 PROVE i = j
      OBVIOUS
    <3>1. i \in Int /\ j \in Int
      BY <1>1
    <3>2. QED  BY <1>1, <3>1
  <2>3. \A j \in H : \E i \in G : f[i] = j
    <3> SUFFICES ASSUME NEW j \in H PROVE k + j - 2 \in G /\ (k + j - 2) - k + 2 = j
      OBVIOUS
    <3>1. j \in 3 .. m /\ side(k + j - 2)
      OBVIOUS
    <3>2. k + j - 2 \in k + 1 .. n /\ (k + j - 2) - k + 2 = j
      BY <1>1, <3>1
    <3> HIDE DEF side
    <3>3. QED  BY <3>1, <3>2
  <2> HIDE DEF f, G, H
  <2>4. QED  BY <1>8, <2>1, <2>2, <2>3, Renumbered
<1> DEFINE N(S) == Cardinality(S)
           s == IF side(1) THEN 1 ELSE 0
           c == IF cut THEN 1 ELSE 0
<1>10. /\ \A x : IsFiniteSet(OneIf(side(1), x)) /\ Cardinality(OneIf(side(1), x)) = s
       /\ \A x : IsFiniteSet(OneIf(cut, x)) /\ Cardinality(OneIf(cut, x)) = c
  <2>1. side(1) \in BOOLEAN /\ cut \in BOOLEAN
    BY DEF Crosses, Straddles, WestOf
  <2> HIDE DEF side, cut
  <2>2. QED  BY <2>1, OneIfCount
<1>11. /\ F \cap G = {} /\ (F \cup G) \cap OneIf(side(1), 1) = {}
       /\ F \cap OneIf(cut, 1) = {}
       /\ H \cap OneIf(cut, 2) = {} /\ (H \cup OneIf(cut, 2)) \cap OneIf(side(1), 1) = {}
  <2>1. /\ \A i \in F : i # 1 /\ i <= k
        /\ \A i \in G : i # 1 /\ ~(i <= k)
        /\ \A i \in H : i # 1 /\ i # 2
    BY <1>1
  <2> HIDE DEF F, G, H, side, cut
  <2>2. QED  BY <2>1 DEF OneIf
<1> HIDE DEF F, G, H, side, cut, s, c
<1>12. /\ N(F) \in Nat /\ N(G) \in Nat
       /\ N(Crossed(v, p)) = N(F) + N(G) + s
  <2>1. IsFiniteSet(F \cup G) /\ N(F \cup G) = N(F) + N(G) /\ N(F) \in Nat /\ N(G) \in Nat
    BY <1>8, <1>11, DisjointUnion
  <2>2. N((F \cup G) \cup OneIf(side(1), 1)) = N(F \cup G) + N(OneIf(side(1), 1))
    <3>1. IsFiniteSet(F \cup G) /\ IsFiniteSet(OneIf(side(1), 1))
      BY <1>10, <2>1
    <3>2. QED  BY <3>1, <1>11, DisjointUnion
  <2>3. N(OneIf(side(1), 1)) = s
    BY <1>10
  <2>4. QED  BY <1>5, <2>1, <2>2, <2>3
<1>13. N(Crossed(a, p)) = N(F) + c
  BY <1>6, <1>8, <1>10, <1>11, DisjointUnion
<1>14. N(Crossed(b, p)) = N(G) + c + s
  <2>1. /\ IsFiniteSet(H \cup OneIf(cut, 2))
        /\ N(H \cup OneIf(cut, 2)) = N(H) + c
    BY <1>9, <1>10, <1>11, DisjointUnion
  <2>2. N((H \cup OneIf(cut, 2)) \cup OneIf(side(1), 1))
          = N(H \cup OneIf(cut, 2)) + N(OneIf(side(1), 1))
    <3>1. IsFiniteSet(H \cup OneIf(cut, 2)) /\ IsFiniteSet(OneIf(side(1), 1))
      BY <1>10, <2>1
    <3>2. QED  BY <3>1, <1>11, DisjointUnion
  <2>3. N(OneIf(side(1), 1)) = s
    BY <1>10
  <2>4. QED  BY <1>7, <1>9, <2>1, <2>2, <2>3
<1>15. s \in {0, 1} /\ c \in {0, 1}
  BY DEF s, c
<1>16. /\ InPolygon(v, p) <=> N(Crossed(v, p)) % 2 = 1
       /\ InPolygon(a, p) <=> N(Crossed(a, p)) % 2 = 1
       /\ InPolygon(b, p) <=> N(Crossed(b, p)) % 2 = 1
  <2>1. Len(v) >= 3 /\ Len(a) >= 3 /\ Len(b) >= 3
    BY <1>1, <1>2, <1>3
  <2>2. QED  BY <2>1, OddCrossed
<1> HIDE DEF N
<1>17. (N(F) + N(G) + s) % 2 = 1 <=> ~ ((N(F) + c) % 2 = 1 <=> (N(G) + c + s) % 2 = 1)
  <2> DEFINE x == N(F)
             y == N(G)
  <2>1. x \in Nat /\ y \in Nat
    BY <1>12
  <2> HIDE DEF x, y
  <2>2. (x + y + s) % 2 = 1 <=> ~ ((x + c) % 2 = 1 <=> (y + c + s) % 2 = 1)
    BY <2>1, <1>15, Parity
  <2>3. QED  BY <2>2 DEF x, y
<1>18. InPolygon(v, p) <=> ~ (InPolygon(a, p) <=> InPolygon(b, p))
  <2>1. /\ InPolygon(v, p) <=> (N(F) + N(G) + s) % 2 = 1
        /\ InPolygon(a, p) <=> (N(F) + c) % 2 = 1
        /\ InPolygon(b, p) <=> (N(G) + c + s) % 2 = 1
    BY <1>12, <1>13, <1>14, <1>16
  <2>2. QED  BY <2>1, <1>17
<1>19. InPolygon(a, p) \in BOOLEAN /\ InPolygon(b, p) \in BOOLEAN
  BY DEF InPolygon
<1>20. QED  BY <1>18, <1>19 DEF a, b
=============================================================================
