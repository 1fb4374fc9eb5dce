-------------------------- MODULE GridScan_proofs ---------------------------
(***************************************************************************)
(* Proofs about GridScan, for every set of entities and positions, every   *)
(* circle and any number of updates that overlap a scan.                   *)
(*                                                                         *)
(* The invariant is a conjunction over the entities (Own). A move disturbs *)
(* one conjunct only and the scan changes its own variables only, so every *)
(* step is a few lines about one entity.                                   *)
(***************************************************************************)
EXTENDS GridScan, Geometry_proofs

\* The slot an entry of e is found in.
SlotOf(e, p) == 16 * ShardKey(p) + Stripe(e)

\* One more sighting of e is to come if its entry lies ahead of the scan.
Pending(e) == IF \E p \in grid[e] : SlotOf(e, p) \in todo THEN 1 ELSE 0

Sought(e) ==
  \/ op = "query" /\ place[e] \in Circle
  \/ op = "count" /\ place[e] # Nil
  \/ op = "get" /\ e = wanted /\ place[e] # Nil

\* A query does not visit every cell its circle reaches into.
Listed(e) == op = "query" => ShardKey(place[e]) \in ShardsForRadius(CircleBox)

\* A still entity is where it was last put, and is found when its slot is
\* visited.
Still(e) ==
  op # "idle" /\ moves[e] = 0 =>
    /\ target[e] = Nil
    /\ found[e] <= 1
    /\ ~Sought(e) \/ SlotOf(e, place[e]) \in todo => found[e] = 0
    /\ Sought(e) /\ Listed(e) /\ SlotOf(e, place[e]) \notin todo => found[e] = 1

\* The entry of an entity is its last position, but for the time between the
\* delete and the insert of a move.
Entry(e) ==
  /\ grid[e] = IF target[e] # Nil \/ place[e] = Nil THEN {} ELSE {place[e]}
  /\ target[e] # Nil => place[e] # Nil

\* Sightings are paid for by moves. Between the delete and the insert of one
\* the next sighting is paid for already.
Paid(e) ==
  /\ found[e] + Pending(e) <= 1 + moves[e]
  /\ target[e] # Nil => found[e] <= moves[e]
  /\ op = "get" => found[e] <= 1 /\ (found[e] # 0 => todo = {})
  /\ op = "idle" => found[e] = 0 /\ moves[e] = 0

Own(e) == Entry(e) /\ Paid(e) /\ Still(e)

ScanTypeOK ==
  /\ grid \in [Entities -> SUBSET Points]
  /\ place \in [Entities -> Points \cup {Nil}]
  /\ target \in [Entities -> Points \cup {Nil}]
  /\ op \in Scans \cup {"idle"}
  /\ todo \in SUBSET Nat
  /\ found \in [Entities -> Nat] /\ moves \in [Entities -> Nat]

IInv ==
  /\ ScanTypeOK
  /\ op = "idle" => todo = {}
  /\ \A e \in Entities : Own(e)

-----------------------------------------------------------------------------
(* Cells, stripes and slots. *)

\* Turns are numbers, so some slot's turn comes first.
LEMMA TurnIsNat ==
  ASSUME NEW slot \in Nat
  PROVE  TurnOf(slot) \in Nat
<1>1. slot % 16 \in 0 .. 15 /\ slot \div 16 \in Nat
  OBVIOUS
<1>2. /\ CircleBox.lat \in Int /\ CircleBox.lng \in Int
      /\ CircleBox.dLat \in Int /\ CircleBox.dLng \in Int
  BY ScanAssumption
<1>3. FirstRow(CircleBox.lat, CircleBox.dLat) \in Int
  BY <1>2, Bands DEF FirstRow
<1>4. LngBand(CircleBox.lng - CircleBox.dLng) \in Int
  BY <1>2, Bands
<1>5. \A cell \in Nat, row \in Int, col \in Int :
        16 * ((cell \div 16 - row) % 16) + (((cell % 16) - col) % 16) \in Nat
  OBVIOUS
<1>6. ListPlace(CircleBox, slot \div 16) \in Nat
  BY <1>1, <1>3, <1>4, <1>5 DEF ListPlace
<1>7. QED  BY <1>1, <1>6 DEF TurnOf

LEMMA NextSlot ==
  ASSUME todo \in SUBSET Nat, todo # {}
  PROVE  (CHOOSE s \in todo : \A t \in todo : TurnOf(s) <= TurnOf(t)) \in todo
<1> DEFINE turns == { TurnOf(s) : s \in todo }
<1>1. turns \in SUBSET Nat /\ turns # {}
  BY TurnIsNat
<1>2. PICK n \in turns : \A m \in turns : n <= m
  BY <1>1, LeastOf
<1>3. \E s \in todo : \A t \in todo : TurnOf(s) <= TurnOf(t)
  BY <1>2
<1>4. QED  BY <1>3

LEMMA PointTypes ==
  ASSUME NEW p \in Points
  PROVE  /\ p # Nil /\ p.lat \in -90 .. 90 /\ p.lng \in -180 .. 180
         /\ ShardKey(p) \in 0 .. 255
<1>1. p # Nil /\ p.lat \in -90 .. 90 /\ p.lng \in -180 .. 180
  <2>1. p.lat \in Lats /\ p.lng \in Lngs
    BY DEF Points
  <2>2. Nil \notin Points
    BY ScanAssumption
  <2>3. p # Nil
    BY <2>2
  <2>4. \A y \in Lats : y \in -90 .. 90
    BY GridAssumption
  <2>5. \A x \in Lngs : x \in -180 .. 180
    BY GridAssumption
  <2>6. QED  BY <2>1, <2>3, <2>4, <2>5
<1>2. LatBand(p.lat) \in Int /\ LngBand(p.lng) \in Int
  BY <1>1 DEF LatBand, LngBand
<1>3. Clamp(LatBand(p.lat)) \in 0 .. 15 /\ Clamp(LngBand(p.lng)) \in 0 .. 15
  BY <1>2 DEF Clamp
<1>4. QED  BY <1>1, <1>3 DEF ShardKey

LEMMA SlotParts ==
  ASSUME NEW e \in Entities, NEW p \in Points
  PROVE  /\ Stripe(e) \in 0 .. 15 /\ SlotOf(e, p) \in Nat
         /\ \A slot \in Nat :
              slot = SlotOf(e, p) <=> Stripe(e) = slot % 16 /\ ShardKey(p) = slot \div 16
<1>1. Stripe(e) \in 0 .. 15
  BY ScanAssumption DEF Stripe
<1>2. ShardKey(p) \in 0 .. 255
  BY PointTypes
<1> DEFINE c == ShardKey(p)
           s == Stripe(e)
<1>3. c \in 0 .. 255 /\ s \in 0 .. 15 /\ SlotOf(e, p) = 16 * c + s
  BY <1>1, <1>2 DEF SlotOf
<1> HIDE DEF c, s
<1>4. \A slot \in Nat : slot = 16 * c + s <=> s = slot % 16 /\ c = slot \div 16
  BY <1>3
<1>5. 16 * c + s \in Nat
  BY <1>3
<1>6. QED  BY <1>1, <1>3, <1>4, <1>5 DEF c, s

\* The cells of a query hold the positions of its box; see Coverage for the
\* exceptions.
LEMMA BoxCovered ==
  ASSUME 180 \notin Lngs, CircleBox.dLat # 0, NEW p \in Points, WithinBox(CircleBox, p)
  PROVE  ShardKey(p) \in ShardsForRadius(CircleBox)
<1>1. p \in [lat : -90 .. 90, lng : -180 .. 179]
  <2>1. p.lat \in -90 .. 90 /\ p.lng \in -180 .. 180
    BY PointTypes
  <2>2. p.lng # 180
    BY DEF Points
  <2>3. p.lng \in -180 .. 179
    BY <2>1, <2>2
  <2>4. QED  BY <2>1, <2>3 DEF Points
<1>2. CircleBox \in [lat : -90 .. 90, lng : -180 .. 180, dLat : Nat \ {0}, dLng : Nat]
  BY ScanAssumption
<1>3. QED  BY <1>1, <1>2, Coverage

-----------------------------------------------------------------------------
(* The writers: what a move does to the entity it moves, and to others. *)

LEMMA PendingBit ==
  ASSUME NEW e \in Entities
  PROVE  Pending(e) \in {0, 1}
  BY DEF Pending

LEMMA Aside ==
  ASSUME NEW e \in Entities, Own(e), UNCHANGED scan,
         grid'[e] = grid[e], place'[e] = place[e], target'[e] = target[e], moves'[e] = moves[e]
  PROVE  Own(e)'
<1>1. found'[e] = found[e] /\ op' = op /\ wanted' = wanted /\ todo' = todo
  BY DEF scan
<1>2. Pending(e)' = Pending(e) /\ Sought(e)' = Sought(e) /\ Listed(e)' = Listed(e)
  BY <1>1 DEF Pending, Sought, Listed
<1>3. Entry(e)' /\ Paid(e)'
  BY <1>1, <1>2 DEF Own, Entry, Paid
<1>4. Still(e)'
  BY <1>1, <1>2 DEF Own, Still
<1>5. QED  BY <1>3, <1>4 DEF Own

\* An update pays for one sighting, whatever it does to the entry.
LEMMA UpdatePays ==
  ASSUME IInv, NEW e \in Entities, Update(e), UNCHANGED scan, Entry(e)'
  PROVE  Own(e)' /\ moves' \in [Entities -> Nat]
                 /\ \A d \in Entities \ {e} : moves'[d] = moves[d]
<1>1. found' = found /\ op' = op /\ wanted' = wanted /\ todo' = todo
  BY DEF scan
<1>2. found[e] \in Nat /\ moves[e] \in Nat /\ moves \in [Entities -> Nat]
  BY DEF IInv, ScanTypeOK
<1>3. Pending(e) \in {0, 1} /\ Pending(e)' \in {0, 1}
  BY DEF Pending
<1>4. CASE op = "idle"
  <2>1. moves' = moves /\ todo' = {} /\ found[e] = 0 /\ moves[e] = 0
    BY <1>1, <1>4 DEF Update, IInv, Own, Paid
  <2>2. Pending(e)' = 0
    BY <2>1 DEF Pending
  <2>3. Paid(e)' /\ Still(e)'
    BY <1>1, <1>2, <1>4, <2>1, <2>2 DEF Paid, Still
  <2>4. QED  BY <1>2, <2>1, <2>3 DEF Own
<1>5. CASE op # "idle"
  <2>1. moves' = [moves EXCEPT ![e] = @ + 1] /\ moves'[e] = moves[e] + 1
    BY <1>2, <1>5 DEF Update
  <2>2. found[e] <= 1 + moves[e]
    BY <1>2, <1>3 DEF IInv, Own, Paid
  <2>3. Paid(e)'
    BY <1>1, <1>2, <1>3, <1>5, <2>1, <2>2 DEF Paid, IInv, Own
  <2>4. Still(e)'
    BY <1>2, <2>1 DEF Still
  <2>5. QED  BY <1>2, <2>1, <2>3, <2>4 DEF Own
<1>6. QED  BY <1>4, <1>5

\* What Route and DeleteEntry make of an entity's single entry.
LEMMA SingleEntry ==
  ASSUME NEW e \in Entities, NEW p \in Points, ScanTypeOK, Entry(e)
  PROVE  /\ Route(e, p) => grid' \in [Entities -> SUBSET Points]
         /\ DeleteEntry(e, ShardKey(place[e])) => grid' \in [Entities -> SUBSET Points]
         /\ Route(e, p) \/ DeleteEntry(e, ShardKey(place[e])) =>
              \A d \in Entities \ {e} : grid'[d] = grid[d]
         /\ Route(e, p) /\ (grid[e] # {} => ShardKey(place[e]) = ShardKey(p)) =>
              grid'[e] = {p}
         /\ DeleteEntry(e, ShardKey(place[e])) => grid'[e] = {}
<1>1. grid \in [Entities -> SUBSET Points] /\ grid[e] \in {{}, {place[e]}}
  BY DEF ScanTypeOK, Entry
<1>2. /\ Route(e, p) => grid' = [grid EXCEPT ![e] = Without(grid[e], ShardKey(p)) \cup {p}]
      /\ DeleteEntry(e, ShardKey(place[e])) =>
           grid' = [grid EXCEPT ![e] = Without(grid[e], ShardKey(place[e]))]
  BY DEF Route, DeleteEntry
<1>3. \A c : Without(grid[e], c) \subseteq grid[e] /\ Without(grid[e], c) \subseteq Points
  BY <1>1 DEF Without
<1>4. Without(grid[e], ShardKey(place[e])) = {}
  BY <1>1 DEF Without
<1>5. (grid[e] # {} => ShardKey(place[e]) = ShardKey(p)) => Without(grid[e], ShardKey(p)) = {}
  BY <1>1 DEF Without
<1>6. QED  BY <1>1, <1>2, <1>3, <1>4, <1>5

LEMMA PutStep ==
  ASSUME IInv, NEW e \in Entities, NEW p \in Points, Put(e, p)
  PROVE  IInv'
<1>1. ScanTypeOK /\ Entry(e) /\ p # Nil
  BY PointTypes DEF IInv, Own
<1>2. /\ place' = [place EXCEPT ![e] = p] /\ target' = target /\ target[e] = Nil
      /\ UNCHANGED scan /\ Update(e) /\ Route(e, p)
      /\ place[e] # Nil => ShardKey(place[e]) = ShardKey(p)
  BY DEF Put
<1>3. grid[e] # {} => ShardKey(place[e]) = ShardKey(p)
  BY <1>1, <1>2 DEF Entry
<1>4. /\ grid' \in [Entities -> SUBSET Points] /\ grid'[e] = {p}
      /\ \A d \in Entities \ {e} : grid'[d] = grid[d]
  BY <1>1, <1>2, <1>3, SingleEntry
<1>5. place'[e] = p /\ \A d \in Entities \ {e} : place'[d] = place[d]
  BY <1>1, <1>2 DEF ScanTypeOK
<1>6. Entry(e)'
  BY <1>1, <1>2, <1>4, <1>5 DEF Entry
<1>7. Own(e)' /\ moves' \in [Entities -> Nat] /\ \A d \in Entities \ {e} : moves'[d] = moves[d]
  BY <1>2, <1>6, UpdatePays
<1>8. \A d \in Entities \ {e} : Own(d)'
  BY <1>2, <1>4, <1>5, <1>7, Aside DEF IInv
<1>9. ScanTypeOK' /\ (op' = "idle" => todo' = {})
  BY <1>1, <1>2, <1>4, <1>7 DEF ScanTypeOK, IInv, scan
<1>10. QED  BY <1>7, <1>8, <1>9 DEF IInv

LEMMA LeaveStep ==
  ASSUME IInv, NEW e \in Entities, NEW p \in Points, LeaveCell(e, p)
  PROVE  IInv'
<1>1. ScanTypeOK /\ Entry(e)
  BY DEF IInv, Own
<1>2. /\ target' = [target EXCEPT ![e] = p] /\ place' = place /\ place[e] # Nil
      /\ UNCHANGED scan /\ Update(e) /\ DeleteEntry(e, ShardKey(place[e]))
  BY DEF LeaveCell
<1>3. /\ grid' \in [Entities -> SUBSET Points] /\ grid'[e] = {}
      /\ \A d \in Entities \ {e} : grid'[d] = grid[d]
  BY <1>1, <1>2, SingleEntry
<1>4. target'[e] = p /\ p # Nil /\ \A d \in Entities \ {e} : target'[d] = target[d]
  BY <1>1, <1>2, PointTypes DEF ScanTypeOK
<1>5. Entry(e)'
  BY <1>2, <1>3, <1>4 DEF Entry
<1>6. Own(e)' /\ moves' \in [Entities -> Nat] /\ \A d \in Entities \ {e} : moves'[d] = moves[d]
  BY <1>2, <1>5, UpdatePays
<1>7. \A d \in Entities \ {e} : Own(d)'
  BY <1>2, <1>3, <1>4, <1>6, Aside DEF IInv
<1>8. ScanTypeOK' /\ (op' = "idle" => todo' = {})
  BY <1>1, <1>2, <1>3, <1>6 DEF ScanTypeOK, IInv, scan
<1>9. QED  BY <1>6, <1>7, <1>8 DEF IInv

LEMMA RemoveStep ==
  ASSUME IInv, NEW e \in Entities, Remove(e)
  PROVE  IInv'
<1>1. ScanTypeOK /\ Entry(e)
  BY DEF IInv, Own
<1>2. /\ place' = [place EXCEPT ![e] = Nil] /\ target' = target /\ target[e] = Nil
      /\ UNCHANGED scan /\ Update(e) /\ DeleteEntry(e, ShardKey(place[e]))
      /\ place[e] \in Points
  BY <1>1 DEF Remove, ScanTypeOK
<1>3. /\ grid' \in [Entities -> SUBSET Points] /\ grid'[e] = {}
      /\ \A d \in Entities \ {e} : grid'[d] = grid[d]
  BY <1>1, <1>2, SingleEntry
<1>4. place'[e] = Nil /\ \A d \in Entities \ {e} : place'[d] = place[d]
  BY <1>1, <1>2 DEF ScanTypeOK
<1>5. Entry(e)'
  BY <1>2, <1>3, <1>4 DEF Entry
<1>6. Own(e)' /\ moves' \in [Entities -> Nat] /\ \A d \in Entities \ {e} : moves'[d] = moves[d]
  BY <1>2, <1>5, UpdatePays
<1>7. \A d \in Entities \ {e} : Own(d)'
  BY <1>2, <1>3, <1>4, <1>6, Aside DEF IInv
<1>8. ScanTypeOK' /\ (op' = "idle" => todo' = {})
  BY <1>1, <1>2, <1>3, <1>6 DEF ScanTypeOK, IInv, scan
<1>9. QED  BY <1>6, <1>7, <1>8 DEF IInv

\* The second half of a move was paid for by the first, or by the scan's
\* beginning between the two.
LEMMA EnterStep ==
  ASSUME IInv, NEW e \in Entities, EnterCell(e)
  PROVE  IInv'
<1>1. ScanTypeOK /\ Own(e) /\ Entry(e) /\ Paid(e) /\ target[e] \in Points
  BY DEF IInv, Own, EnterCell, ScanTypeOK
<1>2. /\ place' = [place EXCEPT ![e] = target[e]] /\ target' = [target EXCEPT ![e] = Nil]
      /\ UNCHANGED scan /\ moves' = moves /\ Route(e, target[e]) /\ target[e] # Nil
  BY DEF EnterCell
<1>3. grid[e] = {}
  BY <1>1, <1>2 DEF Entry
<1>4. /\ grid' \in [Entities -> SUBSET Points] /\ grid'[e] = {target[e]}
      /\ \A d \in Entities \ {e} : grid'[d] = grid[d]
  BY <1>1, <1>2, <1>3, SingleEntry
<1>5. /\ place'[e] = target[e] /\ \A d \in Entities \ {e} : place'[d] = place[d]
      /\ target'[e] = Nil /\ \A d \in Entities \ {e} : target'[d] = target[d]
  BY <1>1, <1>2 DEF ScanTypeOK
<1>6. Entry(e)'
  BY <1>2, <1>4, <1>5 DEF Entry
<1>7. found' = found /\ op' = op /\ wanted' = wanted /\ todo' = todo
  BY <1>2 DEF scan
<1>8. Paid(e)'
  <2>1. found[e] \in Nat /\ moves[e] \in Nat /\ found[e] <= moves[e]
    BY <1>1, <1>2 DEF ScanTypeOK, Paid
  <2>2. Pending(e)' \in {0, 1} /\ (todo' = {} => Pending(e)' = 0)
    BY DEF Pending
  <2>3. QED  BY <1>1, <1>2, <1>5, <1>7, <2>1, <2>2 DEF Paid, IInv
<1>9. Still(e)'
  BY <1>1, <1>2, <1>7 DEF Own, Still
<1>10. Own(e)'
  BY <1>6, <1>8, <1>9 DEF Own
<1>11. \A d \in Entities \ {e} : Own(d)'
  BY <1>2, <1>4, <1>5, Aside DEF IInv
<1>12. ScanTypeOK' /\ (op' = "idle" => todo' = {})
  BY <1>1, <1>2, <1>4, <1>7 DEF ScanTypeOK, IInv
<1>13. QED  BY <1>10, <1>11, <1>12 DEF IInv

-----------------------------------------------------------------------------
(* The scan: what it begins with, visits and returns. *)

LEMMA SlotsOf ==
  /\ UsedCells \subseteq Nat /\ Stripes \subseteq Nat
  /\ \A cells \in SUBSET Nat, stripes \in SUBSET Nat : Slots(cells, stripes) \in SUBSET Nat
  /\ \A cells, stripes : \A e \in Entities, p \in Points :
       ShardKey(p) \in cells /\ Stripe(e) \in stripes => SlotOf(e, p) \in Slots(cells, stripes)
  /\ \A e \in Entities : Stripe(e) \in Nat
<1>1. \A p \in Points : ShardKey(p) \in Nat
  BY PointTypes
<1>2. \A e \in Entities : Stripe(e) \in Nat
  BY ScanAssumption DEF Stripe
<1>3. \A cells \in SUBSET Nat, stripes \in SUBSET Nat : Slots(cells, stripes) \in SUBSET Nat
  <2> SUFFICES ASSUME NEW cells \in SUBSET Nat, NEW stripes \in SUBSET Nat,
                      NEW c \in cells, NEW s \in stripes
               PROVE  16 * c + s \in Nat
    BY DEF Slots
  <2>1. c \in Nat /\ s \in Nat
    OBVIOUS
  <2>2. QED  BY <2>1
<1>4. UsedCells \subseteq Nat /\ Stripes \subseteq Nat
  BY <1>1, <1>2 DEF UsedCells, Stripes
<1>5. QED  BY <1>2, <1>3, <1>4 DEF Slots, SlotOf

\* A scan may begin in the middle of a move. It begins with every slot in
\* which something it looks for can be.
LEMMA BeginStep ==
  ASSUME IInv, NEW kind \in Scans, NEW w, NEW slots \in SUBSET Nat, Begin(kind, w, slots),
         \A e \in Entities :
           target[e] = Nil /\ Sought(e)' /\ Listed(e)' => SlotOf(e, place[e]) \in slots
  PROVE  IInv'
<1>1. /\ op = "idle" /\ op' = kind /\ kind # "idle" /\ todo' = slots
      /\ moves' = [d \in Entities |-> IF target[d] = Nil THEN 0 ELSE 1]
      /\ UNCHANGED <<grid, place, target, found>>
  BY DEF Begin, Scans
<1>2. ASSUME NEW e \in Entities
      PROVE  Own(e)'
  <2>1. Own(e) /\ found[e] = 0 /\ found'[e] = 0
    BY <1>1 DEF IInv, Own, Paid
  <2>2. Entry(e)'
    BY <1>1, <2>1 DEF Own, Entry
  <2>3. moves'[e] = IF target[e] = Nil THEN 0 ELSE 1
    BY <1>1
  <2>4. Pending(e)' \in {0, 1}
    BY DEF Pending
  <2>5. Paid(e)'
    BY <1>1, <2>1, <2>3, <2>4 DEF Paid
  <2>6. Still(e)'
    <3>1. target'[e] = target[e] /\ place'[e] = place[e]
      BY <1>1
    <3>2. QED  BY <1>1, <2>1, <2>3, <3>1 DEF Still
  <2>7. QED  BY <2>2, <2>5, <2>6 DEF Own
<1>3. ScanTypeOK' /\ (op' = "idle" => todo' = {})
  BY <1>1 DEF IInv, ScanTypeOK
<1>4. QED  BY <1>2, <1>3 DEF IInv

LEMMA QueryCircleStep ==
  ASSUME IInv, QueryCircle
  PROVE  IInv'
<1> DEFINE slots == Slots(ShardsForRadius(CircleBox) \cap UsedCells, Stripes)
<1>1. slots \in SUBSET Nat
  BY SlotsOf
<1>2. ASSUME NEW e \in Entities, Sought(e)', Listed(e)'
      PROVE  SlotOf(e, place[e]) \in slots
  <2>1. place[e] \in Circle /\ ShardKey(place[e]) \in ShardsForRadius(CircleBox)
    BY <1>2 DEF QueryCircle, Begin, Sought, Listed
  <2>2. place[e] \in Points
    BY <2>1, ScanAssumption
  <2>3. ShardKey(place[e]) \in UsedCells /\ Stripe(e) \in Stripes
    BY <2>2 DEF UsedCells, Stripes
  <2>4. QED  BY <2>1, <2>2, <2>3, SlotsOf
<1>3. QED  BY <1>1, <1>2, BeginStep DEF QueryCircle, Scans

LEMMA CountStep ==
  ASSUME IInv, Count
  PROVE  IInv'
<1> DEFINE slots == Slots(UsedCells, Stripes)
<1>1. slots \in SUBSET Nat
  BY SlotsOf
<1>2. ASSUME NEW e \in Entities, Sought(e)'
      PROVE  SlotOf(e, place[e]) \in slots
  <2>1. place[e] \in Points
    BY <1>2 DEF Count, Begin, Sought, IInv, ScanTypeOK
  <2>2. ShardKey(place[e]) \in UsedCells /\ Stripe(e) \in Stripes
    BY <2>1 DEF UsedCells, Stripes
  <2>3. QED  BY <2>1, <2>2, SlotsOf
<1>3. QED  BY <1>1, <1>2, BeginStep DEF Count, Scans

LEMMA GetStep ==
  ASSUME IInv, NEW w \in Entities, Get(w)
  PROVE  IInv'
<1> DEFINE slots == Slots(UsedCells, {Stripe(w)})
<1>1. slots \in SUBSET Nat
  BY SlotsOf
<1>2. ASSUME NEW e \in Entities, Sought(e)'
      PROVE  SlotOf(e, place[e]) \in slots
  <2>1. place[e] \in Points /\ e = w
    BY <1>2 DEF Get, Begin, Sought, IInv, ScanTypeOK
  <2>2. ShardKey(place[e]) \in UsedCells
    BY <2>1 DEF UsedCells
  <2>3. QED  BY <2>1, <2>2, SlotsOf
<1>3. QED  BY <1>1, <1>2, BeginStep DEF Get, Scans

\* What a visit comes across: the entities sought whose entry is in the slot.
LEMMA HitsAre ==
  ASSUME IInv, op # "idle", NEW slot \in Nat, NEW e \in Entities
  PROVE  e \in Hits(slot) <=>
           target[e] = Nil /\ Sought(e) /\ slot = SlotOf(e, place[e])
<1>1. Entry(e) /\ op \in Scans /\ (place[e] \in Points \/ place[e] = Nil)
  BY DEF IInv, Own, ScanTypeOK
<1>2. Matches(e) = IF target[e] = Nil /\ Sought(e) THEN {place[e]} ELSE {}
  <2>1. \A p \in Circle : p # Nil
    BY ScanAssumption
  <2>2. CASE op = "query"
    BY <1>1, <2>1, <2>2 DEF Matches, Entry, Sought
  <2>3. CASE op = "count"
    BY <1>1, <2>3 DEF Matches, Entry, Sought
  <2>4. CASE op = "get"
    BY <1>1, <2>4 DEF Matches, Entry, Sought
  <2>5. QED  BY <1>1, <2>2, <2>3, <2>4 DEF Scans
<1>3. Sought(e) => place[e] \in Points
  BY <1>1, ScanAssumption DEF Sought
<1>4. e \in Hits(slot) <=>
        /\ Stripe(e) = slot % 16
        /\ target[e] = Nil /\ Sought(e) /\ ShardKey(place[e]) = slot \div 16
  BY <1>2 DEF Hits
<1>5. QED  BY <1>3, <1>4, SlotParts

LEMMA VisitStep ==
  ASSUME IInv, Visit
  PROVE  IInv'
<1> DEFINE slot == CHOOSE s \in todo : \A t \in todo : TurnOf(s) <= TurnOf(t)
<1>1. slot \in todo /\ slot \in Nat /\ op # "idle"
  BY NextSlot DEF Visit, IInv, ScanTypeOK
<1> HIDE DEF slot
<1>2. /\ found' = [e \in Entities |-> IF e \in Hits(slot) THEN found[e] + 1 ELSE found[e]]
      /\ todo' = IF op = "get" /\ Hits(slot) # {} THEN {} ELSE todo \ {slot}
      /\ UNCHANGED <<grid, place, target, op, wanted, moves>>
  BY DEF Visit, slot
<1>3. ScanTypeOK' /\ (op' = "idle" => todo' = {})
  BY <1>1, <1>2 DEF IInv, ScanTypeOK
<1>4. ASSUME NEW e \in Entities
      PROVE  Own(e)'
  <2>1. Entry(e) /\ Paid(e) /\ found[e] \in Nat /\ moves[e] \in Nat
    BY DEF IInv, Own, ScanTypeOK
  <2>2. Entry(e)'
    BY <1>2, <2>1 DEF Entry
  <2>3. Pending(e) \in {0, 1} /\ Pending(e)' \in {0, 1}
    BY DEF Pending
  <2>4. op = "get" => found[e] = 0
    BY <1>1, <2>1 DEF Paid
  <2>5. Sought(e)' = Sought(e) /\ Listed(e)' = Listed(e)
    BY <1>2 DEF Sought, Listed
  <2>6. CASE e \in Hits(slot)
    <3>1. target[e] = Nil /\ Sought(e) /\ slot = SlotOf(e, place[e]) /\ place[e] # Nil
      BY <1>1, <2>6, HitsAre, ScanAssumption DEF Sought
    <3>2. grid[e] = {place[e]} /\ slot \notin todo'
      BY <1>2, <2>1, <3>1 DEF Entry
    <3>3. Pending(e) = 1 /\ Pending(e)' = 0
      BY <1>1, <1>2, <3>1, <3>2 DEF Pending
    <3>4. found'[e] = found[e] + 1
      BY <1>2, <2>6
    <3>5. op = "get" => todo' = {}
      BY <1>2, <2>6
    <3>6. Paid(e)'
      BY <1>1, <1>2, <2>1, <2>4, <3>1, <3>3, <3>4, <3>5 DEF Paid
    <3>7. Still(e)'
      BY <1>1, <1>2, <2>1, <2>5, <3>1, <3>2, <3>4 DEF IInv, Own, Still
    <3>8. QED  BY <2>2, <3>6, <3>7 DEF Own
  <2>7. CASE e \notin Hits(slot)
    <3>1. found'[e] = found[e] /\ todo' \subseteq todo
      BY <1>2, <2>7
    <3>2. Pending(e)' <= Pending(e)
      BY <1>2, <3>1 DEF Pending
    <3>3. Paid(e)'
      BY <1>1, <1>2, <2>1, <2>3, <2>4, <3>1, <3>2 DEF Paid
    <3>4. Still(e)'
      <4>1. SUFFICES ASSUME moves[e] = 0
                     PROVE  /\ target[e] = Nil
                            /\ found[e] <= 1
                            /\ ~Sought(e) \/ SlotOf(e, place[e]) \in todo' => found[e] = 0
                            /\ Sought(e) /\ Listed(e) /\ SlotOf(e, place[e]) \notin todo'
                                 => found[e] = 1
        BY <1>2, <2>5, <3>1 DEF Still
      <4>2. /\ target[e] = Nil
            /\ found[e] <= 1
            /\ ~Sought(e) \/ SlotOf(e, place[e]) \in todo => found[e] = 0
            /\ Sought(e) /\ Listed(e) /\ SlotOf(e, place[e]) \notin todo => found[e] = 1
        BY <1>1, <4>1 DEF IInv, Own, Still
      <4>3. ASSUME Sought(e), SlotOf(e, place[e]) \in todo
            PROVE  SlotOf(e, place[e]) \in todo'
        <5>1. SlotOf(e, place[e]) # slot
          BY <1>1, <2>7, <4>2, <4>3, HitsAre
        <5>2. ~ (op = "get" /\ Hits(slot) # {})
          <6>1. \A d \in Hits(slot) : d \in Entities /\ Sought(d)
            BY <1>1, HitsAre DEF Hits
          <6>2. QED  BY <2>7, <4>3, <6>1 DEF Sought
        <5>3. QED  BY <1>2, <4>3, <5>1, <5>2
      <4>4. QED  BY <3>1, <4>2, <4>3
    <3>5. QED  BY <2>2, <3>3, <3>4 DEF Own
  <2>8. QED  BY <2>6, <2>7
<1>5. QED  BY <1>3, <1>4 DEF IInv

LEMMA ReturnStep ==
  ASSUME IInv, Return
  PROVE  IInv'
<1>1. /\ op' = "idle" /\ todo = {} /\ UNCHANGED <<grid, place, target, todo>>
      /\ found' = [e \in Entities |-> 0] /\ moves' = [e \in Entities |-> 0]
  BY DEF Return
<1>2. ASSUME NEW e \in Entities
      PROVE  Own(e)'
  <2>1. Entry(e)'
    BY <1>1 DEF IInv, Own, Entry
  <2>2. Pending(e)' = 0 /\ found'[e] = 0 /\ moves'[e] = 0
    BY <1>1 DEF Pending
  <2>3. Paid(e)' /\ Still(e)'
    BY <1>1, <2>2 DEF Paid, Still
  <2>4. QED  BY <2>1, <2>3 DEF Own
<1>3. ScanTypeOK' /\ (op' = "idle" => todo' = {})
  BY <1>1 DEF IInv, ScanTypeOK
<1>4. QED  BY <1>2, <1>3 DEF IInv

-----------------------------------------------------------------------------
LEMMA Invariant == Spec => []IInv
<1>1. Init => IInv
  <2> SUFFICES ASSUME Init PROVE IInv
    OBVIOUS
  <2>1. ASSUME NEW e \in Entities PROVE Own(e)
    <3>1. /\ grid[e] = {} /\ place[e] = Nil /\ target[e] = Nil /\ op = "idle"
          /\ found[e] = 0 /\ moves[e] = 0
      BY DEF Init, GridInit
    <3>2. Pending(e) = 0
      BY <3>1 DEF Pending
    <3>3. QED  BY <3>1, <3>2 DEF Own, Entry, Paid, Still
  <2>2. ScanTypeOK /\ todo = {}
    BY DEF Init, GridInit, ScanTypeOK
  <2>3. QED  BY <2>1, <2>2 DEF IInv
<1>2. IInv /\ [Next]_vars => IInv'
  <2> SUFFICES ASSUME IInv, [Next]_vars PROVE IInv'
    OBVIOUS
  <2>1. ASSUME NEW e \in Entities, NEW p \in Points, Put(e, p) \/ LeaveCell(e, p)
        PROVE  IInv'
    BY <2>1, PutStep, LeaveStep
  <2>2. ASSUME NEW e \in Entities, EnterCell(e) \/ Remove(e)
        PROVE  IInv'
    BY <2>2, EnterStep, RemoveStep
  <2>3. CASE QueryCircle
    BY <2>3, QueryCircleStep
  <2>4. CASE Count
    BY <2>4, CountStep
  <2>5. ASSUME NEW e \in Entities, Get(e)
        PROVE  IInv'
    BY <2>5, GetStep
  <2>6. CASE Visit
    BY <2>6, VisitStep
  <2>7. CASE Return
    BY <2>7, ReturnStep
  <2>8. CASE UNCHANGED vars
    <3>1. \A e \in Entities : Own(e)'
      BY <2>8, Aside DEF vars, scan, IInv
    <3>2. QED  BY <2>8, <3>1 DEF vars, IInv, ScanTypeOK
  <2>9. QED  BY <2>1, <2>2, <2>3, <2>4, <2>5, <2>6, <2>7, <2>8 DEF Next
<1>3. QED  BY <1>1, <1>2, PTL DEF Spec

\* However scans and moves interleave, a scan reports an entity at most once
\* more than its position changes meanwhile, and Get reports it once
\* (grid.go:48-57, 80, 92): between the delete and the insert of a move an
\* entity is in no cell, never in two.
THEOREM SightingsOwedHolds == Spec => []SightingsOwed
<1>1. IInv => SightingsOwed
  <2> SUFFICES ASSUME IInv, NEW e \in Entities
               PROVE  found[e] <= 1 + moves[e] /\ (op = "get" => found[e] <= 1)
    BY DEF SightingsOwed
  <2>1. found[e] \in Nat /\ moves[e] \in Nat /\ Paid(e)
    BY DEF IInv, ScanTypeOK, Own
  <2>2. Pending(e) \in {0, 1}
    BY PendingBit
  <2>3. QED  BY <2>1, <2>2 DEF Paid
<1>2. QED  BY <1>1, Invariant, PTL

\* An entity whose position does not change while a scan runs is reported
\* once if it is there, by a query if it lies in its circle and its box, and
\* never if it is not there. The box has a positive height and no position is
\* at longitude 180: without the one a pole, without the other the
\* antimeridian is missed (hash.go:14, 50).
THEOREM StillEntitiesHold ==
  ASSUME 180 \notin Lngs, CircleBox.dLat # 0
  PROVE  Spec => []StillEntitiesExact
<1>1. IInv => StillEntitiesExact
  <2> SUFFICES ASSUME IInv, NEW e \in Entities, moves[e] = 0, op # "idle", todo = {}
               PROVE  /\ found[e] = 0 \/ (Sought(e) /\ found[e] = 1)
                      /\ Sought(e) /\ (op = "query" => WithinBox(CircleBox, place[e]))
                           => found[e] = 1
    BY DEF StillEntitiesExact, Done, Sought
  <2>1. found[e] \in Nat /\ Still(e)
    BY DEF IInv, ScanTypeOK, Own
  <2>2. found[e] = 0 \/ (Sought(e) /\ found[e] = 1)
    BY <2>1 DEF Still
  <2>3. ASSUME Sought(e), op = "query" => WithinBox(CircleBox, place[e])
        PROVE  found[e] = 1
    <3>1. Listed(e)
      <4> SUFFICES ASSUME op = "query"
                   PROVE  ShardKey(place[e]) \in ShardsForRadius(CircleBox)
        BY DEF Listed
      <4>1. place[e] \in Points /\ WithinBox(CircleBox, place[e])
        BY <2>3, ScanAssumption DEF Sought
      <4>2. QED  BY <4>1, BoxCovered
    <3>2. QED  BY <2>1, <2>3, <3>1 DEF Still
  <2>4. QED  BY <2>2, <2>3
<1>2. QED  BY <1>1, Invariant, PTL
=============================================================================
