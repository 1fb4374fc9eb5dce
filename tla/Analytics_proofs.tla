-------------------------- MODULE Analytics_proofs --------------------------
(***************************************************************************)
(* Proofs about RateLimiter and Analytics, for every set of entities,      *)
(* every family of hash functions and every limit. Geometry_proofs lends   *)
(* its induction (SetInduction), no geometry.                              *)
(***************************************************************************)
EXTENDS Analytics, Geometry_proofs

-----------------------------------------------------------------------------
(* The limiter on its own. *)

\* In a private row the sketch counts exactly.
PrivateExact ==
  \A e \in Entities, r \in CmsRows :
    PrivateRow(e, r) => table[r][Column[e][r]] = sent[e]

PassedOfSent == \A e \in Entities : passed[e] <= sent[e]

IInv ==
  TypeOK /\ SketchBounds /\ PassedOfSent /\ RateBound /\ PrivateExact /\ PrivateLimit

\* One increment of addAndEstimate raises a cell by one where the entity
\* hashes to it and leaves every other cell alone.
LEMMA BumpCells ==
  ASSUME NEW t \in Tables, NEW e \in Entities
  PROVE  /\ Bump(t, e) \in Tables
         /\ \A r \in CmsRows, c \in CmsCols :
              Bump(t, e)[r][c] = IF c = Column[e][r] THEN t[r][c] + 1 ELSE t[r][c]
  BY SketchAssumption DEF Tables, Bump

\* Initially, and after every tick, nothing is counted.
LEMMA EmptyHolds ==
  ASSUME table = EmptyTable, sent = [e \in Entities |-> 0],
         passed = [e \in Entities |-> 0], offered = 0
  PROVE  IInv
<1>1. TypeOK /\ SketchBounds /\ PassedOfSent /\ RateBound
  BY SketchAssumption DEF TypeOK, SketchBounds, PassedOfSent, RateBound, Tables, EmptyTable
<1>2. PrivateExact
  BY SketchAssumption DEF PrivateExact, EmptyTable
<1>3. PrivateLimit
  BY SketchAssumption DEF PrivateLimit
<1>4. QED  BY <1>1, <1>2, <1>3 DEF IInv

\* A packet preserves the invariant, dropped or not.
LEMMA PacketPreserves ==
  ASSUME IInv, NEW d \in Entities, Packet(d)
  PROVE  IInv'
<1>a. table \in Tables /\ Column \in [Entities -> [CmsRows -> CmsCols]]
      /\ RateLimit \in Nat /\ CmsRows # {}
  BY SketchAssumption DEF IInv, TypeOK
<1>b. /\ table' \in Tables
      /\ \A r \in CmsRows, c \in CmsCols :
           table'[r][c] = IF c = Column[d][r] THEN table[r][c] + 1 ELSE table[r][c]
  BY <1>a, BumpCells DEF Packet
<1>c. \A e \in Entities : sent'[e] = IF e = d THEN sent[e] + 1 ELSE sent[e]
  BY DEF IInv, TypeOK, Packet
<1>d. \A e \in Entities, r \in CmsRows :
        table[r][Column[e][r]] \in Nat /\ table'[r][Column[e][r]] \in Nat
  BY <1>a, <1>b DEF Tables
<1>1. TypeOK'
  BY <1>b DEF IInv, TypeOK, Packet
<1>2. SketchBounds'
  <2> SUFFICES ASSUME NEW e \in Entities, NEW r \in CmsRows
               PROVE  sent'[e] <= table'[r][Column[e][r]] /\ table'[r][Column[e][r]] <= offered'
    BY DEF SketchBounds
  <2>1. sent[e] <= table[r][Column[e][r]] /\ table[r][Column[e][r]] <= offered
    BY DEF IInv, SketchBounds
  <2>2. Column[e][r] \in CmsCols
    BY <1>a
  <2>3. sent[e] \in Nat /\ offered \in Nat /\ offered' = offered + 1
    BY DEF IInv, TypeOK, Packet
  <2>4. CASE e = d
    BY <2>1, <2>2, <2>3, <2>4, <1>b, <1>c, <1>d
  <2>5. CASE e # d
    BY <2>1, <2>2, <2>3, <2>5, <1>b, <1>c, <1>d
  <2>6. QED  BY <2>4, <2>5
<1>3. CASE OverLimit(table', d) /\ passed' = passed
  <2>1. PassedOfSent'
    BY <1>3, <1>c DEF IInv, PassedOfSent, TypeOK
  <2>2. RateBound'
    BY <1>3 DEF IInv, RateBound
  <2>3. PrivateExact'
    <3> SUFFICES ASSUME NEW e \in Entities, NEW r \in CmsRows, PrivateRow(e, r)
                 PROVE  table'[r][Column[e][r]] = sent'[e]
      BY DEF PrivateExact, PrivateRow
    <3>1. table[r][Column[e][r]] = sent[e] /\ Column[e][r] \in CmsCols
      BY <1>a DEF IInv, PrivateExact
    <3>2. QED  BY <3>1, <1>b, <1>c DEF PrivateRow
  <2>4. PrivateLimit'
    <3> SUFFICES ASSUME NEW e \in Entities, NEW r \in CmsRows, PrivateRow(e, r)
                 PROVE  passed'[e] = IF sent'[e] <= RateLimit THEN sent'[e] ELSE RateLimit
      BY DEF PrivateLimit, PrivateRow
    <3>1. passed[e] = IF sent[e] <= RateLimit THEN sent[e] ELSE RateLimit
      BY DEF IInv, PrivateLimit
    <3>2. CASE e # d
      BY <3>1, <3>2, <1>3, <1>c
    <3>3. CASE e = d
      <4>1. sent'[e] > RateLimit
        BY <2>3, <1>3, <3>3 DEF PrivateExact, OverLimit, PrivateRow
      <4>2. sent[e] \in Nat
        BY DEF IInv, TypeOK
      <4>3. QED  BY <4>1, <4>2, <3>1, <3>3, <1>3, <1>a, <1>c
    <3>4. QED  BY <3>2, <3>3
  <2>5. QED  BY <1>1, <1>2, <2>1, <2>2, <2>3, <2>4 DEF IInv
<1>4. CASE ~OverLimit(table', d) /\ passed' = [passed EXCEPT ![d] = @ + 1]
  <2>a. \A e \in Entities : passed'[e] = IF e = d THEN passed[e] + 1 ELSE passed[e]
    BY <1>4 DEF IInv, TypeOK
  <2>b. sent'[d] <= RateLimit
    <3>1. PICK r \in CmsRows : ~(table'[r][Column[d][r]] > RateLimit)
      BY <1>4 DEF OverLimit
    <3>2. sent'[d] <= table'[r][Column[d][r]] /\ sent'[d] \in Nat
      BY <1>1, <1>2 DEF SketchBounds, TypeOK
    <3>3. QED  BY <3>1, <3>2, <1>a, <1>d
  <2>1. PassedOfSent'
    BY <2>a, <1>c DEF IInv, PassedOfSent, TypeOK
  <2>2. RateBound'
    BY <2>a, <2>b, <2>1, <1>1, <1>a DEF IInv, RateBound, PassedOfSent, TypeOK
  <2>3. PrivateExact'
    <3> SUFFICES ASSUME NEW e \in Entities, NEW r \in CmsRows, PrivateRow(e, r)
                 PROVE  table'[r][Column[e][r]] = sent'[e]
      BY DEF PrivateExact, PrivateRow
    <3>1. table[r][Column[e][r]] = sent[e] /\ Column[e][r] \in CmsCols
      BY <1>a DEF IInv, PrivateExact
    <3>2. QED  BY <3>1, <1>b, <1>c DEF PrivateRow
  <2>4. PrivateLimit'
    <3> SUFFICES ASSUME NEW e \in Entities, NEW r \in CmsRows, PrivateRow(e, r)
                 PROVE  passed'[e] = IF sent'[e] <= RateLimit THEN sent'[e] ELSE RateLimit
      BY DEF PrivateLimit, PrivateRow
    <3>1. passed[e] = IF sent[e] <= RateLimit THEN sent[e] ELSE RateLimit
      BY DEF IInv, PrivateLimit
    <3>2. sent[e] \in Nat
      BY DEF IInv, TypeOK
    <3>3. QED  BY <3>1, <3>2, <2>a, <2>b, <1>a, <1>c
  <2>5. QED  BY <1>1, <1>2, <2>1, <2>2, <2>3, <2>4 DEF IInv
<1>5. QED  BY <1>3, <1>4 DEF Packet

\* The invariant holds throughout.
LEMMA Invariant == Spec => []IInv
<1>1. Init => IInv
  BY EmptyHolds DEF Init
<1>2. IInv /\ [Next]_vars => IInv'
  <2> SUFFICES ASSUME IInv, [Next]_vars PROVE IInv'
    OBVIOUS
  <2>1. CASE Tick
    <3>1. Tick => IInv'
      <4>1. EmptyTable \in Tables
        BY DEF EmptyTable, Tables
      <4>2. Tick => (TypeOK /\ SketchBounds /\ PassedOfSent /\ RateBound)'
        BY SketchAssumption, <4>1
        DEF Tick, TypeOK, SketchBounds, PassedOfSent, RateBound, EmptyTable
      <4>3. Tick => (PrivateExact /\ PrivateLimit)'
        BY SketchAssumption DEF Tick, PrivateExact, PrivateLimit, PrivateRow, EmptyTable
      <4>4. QED  BY <4>2, <4>3 DEF IInv
    <3>2. QED  BY <2>1, <3>1
  <2>2. CASE \E d \in Entities : Packet(d)
    BY <2>2, PacketPreserves
  <2>3. CASE UNCHANGED vars
    BY <2>3 DEF vars, IInv, TypeOK, SketchBounds, PassedOfSent, RateBound, PrivateExact,
                PrivateLimit, PrivateRow
  <2>4. QED  BY <2>1, <2>2, <2>3 DEF Next
<1>3. QED  BY <1>1, <1>2, PTL DEF Spec

\* However ids hash, ProcessPacket lets at most RateLimit packets of an
\* entity through between two ticks (pipeline.go:35).
THEOREM RateBoundHolds == Spec => []RateBound
<1>1. IInv => RateBound  BY DEF IInv
<1>2. QED  BY <1>1, Invariant, PTL

\* The estimate lies between the entity's packets and the tick's traffic.
THEOREM SketchBoundsHold == Spec => []SketchBounds
<1>1. IInv => SketchBounds  BY DEF IInv
<1>2. QED  BY <1>1, Invariant, PTL

\* An entity alone in a row is limited on its own traffic only.
THEOREM PrivateLimitHolds == Spec => []PrivateLimit
<1>1. IInv => PrivateLimit  BY DEF IInv
<1>2. QED  BY <1>1, Invariant, PTL

\* The sketch-based limiter implements the per-entity limiter.
THEOREM Refinement == Spec => LimiterSpec
<1>1. Init => Limiter!Init
  BY DEF Init, Limiter!Init
<1>2. IInv /\ IInv' /\ [Next]_vars => [Limiter!Next]_<<passed, offered>>
  <2> SUFFICES ASSUME IInv, IInv', [Next]_vars
               PROVE  [Limiter!Next]_<<passed, offered>>
    OBVIOUS
  <2>1. CASE Tick
    BY <2>1 DEF Tick, Limiter!Next, Limiter!NewTick
  <2>2. ASSUME NEW d \in Entities, Packet(d)
        PROVE  Limiter!Next
    <3>a. RateLimit \in Nat /\ CmsRows # {} /\ Column \in [Entities -> [CmsRows -> CmsCols]]
      BY SketchAssumption
    <3>1. CASE OverLimit(table', d) /\ passed' = passed
      <4>1. PICK r \in CmsRows : table'[r][Column[d][r]] > RateLimit
        BY <3>1, <3>a DEF OverLimit
      <4>2. table'[r][Column[d][r]] \in Nat
        BY <3>a DEF IInv, TypeOK, Tables
      <4>3. table'[r][Column[d][r]] <= offered' /\ offered' = offered + 1 /\ offered \in Nat
        BY <2>2 DEF IInv, TypeOK, SketchBounds, Packet
      <4>4. offered >= RateLimit
        BY <4>1, <4>2, <4>3, <3>a
      <4>5. QED  BY <4>3, <4>4, <3>1 DEF Limiter!Next, Limiter!Refuse
    <3>2. CASE ~OverLimit(table', d) /\ passed' = [passed EXCEPT ![d] = @ + 1]
      <4>1. passed'[d] <= RateLimit /\ passed'[d] = passed[d] + 1 /\ passed[d] \in Nat
        BY <3>2 DEF IInv, TypeOK, RateBound
      <4>2. passed[d] < RateLimit
        BY <4>1, <3>a
      <4>3. offered' = offered + 1
        BY <2>2 DEF Packet
      <4>4. QED  BY <4>2, <4>3, <3>2 DEF Limiter!Next, Limiter!Admit
    <3>3. QED  BY <2>2, <3>1, <3>2 DEF Packet
  <2>3. CASE UNCHANGED vars
    BY <2>3 DEF vars
  <2>4. QED  BY <2>1, <2>2, <2>3 DEF Next
<1>3. QED  BY <1>1, <1>2, Invariant, PTL DEF Spec, LimiterSpec, Limiter!Spec

-----------------------------------------------------------------------------
(* The limiter and the sketches of the cells together. *)

\* Add raises one register at most, to the rank of the id.
LEMMA AddRegisters ==
  ASSUME NEW s \in Sketches, NEW e \in Entities
  PROVE  /\ Add(s, e) \in Sketches
         /\ Hash[e].register \in Registers /\ Hash[e].rank \in 1 .. MaxRank
         /\ \A i \in Registers :
              Add(s, e)[i] = IF i = Hash[e].register /\ Hash[e].rank > s[i]
                             THEN Hash[e].rank ELSE s[i]
<1>1. Hash[e].register \in Registers /\ Hash[e].rank \in 1 .. MaxRank
  BY HashAssumption, RankAssumption
<1>2. \A i \in Registers : s[i] \in 0 .. MaxRank
  BY DEF Sketches
<1>3. Add(s, e) \in Sketches
  BY <1>1, <1>2, RankAssumption DEF Add, Sketches
<1>4. QED  BY <1>1, <1>2, <1>3 DEF Add, Sketches

AInv == AnalyticsTypeOK /\ SketchOfWhoCame

LEMMA RoutedPreserves ==
  ASSUME AInv, NEW e \in Entities, NEW k \in BusyCells, Routed(e, k), TypeOK'
  PROVE  /\ AInv'
         /\ \A c \in BusyCells, i \in Registers : shardHLL[c][i] <= shardHLL'[c][i]
<1>1. /\ shardHLL \in [BusyCells -> Sketches] /\ counted \in [BusyCells -> SUBSET Entities]
      /\ \A c \in BusyCells, i \in Registers : shardHLL[c][i] \in 0 .. MaxRank
  BY DEF AInv, AnalyticsTypeOK, Sketches
<1>2. /\ shardHLL'[k] = Add(shardHLL[k], e) /\ counted'[k] = counted[k] \cup {e}
      /\ \A c \in BusyCells \ {k} : shardHLL'[c] = shardHLL[c] /\ counted'[c] = counted[c]
  BY <1>1 DEF Routed
<1>3. /\ Hash[e].register \in Registers /\ Hash[e].rank \in 1 .. MaxRank
      /\ Add(shardHLL[k], e) \in Sketches
      /\ \A i \in Registers :
           shardHLL'[k][i] = IF i = Hash[e].register /\ Hash[e].rank > shardHLL[k][i]
                             THEN Hash[e].rank ELSE shardHLL[k][i]
  BY <1>1, <1>2, AddRegisters
<1>4. AnalyticsTypeOK'
  BY <1>1, <1>3 DEF Routed, AnalyticsTypeOK
<1>5. \A c \in BusyCells, i \in Registers : shardHLL[c][i] <= shardHLL'[c][i]
  <2> SUFFICES ASSUME NEW c \in BusyCells, NEW i \in Registers
               PROVE  shardHLL[c][i] <= shardHLL'[c][i]
    OBVIOUS
  <2>1. CASE c = k
    BY <1>1, <1>3, <2>1
  <2>2. CASE c # k
    BY <1>1, <1>2, <2>2
  <2>3. QED  BY <2>1, <2>2
<1>6. ASSUME NEW c \in BusyCells, NEW d \in counted'[c]
      PROVE  shardHLL'[c][Hash[d].register] >= Hash[d].rank
  <2>1. d \in Entities
    BY <1>4 DEF AnalyticsTypeOK
  <2>2. Hash[d].register \in Registers /\ Hash[d].rank \in 1 .. MaxRank
    BY <2>1, HashAssumption, RankAssumption
  <2>3. CASE d \in counted[c]
    <3>1. shardHLL[c][Hash[d].register] >= Hash[d].rank
      BY <2>3 DEF AInv, SketchOfWhoCame
    <3>2. shardHLL'[c][Hash[d].register] \in 0 .. MaxRank
      BY <1>4, <2>2 DEF AnalyticsTypeOK, Sketches
    <3>3. QED  BY <1>1, <1>5, <2>2, <3>1, <3>2
  <2>4. CASE d \notin counted[c]
    <3>1. c = k /\ d = e
      BY <1>2, <2>4
    <3>2. QED  BY <1>1, <1>3, <3>1
  <2>5. QED  BY <2>3, <2>4
<1>7. ASSUME NEW c \in BusyCells, NEW i \in Registers, shardHLL'[c][i] # 0
      PROVE  \E d \in counted'[c] : Hash[d] = [register |-> i, rank |-> shardHLL'[c][i]]
  <2>1. CASE shardHLL'[c][i] = shardHLL[c][i]
    <3>1. PICK d \in counted[c] : Hash[d] = [register |-> i, rank |-> shardHLL[c][i]]
      BY <1>7, <2>1 DEF AInv, SketchOfWhoCame
    <3>2. d \in counted'[c]
      BY <1>2
    <3>3. QED  BY <2>1, <3>1, <3>2
  <2>2. CASE shardHLL'[c][i] # shardHLL[c][i]
    <3>1. c = k /\ i = Hash[e].register /\ shardHLL'[c][i] = Hash[e].rank
      BY <1>2, <1>3, <2>2
    <3>2. Hash[e] \in [register : Registers, rank : 1 .. MaxRank]
      BY HashAssumption, RankAssumption
    <3>3. Hash[e] = [register |-> Hash[e].register, rank |-> Hash[e].rank]
      BY <3>2
    <3>4. e \in counted'[c]
      BY <1>2, <3>1
    <3>5. QED  BY <3>1, <3>3, <3>4
  <2>3. QED  BY <2>1, <2>2
<1>8. SketchOfWhoCame'
  BY <1>6, <1>7 DEF SketchOfWhoCame
<1>9. QED  BY <1>4, <1>5, <1>8 DEF AInv

\* The sketches look at the limiter and do not touch it.
LEMMA LimiterUntouched == AnalyticsSpec => Spec
<1>1. AnalyticsInit => Init
  BY DEF AnalyticsInit
<1>2. [AnalyticsNext]_analyticsVars => [Next]_vars
  BY DEF AnalyticsNext, AnalyticsTick, NotRouted, Routed, Next, analyticsVars
<1>3. QED  BY <1>1, <1>2, PTL DEF AnalyticsSpec, Spec

LEMMA AnalyticsStep ==
  ASSUME AInv, TypeOK', [AnalyticsNext]_analyticsVars
  PROVE  /\ AInv'
         /\ \A c \in BusyCells, i \in Registers : shardHLL[c][i] <= shardHLL'[c][i]
<1>1. CASE UNCHANGED <<shardHLL, counted>>
  <2>1. AInv'
    BY <1>1 DEF AInv, AnalyticsTypeOK, SketchOfWhoCame
  <2>2. \A c \in BusyCells, i \in Registers : shardHLL[c][i] \in 0 .. MaxRank
    BY DEF AInv, AnalyticsTypeOK, Sketches
  <2>3. QED  BY <1>1, <2>1, <2>2
<1>2. ASSUME NEW e \in Entities, NEW c \in BusyCells, Routed(e, c)
      PROVE  /\ AInv'
             /\ \A b \in BusyCells, i \in Registers : shardHLL[b][i] <= shardHLL'[b][i]
  BY <1>2, RoutedPreserves
<1>3. QED
  BY <1>1, <1>2 DEF AnalyticsNext, AnalyticsTick, NotRouted, analyticsVars

LEMMA AnalyticsInvariant == AnalyticsSpec => [](AInv /\ IInv)
<1>1. AnalyticsInit => AInv \/ ~TypeOK
  <2> SUFFICES ASSUME AnalyticsInit, TypeOK PROVE AInv
    OBVIOUS
  <2>1. \A c \in BusyCells : counted[c] = {} /\ \A i \in Registers : shardHLL[c][i] = 0
    BY DEF AnalyticsInit, EmptySketch
  <2>2. AnalyticsTypeOK
    BY RankAssumption DEF AnalyticsInit, AnalyticsTypeOK, EmptySketch, Sketches
  <2>3. QED  BY <2>1, <2>2 DEF AInv, SketchOfWhoCame
<1>2. IInv => TypeOK
  BY DEF IInv
<1>3. AInv /\ IInv' /\ [AnalyticsNext]_analyticsVars => AInv'
  BY AnalyticsStep DEF IInv
<1>4. QED
  BY <1>1, <1>2, <1>3, LimiterUntouched, Invariant, PTL DEF AnalyticsSpec

\* Types: no register exceeds the greatest rank (hll.go:21-25).
THEOREM AnalyticsTypeCorrect == AnalyticsSpec => []AnalyticsTypeOK
<1>1. AInv => AnalyticsTypeOK  BY DEF AInv
<1>2. QED  BY <1>1, AnalyticsInvariant, PTL

\* Every register holds the greatest rank of the entities routed to the cell
\* that hash to it, and nothing else ever gets into it (hll.go:21).
THEOREM SketchOfWhoCameHolds == AnalyticsSpec => []SketchOfWhoCame
<1>1. AInv => SketchOfWhoCame  BY DEF AInv
<1>2. QED  BY <1>1, AnalyticsInvariant, PTL

\* So two cells that saw the same entities have the same sketch, whatever
\* the order and number of their packets: what Stats reports is a function
\* of who came.
THEOREM OrderLeavesNoTrace ==
  AnalyticsSpec =>
    [](\A b, c \in BusyCells : counted[b] = counted[c] => shardHLL[b] = shardHLL[c])
<1>1. AInv => \A b, c \in BusyCells : counted[b] = counted[c] => shardHLL[b] = shardHLL[c]
  <2> SUFFICES ASSUME AInv, NEW b \in BusyCells, NEW c \in BusyCells, counted[b] = counted[c]
               PROVE  shardHLL[b] = shardHLL[c]
    OBVIOUS
  <2>1. shardHLL[b] \in Sketches /\ shardHLL[c] \in Sketches
    BY DEF AInv, AnalyticsTypeOK
  <2>2. ASSUME NEW x \in BusyCells, NEW y \in BusyCells, counted[x] = counted[y],
               NEW i \in Registers
        PROVE  shardHLL[x][i] <= shardHLL[y][i]
    <3>1. shardHLL[x][i] \in 0 .. MaxRank /\ shardHLL[y][i] \in 0 .. MaxRank
      BY DEF AInv, AnalyticsTypeOK, Sketches
    <3>2. CASE shardHLL[x][i] # 0
      <4>1. PICK d \in counted[y] : Hash[d] = [register |-> i, rank |-> shardHLL[x][i]]
        BY <2>2, <3>2 DEF AInv, SketchOfWhoCame
      <4>2. shardHLL[y][Hash[d].register] >= Hash[d].rank
        BY DEF AInv, SketchOfWhoCame
      <4>3. Hash[d].register = i /\ Hash[d].rank = shardHLL[x][i]
        BY <4>1
      <4>4. QED  BY <3>1, <4>2, <4>3
    <3>3. QED  BY <3>1, <3>2
  <2>3. \A i \in Registers : shardHLL[b][i] = shardHLL[c][i]
    <3> SUFFICES ASSUME NEW i \in Registers PROVE shardHLL[b][i] = shardHLL[c][i]
      OBVIOUS
    <3>1. shardHLL[b][i] \in 0 .. MaxRank /\ shardHLL[c][i] \in 0 .. MaxRank
      BY <2>1 DEF Sketches
    <3>2. shardHLL[b][i] <= shardHLL[c][i] /\ shardHLL[c][i] <= shardHLL[b][i]
      BY <2>2
    <3>3. QED  BY <3>1, <3>2
  <2>4. QED  BY <2>1, <2>3 DEF Sketches
<1>2. QED  BY <1>1, AnalyticsInvariant, PTL

\* No register ever falls: nothing but Add writes it, and the tick that
\* clears the limiter leaves it alone (pipeline.go:83, metrics.go:78).
THEOREM RegistersNeverFall ==
  AnalyticsSpec =>
    [][\A c \in BusyCells, i \in Registers : shardHLL[c][i] <= shardHLL'[c][i]]_analyticsVars
<1>1. AInv /\ IInv' /\ [AnalyticsNext]_analyticsVars =>
        \A c \in BusyCells, i \in Registers : shardHLL[c][i] <= shardHLL'[c][i]
  BY AnalyticsStep DEF IInv
<1>2. QED  BY <1>1, AnalyticsInvariant, PTL DEF AnalyticsSpec

-----------------------------------------------------------------------------
(* The estimate: powers, sums and the quotient. *)

LEMMA StepByStep ==
  ASSUME NEW f \in [0 .. 28 -> Nat], \A v \in 0 .. 27 : f[v] <= f[v + 1],
         NEW a \in 0 .. 27, NEW b \in 0 .. 27, a <= b
  PROVE  f[a] <= f[b]
<1> DEFINE S == { n \in Nat : \A v \in 0 .. 28 : v + n <= 28 => f[v] <= f[v + n] }
<1>1. 0 \in S
  OBVIOUS
<1>2. ASSUME NEW n \in Nat, n \in S PROVE n + 1 \in S
  <2> SUFFICES ASSUME NEW v \in 0 .. 28, v + (n + 1) <= 28 PROVE f[v] <= f[v + (n + 1)]
    OBVIOUS
  <2>1. v + n \in 0 .. 27 /\ v + (n + 1) = (v + n) + 1
    OBVIOUS
  <2>2. f[v] <= f[v + n] /\ f[v + n] <= f[(v + n) + 1]
    BY <1>2, <2>1
  <2>3. f[v] \in Nat /\ f[v + n] \in Nat /\ f[(v + n) + 1] \in Nat
    BY <2>1
  <2>4. QED  BY <2>1, <2>2, <2>3
<1> HIDE DEF S
<1>3. b - a \in S
  BY <1>1, <1>2, SetInduction
<1>4. b - a \in Nat /\ a + (b - a) = b
  OBVIOUS
<1>5. QED  BY <1>3, <1>4 DEF S

LEMMA Powers ==
  ASSUME NEW a \in 0 .. 27, NEW b \in 0 .. 27, a <= b
  PROVE  2^a \in Nat \ {0} /\ 2^b \in Nat \ {0} /\ 2^a <= 2^b
<1> DEFINE Grows(v) == 2^v \in Nat \ {0} /\ 2^(v + 1) \in Nat \ {0} /\ 2^v <= 2^(v + 1)
<1>1. /\ Grows(0) /\ Grows(1) /\ Grows(2) /\ Grows(3) /\ Grows(4) /\ Grows(5) /\ Grows(6)
      /\ Grows(7) /\ Grows(8) /\ Grows(9) /\ Grows(10) /\ Grows(11) /\ Grows(12) /\ Grows(13)
      /\ Grows(14) /\ Grows(15) /\ Grows(16) /\ Grows(17) /\ Grows(18) /\ Grows(19)
      /\ Grows(20) /\ Grows(21) /\ Grows(22) /\ Grows(23) /\ Grows(24) /\ Grows(25)
      /\ Grows(26) /\ Grows(27)
  BY SMT
<1> HIDE DEF Grows
<1>2. \A v \in 0 .. 27 : Grows(v)
  BY <1>1
<1> DEFINE Power(v) == 2^v
           f == [v \in 0 .. 28 |-> Power(v)]
<1>3. \A v \in 0 .. 27 : Power(v) \in Nat \ {0} /\ Power(v + 1) \in Nat \ {0}
                         /\ Power(v) <= Power(v + 1)
  BY <1>2 DEF Grows
<1> HIDE DEF Power
<1>4. \A v \in 0 .. 28 : Power(v) \in Nat
  <2>1. \A v \in 1 .. 28 : v - 1 \in 0 .. 27 /\ (v - 1) + 1 = v
    OBVIOUS
  <2>2. \A v \in 1 .. 28 : Power((v - 1) + 1) \in Nat
    BY <1>3, <2>1
  <2>3. QED  BY <1>3, <2>1, <2>2
<1>5. f \in [0 .. 28 -> Nat] /\ \A v \in 0 .. 27 : f[v] <= f[v + 1]
  BY <1>3, <1>4
<1>6. f[a] = Power(a) /\ f[b] = Power(b)
  OBVIOUS
<1> HIDE DEF f
<1>7. f[a] <= f[b]
  BY <1>5, StepByStep
<1>8. Power(a) \in Nat \ {0} /\ Power(b) \in Nat \ {0} /\ Power(a) <= Power(b)
  BY <1>3, <1>6, <1>7
<1>9. QED  BY <1>8 DEF Power

\* A quotient grows as its divisor falls.
LEMMA QuotientGrows ==
  ASSUME NEW a \in Nat, NEW d \in Nat \ {0}, NEW e \in Nat \ {0}, e <= d
  PROVE  a \div d \in Nat /\ a \div e \in Nat /\ a \div d <= a \div e
<1> DEFINE p == a \div d
           q == a \div e
<1>1. p \in Nat /\ p * d <= a
  BY SMT
<1>2. q \in Nat /\ a < (q + 1) * e
  BY SMT
<1> HIDE DEF p, q
<1>3. p <= q
  <2> SUFFICES ASSUME q + 1 <= p PROVE FALSE
    BY <1>1, <1>2
  <2>1. (q + 1) * e <= p * e
    BY <1>1, <1>2, SMT
  <2>2. p * e <= p * d
    BY <1>1, SMT
  <2>3. (q + 1) * e \in Nat /\ p * e \in Nat /\ p * d \in Nat
    BY <1>1, <1>2, SMT
  <2>4. QED  BY <1>1, <1>2, <2>1, <2>2, <2>3
<1>4. QED  BY <1>1, <1>2, <1>3 DEF p, q

\* sum[n] is what a loop over 64 numbers has summed up after n of them.
Loop(x, sum) == sum = [n \in 0 .. 64 |-> IF n = 0 THEN 0 ELSE sum[n - 1] + x[n - 1]]

Shares(s) == [i \in 0 .. 63 |-> 2^(MaxRank - s[i])]

\* The loop has a result, for every sketch.
LEMMA LoopEnds ==
  ASSUME NEW x \in [0 .. 63 -> Nat \ {0}]
  PROVE  \E sum : Loop(x, sum)
<1> DEFINE Upto(k, sum) ==
             /\ sum \in [0 .. 64 -> Nat]
             /\ sum[0] = 0
             /\ \A n \in 1 .. 64 : n <= k => sum[n] = sum[n - 1] + x[n - 1]
           S == { k \in Nat : k <= 64 => \E sum : Upto(k, sum) }
<1>1. 0 \in S
  <2>1. Upto(0, [n \in 0 .. 64 |-> 0])
    OBVIOUS
  <2>2. QED  BY <2>1
<1>2. ASSUME NEW k \in Nat, k \in S PROVE k + 1 \in S
  <2> SUFFICES ASSUME k + 1 <= 64 PROVE \E sum : Upto(k + 1, sum)
    OBVIOUS
  <2>1. PICK sum : Upto(k, sum)
    BY <1>2
  <2> DEFINE next == [n \in 0 .. 64 |-> IF n = k + 1 THEN sum[k] + x[k] ELSE sum[n]]
  <2>2. k \in 0 .. 63 /\ sum[k] + x[k] \in Nat
    BY <2>1
  <2>3. next \in [0 .. 64 -> Nat] /\ next[0] = 0
    <3>1. sum \in [0 .. 64 -> Nat] /\ sum[0] = 0
      BY <2>1
    <3>2. \A n \in 0 .. 64 : next[n] \in Nat
      BY <2>2, <3>1
    <3>3. next[0] = sum[0]
      OBVIOUS
    <3>4. QED  BY <3>1, <3>2, <3>3
  <2>4. ASSUME NEW n \in 1 .. 64, n <= k + 1 PROVE next[n] = next[n - 1] + x[n - 1]
    <3>1. CASE n = k + 1
      <4>1. n - 1 = k /\ k # k + 1 /\ k \in 0 .. 64
        BY <2>2, <3>1
      <4>2. next[n] = sum[k] + x[k] /\ next[k] = sum[k]
        BY <3>1, <4>1
      <4>3. QED  BY <4>1, <4>2
    <3>2. CASE n # k + 1
      <4>1. n <= k /\ n - 1 # k + 1 /\ n - 1 \in 0 .. 64
        BY <2>4, <3>2
      <4>2. next[n] = sum[n] /\ next[n - 1] = sum[n - 1]
        BY <3>2, <4>1
      <4>3. QED  BY <2>1, <4>1, <4>2
    <3>3. QED  BY <3>1, <3>2
  <2> HIDE DEF next
  <2>5. QED  BY <2>3, <2>4
<1> HIDE DEF S
<1>3. 64 \in S
  BY <1>1, <1>2, SetInduction
<1>4. PICK sum : Upto(64, sum)
  BY <1>3 DEF S
<1>5. Loop(x, sum)
  BY <1>4 DEF Loop
<1>6. QED  BY <1>5

LEMMA Added ==
  ASSUME NEW a \in Nat, NEW b \in Nat, b <= a, NEW c \in Nat, NEW d \in Nat, d <= c
  PROVE  a + c \in Nat /\ b + d \in Nat /\ b + d <= a + c
  OBVIOUS

\* A sketch with smaller registers has the greater sum.
LEMMA LoopSums ==
  ASSUME NEW x \in [0 .. 63 -> Nat \ {0}], NEW y \in [0 .. 63 -> Nat \ {0}],
         \A i \in 0 .. 63 : y[i] <= x[i],
         NEW p, Loop(x, p), NEW q, Loop(y, q)
  PROVE  p[64] \in Nat \ {0} /\ q[64] \in Nat \ {0} /\ q[64] <= p[64]
<1>1. p[0] = 0 /\ q[0] = 0
  BY DEF Loop
<1>2. \A n \in 0 .. 63 : p[n + 1] = p[n] + x[n] /\ q[n + 1] = q[n] + y[n]
  <2> SUFFICES ASSUME NEW n \in 0 .. 63
               PROVE  p[n + 1] = p[n] + x[n] /\ q[n + 1] = q[n] + y[n]
    OBVIOUS
  <2>1. n + 1 \in 0 .. 64 /\ n + 1 # 0 /\ (n + 1) - 1 = n
    OBVIOUS
  <2>2. p[n + 1] = p[(n + 1) - 1] + x[(n + 1) - 1]
    BY <2>1 DEF Loop
  <2>3. q[n + 1] = q[(n + 1) - 1] + y[(n + 1) - 1]
    BY <2>1 DEF Loop
  <2>4. QED  BY <2>1, <2>2, <2>3
<1> DEFINE S == { n \in Nat : n <= 64 => p[n] \in Nat /\ q[n] \in Nat /\ q[n] <= p[n] }
<1>3. 0 \in S
  BY <1>1
<1>4. ASSUME NEW n \in Nat, n \in S PROVE n + 1 \in S
  <2> SUFFICES ASSUME n + 1 <= 64
               PROVE  p[n + 1] \in Nat /\ q[n + 1] \in Nat /\ q[n + 1] <= p[n + 1]
    OBVIOUS
  <2>1. n \in 0 .. 63 /\ p[n] \in Nat /\ q[n] \in Nat /\ q[n] <= p[n]
    BY <1>4
  <2>2. p[n + 1] = p[n] + x[n] /\ q[n + 1] = q[n] + y[n]
    BY <1>2, <2>1
  <2>3. x[n] \in Nat /\ y[n] \in Nat /\ y[n] <= x[n]
    BY <2>1
  <2>4. p[n] + x[n] \in Nat /\ q[n] + y[n] \in Nat /\ q[n] + y[n] <= p[n] + x[n]
    BY <2>1, <2>3, Added
  <2>5. QED  BY <2>2, <2>4
<1> HIDE DEF S
<1>5. 63 \in S /\ 64 \in S
  BY <1>3, <1>4, SetInduction
<1>6. p[63] \in Nat /\ q[63] \in Nat
  BY <1>5 DEF S
<1>7. p[64] \in Nat /\ q[64] \in Nat /\ q[64] <= p[64]
  BY <1>5 DEF S
<1>8. p[64] = p[63] + x[63] /\ q[64] = q[63] + y[63]
  <2>1. 63 \in 0 .. 63 /\ 63 + 1 = 64
    OBVIOUS
  <2>2. QED  BY <1>2, <2>1
<1>9. x[63] \in Nat \ {0} /\ y[63] \in Nat \ {0}
  OBVIOUS
<1>10. QED  BY <1>6, <1>7, <1>8, <1>9

LEMMA EstimateOfLoop ==
  ASSUME NEW s
  PROVE  Estimate(s) =
           (Bias * 2^MaxRank) \div (1000 * (CHOOSE sum : Loop(Shares(s), sum))[64])
<1> DEFINE Body(sum) ==
      [n \in 0 .. 64 |-> IF n = 0 THEN 0 ELSE sum[n - 1] + 2^(MaxRank - s[n - 1])]
<1>1. \A sum : Loop(Shares(s), sum) <=> sum = Body(sum)
  <2>1. \A n \in 0 .. 64 : n # 0 => n - 1 \in 0 .. 63
    OBVIOUS
  <2>2. \A n \in 0 .. 64 : n # 0 => Shares(s)[n - 1] = 2^(MaxRank - s[n - 1])
    BY <2>1 DEF Shares
  <2>3. QED  BY <2>2 DEF Loop
<1>2. (CHOOSE sum : Loop(Shares(s), sum)) = (CHOOSE sum : sum = Body(sum))
  BY <1>1
<1>3. QED  BY <1>2 DEF Estimate

\* The estimate grows with the registers: it is a quotient whose divisor
\* falls as they rise (hll.go:28-39).
LEMMA EstimateGrows ==
  ASSUME NEW s \in Sketches, NEW t \in Sketches, \A i \in Registers : s[i] <= t[i]
  PROVE  Estimate(s) \in Nat /\ Estimate(t) \in Nat /\ Estimate(s) <= Estimate(t)
<1> DEFINE x == Shares(s)
           y == Shares(t)
           p == CHOOSE sum : Loop(x, sum)
           q == CHOOSE sum : Loop(y, sum)
           top == Bias * 2^MaxRank
<1>1. \A i \in 0 .. 63 : /\ MaxRank - s[i] \in 0 .. 27 /\ MaxRank - t[i] \in 0 .. 27
                         /\ MaxRank - t[i] <= MaxRank - s[i]
  <2> SUFFICES ASSUME NEW i \in 0 .. 63
               PROVE  /\ MaxRank - s[i] \in 0 .. 27 /\ MaxRank - t[i] \in 0 .. 27
                      /\ MaxRank - t[i] <= MaxRank - s[i]
    OBVIOUS
  <2>1. s[i] \in 0 .. MaxRank /\ t[i] \in 0 .. MaxRank /\ s[i] <= t[i]
    BY DEF Sketches, Registers
  <2>2. QED  BY <2>1, RankAssumption
<1>2. /\ x \in [0 .. 63 -> Nat \ {0}] /\ y \in [0 .. 63 -> Nat \ {0}]
      /\ \A i \in 0 .. 63 : y[i] <= x[i]
  BY <1>1, Powers DEF Shares
<1>3. Estimate(s) = top \div (1000 * p[64]) /\ Estimate(t) = top \div (1000 * q[64])
  BY EstimateOfLoop
<1> HIDE DEF x, y
<1>4. Loop(x, p) /\ Loop(y, q)
  <2>1. (\E sum : Loop(x, sum)) /\ (\E sum : Loop(y, sum))
    BY <1>2, LoopEnds
  <2>2. QED  BY <2>1
<1> HIDE DEF p, q
<1>6. p[64] \in Nat \ {0} /\ q[64] \in Nat \ {0} /\ q[64] <= p[64]
  BY <1>2, <1>4, LoopSums
<1>7. top \in Nat
  <2>1. MaxRank \in 0 .. 27 /\ MaxRank <= MaxRank
    BY RankAssumption
  <2>2. 2^MaxRank \in Nat
    BY <2>1, Powers
  <2>3. QED  BY <2>2, SMT DEF Bias
<1> HIDE DEF top
<1> DEFINE d == 1000 * p[64]
           e == 1000 * q[64]
<1>8. d \in Nat \ {0} /\ e \in Nat \ {0} /\ e <= d
  BY <1>6
<1>9. Estimate(s) = top \div d /\ Estimate(t) = top \div e
  BY <1>3
<1> HIDE DEF d, e
<1>10. top \div d \in Nat /\ top \div e \in Nat /\ top \div d <= top \div e
  BY <1>7, <1>8, QuotientGrows
<1>11. QED  BY <1>9, <1>10

\* What SumFunction computes: sum[T] is the sum of f over T.
Pick(T) == CHOOSE c \in T : TRUE
Fold(f, S, sum) ==
  sum = [T \in SUBSET S |-> IF T = {} THEN 0 ELSE f[Pick(T)] + sum[T \ {Pick(T)}]]

LEMMA SumIsFold ==
  ASSUME NEW S, NEW f, DOMAIN f = S
  PROVE  SumFunction(f) = (CHOOSE sum : Fold(f, S, sum))[S]
  BY DEF SumFunction, SumFunctionOnSet, FoldFunctionOnSet, MapThenFoldSet, Fold, Pick

\* Without the element picked a set has one element less.
LEMMA Smaller ==
  ASSUME NEW S, IsFiniteSet(S), NEW T \in SUBSET S, T # {}
  PROVE  /\ Pick(T) \in T /\ T \ {Pick(T)} \in SUBSET S
         /\ Cardinality(T) \in Nat /\ Cardinality(T \ {Pick(T)}) = Cardinality(T) - 1
<1>1. Pick(T) \in T
  BY DEF Pick
<1>2. IsFiniteSet(T)
  BY FS_Subset
<1>3. Cardinality(T) \in Nat
  BY <1>2, FS_CardinalityType
<1>4. Cardinality(T \ {Pick(T)}) = Cardinality(T) - 1
  BY <1>1, <1>2, FS_RemoveElement
<1>5. QED  BY <1>1, <1>3, <1>4

LEMMA FoldExists ==
  ASSUME NEW S, IsFiniteSet(S), NEW f \in [S -> Nat]
  PROVE  \E sum : Fold(f, S, sum)
<1> DEFINE Small(k) == { T \in SUBSET S : Cardinality(T) <= k }
           Upto(k, sum) ==
             /\ sum \in [SUBSET S -> Nat]
             /\ \A T \in Small(k) :
                  sum[T] = IF T = {} THEN 0 ELSE f[Pick(T)] + sum[T \ {Pick(T)}]
           K == { k \in Nat : \E sum : Upto(k, sum) }
<1>0. \A T \in SUBSET S : Cardinality(T) \in Nat /\ (Cardinality(T) = 0 <=> T = {})
  <2> SUFFICES ASSUME NEW T \in SUBSET S
               PROVE  Cardinality(T) \in Nat /\ (Cardinality(T) = 0 <=> T = {})
    OBVIOUS
  <2>1. IsFiniteSet(T)
    BY FS_Subset
  <2>2. QED  BY <2>1, FS_CardinalityType, FS_EmptySet
<1>1. 0 \in K
  <2> DEFINE sum == [T \in SUBSET S |-> 0]
  <2>1. \A T \in Small(0) : T = {}
    BY <1>0
  <2>2. sum \in [SUBSET S -> Nat] /\ \A T \in SUBSET S : sum[T] = 0
    OBVIOUS
  <2> HIDE DEF sum
  <2>3. Upto(0, sum)
    BY <2>1, <2>2
  <2>4. QED  BY <2>3
<1>2. ASSUME NEW k \in Nat, k \in K PROVE k + 1 \in K
  <2>1. PICK sum : Upto(k, sum)
    BY <1>2
  <2> DEFINE Next1(T) == IF T = {} THEN 0 ELSE f[Pick(T)] + sum[T \ {Pick(T)}]
             more == [T \in SUBSET S |-> Next1(T)]
  <2>2. \A T \in SUBSET S : Next1(T) \in Nat
    <3> SUFFICES ASSUME NEW T \in SUBSET S, T # {} PROVE f[Pick(T)] + sum[T \ {Pick(T)}] \in Nat
      OBVIOUS
    <3>1. Pick(T) \in S /\ T \ {Pick(T)} \in SUBSET S
      BY Smaller
    <3>2. f[Pick(T)] \in Nat /\ sum[T \ {Pick(T)}] \in Nat
      BY <2>1, <3>1
    <3>3. QED  BY <3>2
  <2>3. more \in [SUBSET S -> Nat] /\ \A T \in SUBSET S : more[T] = Next1(T)
    BY <2>2
  <2>4. \A T \in Small(k) : more[T] = sum[T]
    BY <2>1, <2>3
  <2> HIDE DEF more
  <2>5. ASSUME NEW T \in Small(k + 1), T # {}
        PROVE  more[T \ {Pick(T)}] = sum[T \ {Pick(T)}]
    <3>1. /\ T \ {Pick(T)} \in SUBSET S
          /\ Cardinality(T) \in Nat /\ Cardinality(T \ {Pick(T)}) = Cardinality(T) - 1
      BY <2>5, Smaller
    <3>2. Cardinality(T \ {Pick(T)}) <= k
      BY <3>1
    <3>3. QED  BY <2>4, <3>1, <3>2
  <2>6. Upto(k + 1, more)
    BY <2>3, <2>5
  <2>7. QED  BY <2>6
<1> HIDE DEF K
<1>3. Cardinality(S) \in Nat /\ Cardinality(S) \in K
  <2>1. Cardinality(S) \in Nat
    BY <1>0
  <2>2. QED  BY <1>1, <1>2, <2>1, SetInduction
<1>4. PICK sum : Upto(Cardinality(S), sum)
  BY <1>3 DEF K
<1>5. \A T \in SUBSET S : T \in Small(Cardinality(S))
  BY FS_Subset
<1>6. Fold(f, S, sum)
  BY <1>4, <1>5 DEF Fold
<1>7. QED  BY <1>6

\* Greater numbers have the greater sum.
LEMMA SumGrows ==
  ASSUME NEW S, IsFiniteSet(S), NEW f \in [S -> Nat], NEW g \in [S -> Nat],
         \A c \in S : f[c] <= g[c]
  PROVE  /\ SumFunction(f) \in Nat /\ SumFunction(g) \in Nat
         /\ SumFunction(f) <= SumFunction(g)
<1> DEFINE p == CHOOSE sum : Fold(f, S, sum)
           q == CHOOSE sum : Fold(g, S, sum)
<1>1. SumFunction(f) = p[S] /\ SumFunction(g) = q[S]
  BY SumIsFold
<1>2. Fold(f, S, p) /\ Fold(g, S, q)
  <2>1. (\E sum : Fold(f, S, sum)) /\ (\E sum : Fold(g, S, sum))
    BY FoldExists
  <2>2. QED  BY <2>1
<1> HIDE DEF p, q
<1> DEFINE Ordered(T) == p[T] \in Nat /\ q[T] \in Nat /\ p[T] <= q[T]
           K == { k \in Nat : \A T \in SUBSET S : Cardinality(T) <= k => Ordered(T) }
<1>3. \A T \in SUBSET S : Cardinality(T) \in Nat /\ (Cardinality(T) = 0 <=> T = {})
  <2> SUFFICES ASSUME NEW T \in SUBSET S
               PROVE  Cardinality(T) \in Nat /\ (Cardinality(T) = 0 <=> T = {})
    OBVIOUS
  <2>1. IsFiniteSet(T)
    BY FS_Subset
  <2>2. QED  BY <2>1, FS_CardinalityType, FS_EmptySet
<1>4. Ordered({})
  <2>1. {} \in SUBSET S
    OBVIOUS
  <2>2. p[{}] = 0 /\ q[{}] = 0
    BY <1>2, <2>1 DEF Fold
  <2>3. QED  BY <2>2
<1>5. ASSUME NEW T \in SUBSET S, T # {}, Ordered(T \ {Pick(T)}) PROVE Ordered(T)
  <2>1. Pick(T) \in S
    BY <1>5, Smaller
  <2>2. p[T] = f[Pick(T)] + p[T \ {Pick(T)}]
    BY <1>2, <1>5 DEF Fold
  <2>3. q[T] = g[Pick(T)] + q[T \ {Pick(T)}]
    BY <1>2, <1>5 DEF Fold
  <2>4. f[Pick(T)] \in Nat /\ g[Pick(T)] \in Nat /\ f[Pick(T)] <= g[Pick(T)]
    BY <2>1
  <2>5. QED  BY <1>5, <2>2, <2>3, <2>4, Added
<1> HIDE DEF Ordered
<1>6. 0 \in K
  BY <1>3, <1>4
<1>7. ASSUME NEW k \in Nat, k \in K PROVE k + 1 \in K
  <2> SUFFICES ASSUME NEW T \in SUBSET S, Cardinality(T) <= k + 1, T # {} PROVE Ordered(T)
    BY <1>4
  <2>1. /\ T \ {Pick(T)} \in SUBSET S
        /\ Cardinality(T) \in Nat /\ Cardinality(T \ {Pick(T)}) = Cardinality(T) - 1
    BY Smaller
  <2>2. Cardinality(T \ {Pick(T)}) <= k
    BY <2>1
  <2>3. Ordered(T \ {Pick(T)})
    BY <1>7, <2>1, <2>2
  <2>4. QED  BY <1>5, <2>3
<1> HIDE DEF K
<1>8. Cardinality(S) \in Nat /\ Cardinality(S) \in K
  <2>1. Cardinality(S) \in Nat
    BY <1>3
  <2>2. QED  BY <1>6, <1>7, <2>1, SetInduction
<1>9. Ordered(S)
  BY <1>8 DEF K
<1>10. QED  BY <1>1, <1>9 DEF Ordered

\* What the gauge of unique entities is set to never falls: no register
\* does, and the estimates and their sum grow with the registers. It covers
\* the life of the process and no window, for any entities,
\* cells, hash and limit (metrics.go:78, hll.go:41).
THEOREM UniqueNeverFallsHolds == AnalyticsSpec => UniqueNeverFalls
<1>1. AInv /\ AInv' /\ (\A c \in BusyCells, i \in Registers : shardHLL[c][i] <= shardHLL'[c][i])
        => UniqueEntities' >= UniqueEntities
  <2> SUFFICES ASSUME AInv, AInv',
                      \A c \in BusyCells, i \in Registers : shardHLL[c][i] <= shardHLL'[c][i]
               PROVE  UniqueEntities' >= UniqueEntities
    OBVIOUS
  <2> DEFINE f == [c \in BusyCells |-> Estimate(shardHLL[c])]
             g == [c \in BusyCells |-> Estimate(shardHLL'[c])]
             rest == (256 - Cardinality(BusyCells)) * Estimate(EmptySketch)
  <2>1. \A c \in BusyCells : shardHLL[c] \in Sketches /\ shardHLL'[c] \in Sketches
    BY DEF AInv, AnalyticsTypeOK
  <2>2. \A c \in BusyCells :
          /\ Estimate(shardHLL[c]) \in Nat /\ Estimate(shardHLL'[c]) \in Nat
          /\ Estimate(shardHLL[c]) <= Estimate(shardHLL'[c])
    BY <2>1, EstimateGrows
  <2>3. IsFiniteSet(BusyCells)
    <3>1. 0 \in Int /\ 255 \in Int
      BY SMT
    <3>2. IsFiniteSet(0 .. 255)
      BY <3>1, FS_Interval
    <3>3. QED  BY <3>2, HashAssumption, FS_Subset
  <2>4. /\ SumFunction(f) \in Nat /\ SumFunction(g) \in Nat
        /\ SumFunction(f) <= SumFunction(g)
    <3>1. /\ f \in [BusyCells -> Nat] /\ g \in [BusyCells -> Nat]
          /\ \A c \in BusyCells : f[c] <= g[c]
      BY <2>2
    <3> HIDE DEF f, g
    <3>2. QED  BY <2>3, <3>1, SumGrows
  <2>5. rest \in Int
    <3>1. EmptySketch \in Sketches
      BY RankAssumption DEF EmptySketch, Sketches
    <3>2. Estimate(EmptySketch) \in Nat
      <4>1. \A i \in Registers : EmptySketch[i] <= EmptySketch[i]
        BY DEF EmptySketch
      <4>2. QED  BY <3>1, <4>1, EstimateGrows
    <3>3. Cardinality(BusyCells) \in Nat
      BY <2>3, FS_CardinalityType
    <3>4. QED  BY <3>2, <3>3
  <2>6. UniqueEntities = SumFunction(f) + rest /\ UniqueEntities' = SumFunction(g) + rest
    BY DEF UniqueEntities
  <2> HIDE DEF f, g, rest
  <2>7. QED  BY <2>4, <2>5, <2>6
<1>2. AInv /\ IInv' /\ [AnalyticsNext]_analyticsVars => UniqueEntities' >= UniqueEntities
  BY <1>1, AnalyticsStep DEF IInv
<1>3. QED  BY <1>2, AnalyticsInvariant, PTL DEF AnalyticsSpec, UniqueNeverFalls

\* What is proved of the limiter on its own holds beside the sketches.
THEOREM LimiterInside ==
  AnalyticsSpec => [](SketchBounds /\ RateBound /\ PrivateLimit) /\ LimiterSpec
<1>1. QED
  BY LimiterUntouched, SketchBoundsHold, RateBoundHolds, PrivateLimitHolds, Refinement, PTL

-----------------------------------------------------------------------------
(* The hashes of the code. *)

LEMMA SixAndTwenty == IsFiniteSet(0 .. 25) /\ Cardinality(0 .. 25) = 26
<1>1. 0 \in Int /\ 25 \in Int /\ ~(0 > 25) /\ 25 - 0 + 1 = 26
  BY SMT
<1>2. IsFiniteSet(0 .. 25) /\ Cardinality(0 .. 25) = IF 0 > 25 THEN 0 ELSE 25 - 0 + 1
  BY <1>1, FS_Interval
<1>3. QED  BY <1>1, <1>2

\* The code's hashes meet the assumptions made of Hash and Column, for every
\* id: the rank counts at most 26 zeros and is never 0, so that every entity
\* added to a sketch raises a register (hll.go:22, cms.go:31).
THEOREM CodeHashes ==
  ASSUME NEW id \in Nat, NEW i \in Nat
  PROVE  CodeHash(id) \in [register : Registers, rank : 1 .. 27] /\ HashColumn(id, i) \in 0 .. 1023
<1> DEFINE low == (id * 44597) % 65536
           sum == id * 49842 + (id * 44597) \div 65536
           high == sum % 65536
           remaining == (high % 1024) * 65536 + low
           ones == { k \in 0 .. 25 : 2^k <= remaining }
<1>1. sum \in Nat
  BY SMT
<1>2. high \div 1024 \in Registers
  <2> HIDE DEF sum
  <2>1. high \div 1024 \in 0 .. 63
    BY <1>1, SMT
  <2>2. QED  BY <2>1, SMT DEF Registers
<1>3. Cardinality(ones) \in 0 .. 26
  <2>1. IsFiniteSet(0 .. 25) /\ Cardinality(0 .. 25) = 26
    BY SixAndTwenty
  <2> HIDE DEF remaining
  <2>2. ones \in SUBSET (0 .. 25)
    OBVIOUS
  <2> HIDE DEF ones
  <2>3. IsFiniteSet(ones) /\ Cardinality(ones) <= 26
    BY <2>1, <2>2, FS_Subset
  <2>4. Cardinality(ones) \in Nat
    BY <2>3, FS_CardinalityType
  <2>5. QED  BY <2>3, <2>4
<1>4. CodeHash(id) = [register |-> high \div 1024, rank |-> 27 - Cardinality(ones)]
  BY DEF CodeHash
<1> HIDE DEF sum, high, remaining, ones
<1>5. 27 - Cardinality(ones) \in 1 .. 27
  BY <1>3
<1>6. HashColumn(id, i) \in 0 .. 1023
  BY DEF HashColumn
<1>7. QED  BY <1>2, <1>4, <1>5, <1>6

\* The four rows are one: 1024 columns leave only the last ten bits of an id
\* in play, and row 0, whose multiplier is odd, keeps all ten of them.
LEMMA OneRow ==
  ASSUME NEW d \in Nat, NEW e \in Nat
  PROVE  /\ HashColumn(d, 0) = HashColumn(e, 0) => d % 1024 = e % 1024
         /\ d % 1024 = e % 1024 => \A i \in Nat : HashColumn(d, i) = HashColumn(e, i)
<1>1. \A x \in 0 .. 1023 : (579 * ((x * 619) % 1024)) % 1024 = x
  BY SMT
<1>2. \A id \in Nat : id % 1024 \in 0 .. 1023
  BY SMT
<1>3. (619 + 0 * 565) % 1024 = 619
  BY SMT
<1>4. \A id \in Nat : HashColumn(id, 0) = ((id % 1024) * 619) % 1024
  BY <1>3 DEF HashColumn
<1>5. \A id \in Nat : (579 * HashColumn(id, 0)) % 1024 = id % 1024
  BY <1>1, <1>2, <1>4
<1>6. HashColumn(d, 0) = HashColumn(e, 0) => d % 1024 = e % 1024
  BY <1>5
<1>7. ASSUME d % 1024 = e % 1024, NEW i \in Nat
      PROVE  HashColumn(d, i) = HashColumn(e, i)
  <2> DEFINE Col(x) == (x * ((619 + i * 565) % 1024)) % 1024
  <2>1. HashColumn(d, i) = Col(d % 1024) /\ HashColumn(e, i) = Col(e % 1024)
    BY DEF HashColumn
  <2> HIDE DEF Col
  <2>2. QED  BY <1>7, <2>1
<1>8. QED  BY <1>6, <1>7

\* Entities that collide in every row are limited together.
SharedSent ==
  \A d, e \in Entities, r \in CmsRows :
    d # e /\ Column[d][r] = Column[e][r] => sent[d] + sent[e] <= table[r][Column[e][r]]

SharedLimit ==
  \A d, e \in Entities :
    d # e /\ Column[d] = Column[e] => passed[d] + passed[e] <= RateLimit

SharedInv == SharedSent /\ SharedLimit

LEMMA SharedPacket ==
  ASSUME IInv, IInv', SharedInv, NEW k \in Entities, Packet(k)
  PROVE  SharedInv'
<1>1. /\ table \in Tables /\ Column \in [Entities -> [CmsRows -> CmsCols]]
      /\ RateLimit \in Nat /\ CmsRows # {}
      /\ sent \in [Entities -> Nat] /\ passed \in [Entities -> Nat]
      /\ sent' \in [Entities -> Nat] /\ passed' \in [Entities -> Nat] /\ table' \in Tables
  BY SketchAssumption DEF IInv, TypeOK
<1>2. \A r \in CmsRows, c \in CmsCols :
        table'[r][c] = IF c = Column[k][r] THEN table[r][c] + 1 ELSE table[r][c]
  BY <1>1, BumpCells DEF Packet
<1>3. \A e \in Entities : sent'[e] = IF e = k THEN sent[e] + 1 ELSE sent[e]
  BY <1>1 DEF Packet
<1>4. \A e \in Entities, r \in CmsRows :
        /\ Column[e][r] \in CmsCols
        /\ table[r][Column[e][r]] \in Nat /\ table'[r][Column[e][r]] \in Nat
  BY <1>1 DEF Tables
<1>5. ASSUME NEW d \in Entities, NEW e \in Entities, NEW r \in CmsRows,
             d # e, Column[d][r] = Column[e][r]
      PROVE  sent'[d] + sent'[e] <= table'[r][Column[e][r]]
  <2>1. sent[d] + sent[e] <= table[r][Column[e][r]]
    BY <1>5 DEF SharedInv, SharedSent
  <2>2. CASE k \in {d, e}
    <3>1. table'[r][Column[e][r]] = table[r][Column[e][r]] + 1
      BY <1>2, <1>4, <1>5, <2>2
    <3>2. sent'[d] + sent'[e] = sent[d] + sent[e] + 1
      BY <1>1, <1>3, <1>5, <2>2
    <3>3. QED  BY <1>1, <1>4, <2>1, <3>1, <3>2
  <2>3. CASE k \notin {d, e}
    <3>1. table'[r][Column[e][r]] >= table[r][Column[e][r]]
      BY <1>2, <1>4
    <3>2. sent'[d] = sent[d] /\ sent'[e] = sent[e]
      BY <1>3, <2>3
    <3>3. QED  BY <1>1, <1>4, <2>1, <3>1, <3>2
  <2>4. QED  BY <2>2, <2>3
<1>6. ASSUME NEW d \in Entities, NEW e \in Entities, d # e, Column[d] = Column[e]
      PROVE  passed'[d] + passed'[e] <= RateLimit
  <2>1. passed[d] + passed[e] <= RateLimit
    BY <1>6 DEF SharedInv, SharedLimit
  <2>2. CASE UNCHANGED passed
    BY <2>1, <2>2
  <2>3. CASE ~OverLimit(table', k) /\ passed' = [passed EXCEPT ![k] = @ + 1]
    <3>1. CASE k \in {d, e}
      <4>1. PICK r \in CmsRows : ~(table'[r][Column[k][r]] > RateLimit)
        BY <2>3 DEF OverLimit
      <4>2. Column[k][r] = Column[e][r] /\ Column[d][r] = Column[e][r]
        BY <1>6, <3>1
      <4>3. sent'[d] + sent'[e] <= RateLimit
        BY <1>1, <1>4, <1>5, <1>6, <4>1, <4>2
      <4>4. passed'[d] <= sent'[d] /\ passed'[e] <= sent'[e]
        BY DEF IInv, PassedOfSent
      <4>5. QED  BY <1>1, <4>3, <4>4
    <3>2. CASE k \notin {d, e}
      BY <1>1, <2>1, <2>3, <3>2
    <3>3. QED  BY <3>1, <3>2
  <2>4. QED  BY <2>2, <2>3 DEF Packet
<1>7. QED  BY <1>5, <1>6 DEF SharedInv, SharedSent, SharedLimit

LEMMA SharedInvariant == Spec => [](IInv /\ SharedInv)
<1>1. ASSUME sent = [e \in Entities |-> 0], passed = [e \in Entities |-> 0],
             table = EmptyTable
      PROVE  SharedInv
  BY <1>1, SketchAssumption DEF SharedInv, SharedSent, SharedLimit, EmptyTable
<1>2. Init => SharedInv
  BY <1>1 DEF Init
<1>3. IInv /\ IInv' /\ SharedInv /\ [Next]_vars => SharedInv'
  <2> SUFFICES ASSUME IInv, IInv', SharedInv, [Next]_vars PROVE SharedInv'
    OBVIOUS
  <2>1. CASE Tick
    BY <2>1, SketchAssumption DEF Tick, SharedInv, SharedSent, SharedLimit, EmptyTable
  <2>2. ASSUME NEW k \in Entities, Packet(k) PROVE SharedInv'
    BY <2>2, SharedPacket
  <2>3. CASE UNCHANGED vars
    BY <2>3 DEF vars, SharedInv, SharedSent, SharedLimit
  <2>4. QED  BY <2>1, <2>2, <2>3 DEF Next
<1>4. QED  BY <1>2, <1>3, Invariant, PTL DEF Spec

\* What the limiter of the code does, its hashes included: entities whose ids
\* agree in the last ten bits share one limit between them, however many
\* rows there are, and one that agrees with no other has its own in full
\* (cms.go:17, pipeline.go:35).
THEOREM LimitPerResidue ==
  ASSUME Entities \subseteq Nat, CmsRows = 0 .. 3,
         \A e \in Entities, r \in CmsRows : Column[e][r] = HashColumn(e, r)
  PROVE  Spec => []
    /\ \A d, e \in Entities :
         d # e /\ d % 1024 = e % 1024 => passed[d] + passed[e] <= RateLimit
    /\ \A e \in Entities :
         (\A d \in Entities \ {e} : d % 1024 # e % 1024) =>
           passed[e] = (IF sent[e] <= RateLimit THEN sent[e] ELSE RateLimit)
<1>1. ASSUME NEW d \in Entities, NEW e \in Entities, d % 1024 = e % 1024
      PROVE  Column[d] = Column[e]
  <2>1. \A r \in CmsRows : Column[d][r] = Column[e][r]
    BY <1>1, OneRow
  <2>2. Column[d] \in [CmsRows -> CmsCols] /\ Column[e] \in [CmsRows -> CmsCols]
    BY SketchAssumption
  <2>3. QED  BY <2>1, <2>2
<1>2. ASSUME NEW e \in Entities, \A d \in Entities \ {e} : d % 1024 # e % 1024
      PROVE  0 \in CmsRows /\ PrivateRow(e, 0)
  BY <1>2, OneRow DEF PrivateRow
<1>3. IInv /\ SharedInv =>
        /\ \A d, e \in Entities :
             d # e /\ d % 1024 = e % 1024 => passed[d] + passed[e] <= RateLimit
        /\ \A e \in Entities :
             (\A d \in Entities \ {e} : d % 1024 # e % 1024) =>
               passed[e] = (IF sent[e] <= RateLimit THEN sent[e] ELSE RateLimit)
  <2>1. SharedInv => \A d, e \in Entities :
          d # e /\ d % 1024 = e % 1024 => passed[d] + passed[e] <= RateLimit
    BY <1>1 DEF SharedInv, SharedLimit
  <2>2. IInv => \A e \in Entities :
          (\A d \in Entities \ {e} : d % 1024 # e % 1024) =>
            passed[e] = (IF sent[e] <= RateLimit THEN sent[e] ELSE RateLimit)
    BY <1>2 DEF IInv, PrivateLimit
  <2>3. QED  BY <2>1, <2>2
<1>4. QED  BY <1>3, SharedInvariant, PTL
=============================================================================
