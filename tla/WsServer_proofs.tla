--------------------------- MODULE WsServer_proofs ---------------------------
(***************************************************************************)
(* Proofs about WsServer, for any number of connections, cells, entities   *)
(* and any channel size.                                                   *)
(***************************************************************************)
EXTENDS WsServer, SequenceTheorems, FiniteSetTheorems, TLAPS

\* The invariant: where a handler is tells what it has left in the table, in
\* the channel map and among the connections; a writer that has given up has
\* closed the socket, or its handler is about to.
Placed(s) ==
  /\ handler[s] \in {"none", "subscribe"} => s \notin member /\ chan[s] = "none"
  /\ handler[s] = "create" => s \in member /\ chan[s] = "none"
  /\ handler[s] \in {"spawn", "reading", "leave", "unsubscribe"} =>
       s \in member /\ chan[s] = "open"
  /\ handler[s] = "remove" => s \notin member /\ chan[s] = "open"
  /\ handler[s] \in {"close", "done"} => s \notin member /\ chan[s] = "closed"
  /\ handler[s] \in {"unsubscribe", "remove", "close", "done"} => s \notin conns
  /\ handler[s] = "done" => sock[s] = "closed"

Serving(s) ==
  /\ qlen[s] > 0 => chan[s] # "none"
  /\ writer[s] = "none" <=> handler[s] \in {"none", "subscribe", "create", "spawn"}
  /\ writer[s] = "exited" => sock[s] = "closed" \/ handler[s] = "close"

Connections == \A s \in Subs : Placed(s) /\ Serving(s)

IInv == TypeOK /\ Connections /\ IndexMatchesTable

-----------------------------------------------------------------------------
(* Types. *)

LEMMA CutProperties ==
  ASSUME NEW S, NEW ids \in Seq(S), NEW k \in 1 .. Len(ids)
  PROVE  /\ Cut(ids, k) \in Seq(S)
         /\ Len(Cut(ids, k)) = Len(ids) - 1
         /\ \A j \in 1 .. Len(ids) - 1 : Cut(ids, k)[j] = IF j < k THEN ids[j] ELSE ids[j + 1]
<1>1. Len(ids) - 1 \in Nat
  OBVIOUS
<1>2. \A j \in 1 .. Len(ids) - 1 : (IF j < k THEN ids[j] ELSE ids[j + 1]) \in S
  BY <1>1
<1>3. Cut(ids, k) \in [1 .. Len(ids) - 1 -> S]
  BY <1>2 DEF Cut
<1>4. QED  BY <1>1, <1>3, LenProperties DEF Cut

LEMMA UnlistType ==
  ASSUME NEW S, NEW ids \in Seq(S), NEW s
  PROVE  Unlist(ids, s) \in Seq(S)
  BY CutProperties DEF Unlist

\* In a list without repetitions the one occurrence of s is cut out, and
\* everything else stays.
LEMMA UnlistProperties ==
  ASSUME NEW S, NEW ids \in Seq(S), NEW s,
         \A i, j \in 1 .. Len(ids) : ids[i] = ids[j] => i = j
  PROVE  LET q == Unlist(ids, s) IN
         /\ \A i, j \in 1 .. Len(q) : q[i] = q[j] => i = j
         /\ \A t : (\E i \in 1 .. Len(q) : q[i] = t) <=>
                   t # s /\ \E i \in 1 .. Len(ids) : ids[i] = t
<1> DEFINE first(i) == ids[i] = s /\ \A j \in 1 .. i - 1 : ids[j] # s
<1>1. CASE ~\E i \in 1 .. Len(ids) : first(i)
  <2>1. ~\E i \in 1 .. Len(ids) : ids[i] = s
    <3> SUFFICES ASSUME NEW i \in 1 .. Len(ids), ids[i] = s PROVE FALSE
      OBVIOUS
    <3>1. \A j \in 1 .. i - 1 : ids[j] # s
      OBVIOUS
    <3>2. QED  BY <1>1, <3>1
  <2>2. Unlist(ids, s) = ids
    BY <1>1 DEF Unlist
  <2>3. QED  BY <2>1, <2>2
<1>2. CASE \E i \in 1 .. Len(ids) : first(i)
  <2>1. PICK k \in 1 .. Len(ids) : first(k) /\ Unlist(ids, s) = Cut(ids, k)
    BY <1>2 DEF Unlist
  <2> DEFINE q == Cut(ids, k)
  <2>2. /\ Len(q) = Len(ids) - 1 /\ Len(ids) \in Nat
        /\ \A j \in 1 .. Len(ids) - 1 : q[j] = IF j < k THEN ids[j] ELSE ids[j + 1]
    BY CutProperties
  <2> HIDE DEF q
  <2>3. \A i, j \in 1 .. Len(q) : q[i] = q[j] => i = j
    <3> SUFFICES ASSUME NEW i \in 1 .. Len(q), NEW j \in 1 .. Len(q), q[i] = q[j]
                 PROVE  i = j
      OBVIOUS
    <3>1. i + 1 \in 1 .. Len(ids) /\ j + 1 \in 1 .. Len(ids)
          /\ i \in 1 .. Len(ids) /\ j \in 1 .. Len(ids)
      BY <2>2
    <3>2. QED  BY <2>2, <3>1
  <2>4. \A t : (\E i \in 1 .. Len(q) : q[i] = t) <=>
               t # s /\ \E i \in 1 .. Len(ids) : ids[i] = t
    <3>1. ASSUME NEW i \in 1 .. Len(q)
          PROVE  q[i] # s /\ \E j \in 1 .. Len(ids) : ids[j] = q[i]
      <4>1. i \in 1 .. Len(ids) /\ i + 1 \in 1 .. Len(ids)
        BY <2>2
      <4>2. CASE i < k
        BY <2>1, <2>2, <4>1, <4>2
      <4>3. CASE ~(i < k)
        <5>1. i + 1 # k /\ q[i] = ids[i + 1]
          BY <2>2, <4>3
        <5>2. QED  BY <2>1, <4>1, <5>1
      <4>4. QED  BY <4>2, <4>3
    <3>2. ASSUME NEW i \in 1 .. Len(ids), ids[i] # s
          PROVE  \E j \in 1 .. Len(q) : q[j] = ids[i]
      <4>1. i # k
        BY <2>1, <3>2
      <4>2. CASE i < k
        <5>1. i \in 1 .. Len(q) /\ q[i] = ids[i]
          BY <2>2, <4>2
        <5>2. QED  BY <5>1
      <4>3. CASE ~(i < k)
        <5>1. i - 1 \in 1 .. Len(q) /\ ~(i - 1 < k) /\ (i - 1) + 1 = i
          BY <2>2, <4>1, <4>3
        <5>2. q[i - 1] = ids[i]
          BY <2>2, <5>1
        <5>3. QED  BY <5>1, <5>2
      <4>4. QED  BY <4>2, <4>3
    <3>3. QED  BY <3>1, <3>2
  <2>5. QED  BY <2>1, <2>3, <2>4 DEF q
<1>3. QED  BY <1>1, <1>2

-----------------------------------------------------------------------------
(* The index. *)

LEMMA SubscribeIndex ==
  ASSUME TypeOK, IndexMatchesTable, NEW s \in Subs, s \notin member, Subscribe(s)
  PROVE  IndexMatchesTable' /\ cellIndex' \in [TickCells -> Seq(Subs)]
<1>1. ASSUME NEW c \in TickCells
      PROVE  LET ids == cellIndex'[c] IN
             /\ ids \in Seq(Subs)
             /\ \A t \in Subs :
                  (t \in member' /\ c \in CellsOf[t]) <=> \E i \in 1 .. Len(ids) : ids[i] = t
             /\ \A i, j \in 1 .. Len(ids) : ids[i] = ids[j] => i = j
  <2> DEFINE ids == cellIndex[c]  new == cellIndex'[c]
  <2>1. /\ ids \in Seq(Subs) /\ Len(ids) \in Nat
        /\ \A t \in Subs :
             (t \in member /\ c \in CellsOf[t]) <=> \E i \in 1 .. Len(ids) : ids[i] = t
        /\ \A i, j \in 1 .. Len(ids) : ids[i] = ids[j] => i = j
    BY DEF IndexMatchesTable, TypeOK, FanoutTypeOK
  <2>2. member' = member \cup {s}
    BY DEF Subscribe
  <2>3. CASE c \notin CellsOf[s]
    <3>1. new = ids
      BY <2>3 DEF Subscribe
    <3> HIDE DEF new, ids
    <3>2. QED  BY <2>1, <2>2, <2>3, <3>1 DEF new
  <2>4. CASE c \in CellsOf[s]
    <3>1. new = Append(ids, s)
      BY <2>4 DEF Subscribe
    <3>2. /\ new \in Seq(Subs) /\ Len(new) = Len(ids) + 1
          /\ \A i \in 1 .. Len(ids) : new[i] = ids[i]
          /\ new[Len(ids) + 1] = s
      BY <2>1, <3>1, AppendProperties
    <3>3. \A i \in 1 .. Len(ids) : ids[i] # s
      BY <2>1
    <3> HIDE DEF new, ids
    <3>4. \A i, j \in 1 .. Len(new) : new[i] = new[j] => i = j
      <4> SUFFICES ASSUME NEW i \in 1 .. Len(new), NEW j \in 1 .. Len(new), new[i] = new[j]
                   PROVE  i = j
        OBVIOUS
      <4>1. CASE i # Len(ids) + 1 /\ j # Len(ids) + 1
        <5>1. i \in 1 .. Len(ids) /\ j \in 1 .. Len(ids)
          BY <2>1, <3>2, <4>1
        <5>2. QED  BY <2>1, <3>2, <5>1
      <4>2. CASE i = Len(ids) + 1 \/ j = Len(ids) + 1
        BY <2>1, <3>2, <3>3, <4>2
      <4>3. QED  BY <4>1, <4>2
    <3>5. \A t \in Subs :
            (t \in member' /\ c \in CellsOf[t]) <=> \E i \in 1 .. Len(new) : new[i] = t
      <4>1. ASSUME NEW t \in Subs, t # s
            PROVE (t \in member' /\ c \in CellsOf[t]) <=> \E i \in 1 .. Len(new) : new[i] = t
        <5>1. (\E i \in 1 .. Len(new) : new[i] = t) <=> \E i \in 1 .. Len(ids) : ids[i] = t
          <6>1. ASSUME NEW i \in 1 .. Len(new), new[i] = t
                PROVE  \E j \in 1 .. Len(ids) : ids[j] = t
            <7>1. i # Len(ids) + 1
              BY <3>2, <4>1, <6>1
            <7>2. i \in 1 .. Len(ids)
              BY <2>1, <3>2, <7>1
            <7>3. QED  BY <3>2, <6>1, <7>2
          <6>2. ASSUME NEW i \in 1 .. Len(ids), ids[i] = t
                PROVE  \E j \in 1 .. Len(new) : new[j] = t
            <7>1. i \in 1 .. Len(new)
              BY <2>1, <3>2
            <7>2. QED  BY <3>2, <6>2, <7>1
          <6>3. QED  BY <6>1, <6>2
        <5>2. QED  BY <2>1, <2>2, <4>1, <5>1
      <4>2. Len(ids) + 1 \in 1 .. Len(new)
        BY <2>1, <3>2
      <4>3. QED  BY <2>2, <2>4, <3>2, <4>1, <4>2
    <3>6. QED  BY <3>2, <3>4, <3>5 DEF new
  <2>5. QED  BY <2>3, <2>4
<1>2. cellIndex' \in [TickCells -> Seq(Subs)]
  BY <1>1 DEF Subscribe
<1>3. QED  BY <1>1, <1>2 DEF IndexMatchesTable

LEMMA UnsubscribeIndex ==
  ASSUME TypeOK, IndexMatchesTable, NEW s \in Subs, Unsubscribe(s)
  PROVE  IndexMatchesTable' /\ cellIndex' \in [TickCells -> Seq(Subs)]
<1>1. ASSUME NEW c \in TickCells
      PROVE  LET ids == cellIndex'[c] IN
             /\ ids \in Seq(Subs)
             /\ \A t \in Subs :
                  (t \in member' /\ c \in CellsOf[t]) <=> \E i \in 1 .. Len(ids) : ids[i] = t
             /\ \A i, j \in 1 .. Len(ids) : ids[i] = ids[j] => i = j
  <2> DEFINE ids == cellIndex[c]  new == cellIndex'[c]
  <2>1. /\ ids \in Seq(Subs)
        /\ \A t \in Subs :
             (t \in member /\ c \in CellsOf[t]) <=> \E i \in 1 .. Len(ids) : ids[i] = t
        /\ \A i, j \in 1 .. Len(ids) : ids[i] = ids[j] => i = j
    BY DEF IndexMatchesTable, TypeOK, FanoutTypeOK
  <2>2. member' = member \ {s}
    BY DEF Unsubscribe
  <2>3. CASE c \notin CellsOf[s]
    <3>1. new = ids
      BY <2>3 DEF Unsubscribe
    <3> HIDE DEF new, ids
    <3>2. QED  BY <2>1, <2>2, <2>3, <3>1 DEF new
  <2>4. CASE c \in CellsOf[s]
    <3>1. new = Unlist(ids, s)
      BY <2>4 DEF Unsubscribe
    <3> HIDE DEF new, ids
    <3>2. /\ new \in Seq(Subs)
          /\ \A i, j \in 1 .. Len(new) : new[i] = new[j] => i = j
          /\ \A t : (\E i \in 1 .. Len(new) : new[i] = t) <=>
                    t # s /\ \E i \in 1 .. Len(ids) : ids[i] = t
      <4>1. new \in Seq(Subs)
        BY <2>1, <3>1, UnlistType
      <4>2. LET q == Unlist(ids, s) IN
            /\ \A i, j \in 1 .. Len(q) : q[i] = q[j] => i = j
            /\ \A t : (\E i \in 1 .. Len(q) : q[i] = t) <=>
                      t # s /\ \E i \in 1 .. Len(ids) : ids[i] = t
        BY <2>1, UnlistProperties, Zenon
      <4>3. QED  BY <3>1, <4>1, <4>2
    <3>3. QED  BY <2>1, <2>2, <3>2 DEF new
  <2>5. QED  BY <2>3, <2>4
<1>2. cellIndex' \in [TickCells -> Seq(Subs)]
  BY <1>1 DEF Unsubscribe
<1>3. QED  BY <1>1, <1>2 DEF IndexMatchesTable

-----------------------------------------------------------------------------
(* The tick reads the table and the channel map and changes neither. *)

LEMMA TickPreserves ==
  ASSUME IInv, BeginTick \/ TickStep, UNCHANGED connVars
  PROVE  IInv'
<1>a. TypeOK /\ Connections /\ IndexMatchesTable
  BY DEF IInv
<1>b. UNCHANGED <<table, chan>>
  BY DEF BeginTick, TickStep, VisitCell, Copy, EndTick, Filter, EndBatch, GetChannel, SendPanics,
         SendQueued, SendDropped, channels
<1>1. FanoutTypeOK'
  <2>a. FanoutTypeOK
    BY <1>a DEF TypeOK
  <2>b. /\ member' \subseteq Subs /\ cellIndex' \in [TickCells -> Seq(Subs)]
        /\ following' \in [Subs -> (SUBSET Entities) \cup {NoMap}]
        /\ writing' \in [sub : Subs, set : SUBSET Entities] \cup {Nil}
        /\ chan' \in [Subs -> {"none", "open", "closed"}]
    BY <1>b, <2>a DEF table, FanoutTypeOK
  <2>c. batch # <<>> => Tail(batch) \in Seq(Subs) /\ Head(batch) \in Subs
    BY <2>a DEF FanoutTypeOK
  <2>1. CASE BeginTick
    BY <2>1, <2>a, <2>b DEF BeginTick, FanoutTypeOK, channels
  <2>2. CASE \E c \in TickCells : VisitCell(c)
    BY <2>2, <2>a, <2>b DEF VisitCell, Lowest, EgressRecords, FanoutTypeOK, channels
  <2>3. CASE \E c \in TickCells : Copy(c)
    BY <2>3, <2>a, <2>b DEF Copy, FanoutTypeOK, channels
  <2>4. CASE EndTick
    BY <2>4, <2>a, <2>b DEF EndTick, FanoutTypeOK, channels
  <2>5. CASE Filter
    BY <2>5, <2>a, <2>b, <2>c DEF Filter, FanoutTypeOK, channels
  <2>6. CASE EndBatch
    BY <2>6, <2>a, <2>b DEF EndBatch, FanoutTypeOK, channels
  <2>7. CASE GetChannel
    BY <2>7, <2>a, <2>b, <2>c DEF GetChannel, FanoutTypeOK, channels
  <2>8. CASE SendPanics
    BY <2>8, <2>a, <2>b DEF SendPanics, FanoutTypeOK, channels, ticker
  <2>9. CASE SendQueued
    <3>1. Head(batch) \in Subs /\ Tail(batch) \in Seq(Subs)
      BY <2>9, <2>a, <2>c DEF SendQueued, FanoutTypeOK
    <3>2. qlen' \in [Subs -> 0 .. ChanCap]
      BY <2>9, <2>a, <3>1, FanoutAssumption DEF SendQueued, Room, FanoutTypeOK
    <3>3. QED  BY <2>9, <2>a, <2>b, <3>1, <3>2 DEF SendQueued, Served, FanoutTypeOK
  <2>10. CASE SendDropped
    <3>1. Tail(batch) \in Seq(Subs)
      BY <2>10, <2>a, <2>c DEF SendDropped, FanoutTypeOK
    <3>2. droppedFrames' \in 0 .. MaxDropped
      BY <2>10, <2>a, FanoutAssumption DEF SendDropped, FanoutTypeOK
    <3>3. QED  BY <2>10, <2>a, <2>b, <3>1, <3>2 DEF SendDropped, Served, FanoutTypeOK
  <2>11. QED
    BY <2>1, <2>2, <2>3, <2>4, <2>5, <2>6, <2>7, <2>8, <2>9, <2>10 DEF TickStep
<1>2. TypeOK'
  BY <1>1, <1>a DEF TypeOK, connVars
<1>3. \A s \in Subs : qlen'[s] > 0 => chan[s] # "none"
  <2>a. \A s \in Subs : qlen[s] > 0 => chan[s] # "none"
    BY <1>a DEF Connections, Serving
  <2>1. CASE SendQueued
    <3>1. \A s \in Subs : qlen'[s] = qlen[s] \/ chan[s] = "open"
      BY <2>1, <1>a DEF SendQueued, TypeOK, FanoutTypeOK
    <3>2. QED  BY <2>a, <3>1
  <2>2. CASE ~SendQueued
    <3>1. qlen' = qlen
      BY <2>2 DEF BeginTick, TickStep, VisitCell, Copy, EndTick, Filter, EndBatch,
                  GetChannel, SendPanics, SendDropped, channels
    <3>2. QED  BY <2>a, <3>1
  <2>3. QED  BY <2>1, <2>2
<1>4. Connections'
  BY <1>3, <1>a, <1>b DEF Connections, Placed, Serving, connVars, table
<1>5. IndexMatchesTable'
  BY <1>a, <1>b DEF IndexMatchesTable, table
<1>6. QED  BY <1>2, <1>4, <1>5 DEF IInv

\* Follow and Unfollow only touch the maps of the subscriptions.
LEMMA ApplicationPreserves ==
  ASSUME IInv, Application
  PROVE  IInv'
<1>a. FanoutTypeOK /\ Nil \notin Entities
  BY TypesAssumption DEF IInv, TypeOK
<1>1. UNCHANGED <<member, cellIndex, channels, ticker, crashed, connVars>>
  BY DEF Application, Follow, Unfollow, EndWrite
<1>2. /\ following' \in [Subs -> (SUBSET Entities) \cup {NoMap}]
      /\ writing' \in [sub : Subs, set : SUBSET Entities] \cup {Nil}
  <2>1. ASSUME NEW s \in Followers, NEW e \in Entities, Follow(s, e)
        PROVE  <1>2!1 /\ <1>2!2
    <3>1. s \in Subs
      BY IdsAssumption
    <3>2. following'[s] \in SUBSET Entities /\ following' \in [Subs -> (SUBSET Entities) \cup {NoMap}]
      BY <1>a, <2>1, <3>1 DEF Follow, FanoutTypeOK
    <3>3. QED  BY <2>1, <3>1, <3>2 DEF Follow
  <2>2. ASSUME NEW s \in Followers, NEW e \in Entities, Unfollow(s, e)
        PROVE  <1>2!1 /\ <1>2!2
    BY <1>a, <2>2, IdsAssumption DEF Unfollow, FanoutTypeOK
  <2>3. CASE EndWrite
    <3>1. writing.sub \in Subs /\ writing.set \in SUBSET Entities
      BY <1>a, <2>3 DEF EndWrite, FanoutTypeOK
    <3>2. following' = [following EXCEPT ![writing.sub] = writing.set] /\ writing' = Nil
      BY <2>3 DEF EndWrite
    <3>3. following \in [Subs -> (SUBSET Entities) \cup {NoMap}]
      BY <1>a DEF FanoutTypeOK
    <3>4. QED  BY <3>1, <3>2, <3>3
  <2>4. QED  BY <2>1, <2>2, <2>3 DEF Application
<1>3. TypeOK'
  <2>1. FanoutTypeOK'
    BY <1>a, <1>1, <1>2 DEF FanoutTypeOK, channels, ticker
  <2>2. QED  BY <1>1, <2>1 DEF IInv, TypeOK, connVars
<1>4. Connections' /\ IndexMatchesTable'
  BY <1>1 DEF IInv, Connections, Placed, Serving, IndexMatchesTable, channels, connVars
<1>5. QED  BY <1>3, <1>4 DEF IInv

-----------------------------------------------------------------------------
(* Handlers, writers and clients. *)

\* A step of the handler of s moves that handler alone.
LEMMA HandlerMoves ==
  ASSUME TypeOK, NEW s \in Subs, NEW from, HandlerStep(s, from)
  PROVE  /\ handler[s] = from
         /\ \A t \in Subs : handler'[t] = IF t = s THEN Order[from] ELSE handler[t]
  BY DEF HandlerStep, TypeOK

HandlerSteps == {"none", "subscribe", "create", "spawn", "reading", "leave",
                 "unsubscribe", "remove", "close"}

LEMMA HandlerTypes ==
  ASSUME TypeOK, NEW s \in Subs, NEW from \in HandlerSteps, HandlerStep(s, from)
  PROVE  handler' \in [Subs -> {"none", "subscribe", "create", "spawn", "reading",
                           "leave", "unsubscribe", "remove", "close", "done"}]
  BY DEF HandlerStep, TypeOK, HandlerSteps, Order, Steps

\* Steps that leave everything the tick and the table own alone.
LEMMA AcceptPreserves ==
  ASSUME IInv, NEW s \in Subs, Accept(s)
  PROVE  IInv'
<1>1. /\ handler[s] = "none"
      /\ \A t \in Subs : handler'[t] = IF t = s THEN "subscribe" ELSE handler[t]
  BY HandlerMoves DEF Accept, IInv, Order, Steps
<1>2. TypeOK'
  <2>1. FanoutTypeOK'
    BY DEF Accept, IInv, TypeOK, fanoutVars, table, channels, ticker, FanoutTypeOK
  <2>2. subID' \in 0 .. Cardinality(Subs)
    <3>1. s \in 1 .. Cardinality(Subs) /\ Cardinality(Subs) \in Nat
      BY IdsAssumption, FS_CardinalityType
    <3>2. QED  BY <3>1 DEF Accept
  <2>3. HandlerStep(s, "none") /\ "none" \in HandlerSteps
    BY DEF Accept, HandlerSteps
  <2>4. /\ conns' \subseteq Subs
        /\ sock' \in [Subs -> {"none", "up", "stalled", "fin", "gone", "closed"}]
        /\ writer' = writer
    BY DEF Accept, IInv, TypeOK
  <2>5. QED  BY <2>1, <2>2, <2>3, <2>4, HandlerTypes DEF IInv, TypeOK
<1>3. \A t \in Subs : sock'[t] = (IF t = s THEN "up" ELSE sock[t]) /\ writer'[t] = writer[t]
  BY DEF Accept, IInv, TypeOK
<1>4. conns' = conns \cup {s} /\ UNCHANGED <<member, chan, qlen, cellIndex>>
  BY DEF Accept, fanoutVars, table, channels
<1>5. Connections' /\ IndexMatchesTable'
  BY <1>1, <1>3, <1>4 DEF IInv, Connections, Placed, Serving, IndexMatchesTable
<1>6. QED  BY <1>2, <1>5 DEF IInv

LEMMA SubscribePreserves ==
  ASSUME IInv, NEW s \in Subs, HandlerSubscribe(s)
  PROVE  IInv'
<1>1. /\ handler[s] = "subscribe"
      /\ \A t \in Subs : handler'[t] = IF t = s THEN "create" ELSE handler[t]
  BY HandlerMoves DEF HandlerSubscribe, IInv, Order, Steps
<1>2. s \notin member /\ chan[s] = "none"
  BY <1>1 DEF IInv, Connections, Placed
<1>3. IndexMatchesTable' /\ cellIndex' \in [TickCells -> Seq(Subs)]
  BY <1>2, SubscribeIndex DEF HandlerSubscribe, IInv
<1>4. TypeOK'
  BY <1>3, HandlerTypes
  DEF HandlerSubscribe, Subscribe, IInv, TypeOK, HandlerSteps, channels, ticker, FanoutTypeOK
<1>5. member' = member \cup {s} /\ UNCHANGED <<chan, qlen, conns, writer, sock>>
  BY DEF HandlerSubscribe, Subscribe, channels
<1>6. Connections'
  BY <1>1, <1>2, <1>5 DEF IInv, Connections, Placed, Serving
<1>7. QED  BY <1>3, <1>4, <1>6 DEF IInv

LEMMA UnsubscribePreserves ==
  ASSUME IInv, NEW s \in Subs, HandlerUnsubscribe(s)
  PROVE  IInv'
<1>1. /\ handler[s] = "unsubscribe"
      /\ \A t \in Subs : handler'[t] = IF t = s THEN "remove" ELSE handler[t]
  BY HandlerMoves DEF HandlerUnsubscribe, IInv, Order, Steps
<1>2. IndexMatchesTable' /\ cellIndex' \in [TickCells -> Seq(Subs)]
  BY UnsubscribeIndex DEF HandlerUnsubscribe, IInv
<1>3. TypeOK'
  BY <1>2, HandlerTypes
  DEF HandlerUnsubscribe, Unsubscribe, IInv, TypeOK, HandlerSteps, channels, ticker, FanoutTypeOK
<1>4. member' = member \ {s} /\ UNCHANGED <<chan, qlen, conns, writer, sock>>
  BY DEF HandlerUnsubscribe, Unsubscribe, channels
<1>5. Connections'
  BY <1>1, <1>4 DEF IInv, Connections, Placed, Serving
<1>6. QED  BY <1>2, <1>3, <1>5 DEF IInv

\* Making and removing the channel.
LEMMA ChannelPreserves ==
  ASSUME IInv, NEW s \in Subs, HandlerCreate(s) \/ HandlerRemove(s)
  PROVE  IInv'
<1>1. \/ /\ handler[s] = "create"
         /\ \A t \in Subs : handler'[t] = IF t = s THEN "spawn" ELSE handler[t]
         /\ \A t \in Subs : chan'[t] = IF t = s THEN "open" ELSE chan[t]
      \/ /\ handler[s] = "remove"
         /\ \A t \in Subs : handler'[t] = IF t = s THEN "close" ELSE handler[t]
         /\ \A t \in Subs : chan'[t] = IF t = s THEN "closed" ELSE chan[t]
  BY HandlerMoves
  DEF HandlerCreate, HandlerRemove, Create, Remove, IInv, TypeOK, FanoutTypeOK, Order, Steps
<1>2. TypeOK'
  BY HandlerTypes
  DEF HandlerCreate, HandlerRemove, Create, Remove, IInv, TypeOK, HandlerSteps, table, ticker,
      FanoutTypeOK
<1>3. UNCHANGED <<member, cellIndex, qlen, conns, writer, sock>>
  BY DEF HandlerCreate, HandlerRemove, Create, Remove, table
<1>4. Connections' /\ IndexMatchesTable'
  BY <1>1, <1>3 DEF IInv, Connections, Placed, Serving, IndexMatchesTable
<1>5. QED  BY <1>2, <1>4 DEF IInv

\* Steps of the handler outside fanout.
LEMMA HandlerPreserves ==
  ASSUME IInv, NEW s \in Subs,
         SpawnWriter(s) \/ ReadError(s) \/ Leave(s) \/ HandlerClose(s)
  PROVE  IInv'
<1>1. UNCHANGED fanoutVars
  BY DEF SpawnWriter, ReadError, Leave, HandlerClose
<1>2. TypeOK'
  BY <1>1, HandlerTypes
  DEF SpawnWriter, ReadError, Leave, HandlerClose, IInv, TypeOK, HandlerSteps, fanoutVars, table,
      channels, ticker, FanoutTypeOK
<1>3. IndexMatchesTable'
  BY <1>1 DEF IInv, IndexMatchesTable, fanoutVars, table
<1>4. CASE SpawnWriter(s)
  <2>1. /\ handler[s] = "spawn"
        /\ \A t \in Subs : handler'[t] = IF t = s THEN "reading" ELSE handler[t]
        /\ \A t \in Subs : writer'[t] = IF t = s THEN "get" ELSE writer[t]
        /\ UNCHANGED <<conns, sock>>
    BY <1>4, HandlerMoves DEF SpawnWriter, IInv, TypeOK, Order, Steps
  <2>2. QED
    BY <1>1, <1>2, <1>3, <2>1 DEF IInv, Connections, Placed, Serving, fanoutVars, table, channels
<1>5. CASE ReadError(s)
  <2>1. /\ handler[s] = "reading"
        /\ \A t \in Subs : handler'[t] = IF t = s THEN "leave" ELSE handler[t]
        /\ UNCHANGED <<conns, sock, writer>>
    BY <1>5, HandlerMoves DEF ReadError, IInv, TypeOK, Order, Steps
  <2>2. QED
    BY <1>1, <1>2, <1>3, <2>1 DEF IInv, Connections, Placed, Serving, fanoutVars, table, channels
<1>6. CASE Leave(s)
  <2>1. /\ handler[s] = "leave"
        /\ \A t \in Subs : handler'[t] = IF t = s THEN "unsubscribe" ELSE handler[t]
        /\ conns' = conns \ {s} /\ UNCHANGED <<sock, writer>>
    BY <1>6, HandlerMoves DEF Leave, IInv, TypeOK, Order, Steps
  <2>2. QED
    BY <1>1, <1>2, <1>3, <2>1 DEF IInv, Connections, Placed, Serving, fanoutVars, table, channels
<1>7. CASE HandlerClose(s)
  <2>1. /\ handler[s] = "close"
        /\ \A t \in Subs : handler'[t] = IF t = s THEN "done" ELSE handler[t]
        /\ \A t \in Subs : sock'[t] = IF t = s THEN "closed" ELSE sock[t]
        /\ UNCHANGED <<conns, writer>>
    BY <1>7, HandlerMoves DEF HandlerClose, IInv, TypeOK, Order, Steps
  <2>2. QED
    BY <1>1, <1>2, <1>3, <2>1 DEF IInv, Connections, Placed, Serving, fanoutVars, table, channels
<1>8. QED  BY <1>4, <1>5, <1>6, <1>7

LEMMA WritePreserves ==
  ASSUME IInv, NEW s \in Subs, Write(s)
  PROVE  IInv'
<1>1. UNCHANGED <<table, chan, droppedFrames, ticker, crashed, subID, conns, handler>>
  BY DEF Write, WriterGet, WriteFrame, WriteFails, ChannelClosed, ExitWriter, fanoutVars,
         channels, connVars
<1>2. /\ qlen' \in [Subs -> 0 .. ChanCap]
      /\ \A t \in Subs : qlen'[t] > 0 => qlen[t] > 0
  <2>1. CASE UNCHANGED qlen
    BY <2>1 DEF IInv, TypeOK, FanoutTypeOK
  <2>2. CASE qlen[s] > 0 /\ qlen' = [qlen EXCEPT ![s] = @ - 1]
    BY <2>2, FanoutAssumption DEF IInv, TypeOK, FanoutTypeOK
  <2>3. QED
    BY <2>1, <2>2 DEF Write, WriterGet, WriteFrame, WriteFails, ChannelClosed, fanoutVars, channels
<1>3. /\ writer' \in [Subs -> {"none", "get", "loop", "exited"}]
      /\ sock' \in [Subs -> {"none", "up", "stalled", "fin", "gone", "closed"}]
  BY DEF Write, WriterGet, WriteFrame, WriteFails, ChannelClosed, ExitWriter, DeferClose,
         connVars, IInv, TypeOK
<1>4. TypeOK'
  BY <1>1, <1>2, <1>3 DEF IInv, TypeOK, FanoutTypeOK, table, ticker
<1>5. \A t \in Subs :
        /\ t # s => writer'[t] = writer[t] /\ sock'[t] = sock[t]
        /\ sock[t] = "closed" => sock'[t] = "closed"
        /\ writer'[t] = "none" <=> writer[t] = "none"
  BY DEF Write, WriterGet, WriteFrame, WriteFails, ChannelClosed, ExitWriter, DeferClose,
         connVars, IInv, TypeOK
<1>6. writer'[s] = "exited" => sock'[s] = "closed" \/ handler[s] = "close"
  <2>1. CASE WriterGet(s) /\ chan[s] # "open"
    <3>1. handler[s] \in {"close", "done"}
      BY <2>1 DEF WriterGet, IInv, TypeOK, Connections, Placed, Serving
    <3>2. handler[s] = "done" => sock'[s] = "closed"
      BY <1>5 DEF IInv, Connections, Placed
    <3>3. QED  BY <3>1, <3>2
  <2>2. CASE WriterGet(s) /\ chan[s] = "open"
    BY <2>2 DEF WriterGet, IInv, TypeOK
  <2>3. CASE WriteFrame(s)
    BY <2>3 DEF WriteFrame, connVars
  <2>4. CASE WriteFails(s) \/ ChannelClosed(s)
    BY <2>4 DEF WriteFails, ChannelClosed, ExitWriter, DeferClose, IInv, TypeOK
  <2>5. QED  BY <2>1, <2>2, <2>3, <2>4 DEF Write
<1>7. \A t \in Subs : Placed(t)'
  BY <1>1, <1>5 DEF IInv, Connections, Placed, table
<1>8. \A t \in Subs : Serving(t)'
  BY <1>1, <1>2, <1>5, <1>6 DEF IInv, Connections, Serving
<1>9. IndexMatchesTable'
  BY <1>1 DEF IInv, IndexMatchesTable, table
<1>10. QED  BY <1>4, <1>7, <1>8, <1>9 DEF IInv, Connections

LEMMA ClientPreserves ==
  ASSUME IInv, NEW s \in Subs, Client(s)
  PROVE  IInv'
<1>1. UNCHANGED <<fanoutVars, subID, conns, handler, writer>>
  BY DEF Client
<1>2. /\ sock' \in [Subs -> {"none", "up", "stalled", "fin", "gone", "closed"}]
      /\ \A t \in Subs : sock[t] = "closed" => sock'[t] = "closed"
  BY DEF Client, IInv, TypeOK
<1>3. TypeOK'
  BY <1>1, <1>2 DEF IInv, TypeOK, FanoutTypeOK, fanoutVars, table, channels, ticker
<1>4. Connections' /\ IndexMatchesTable'
  BY <1>1, <1>2 DEF IInv, Connections, Placed, Serving, IndexMatchesTable, fanoutVars, table, channels
<1>5. QED  BY <1>3, <1>4 DEF IInv

-----------------------------------------------------------------------------
LEMMA Invariant == Spec => []IInv
<1>1. Init => IInv
  <2> SUFFICES ASSUME Init PROVE IInv
    OBVIOUS
  <2>1. FanoutTypeOK
    BY FanoutAssumption DEF Init, FanoutInit, FanoutTypeOK
  <2>2. TypeOK
    <3>1. 0 \in 0 .. Cardinality(Subs)
      BY IdsAssumption, FS_CardinalityType
    <3>2. QED  BY <2>1, <3>1 DEF Init, TypeOK
  <2>3. Connections
    BY DEF Init, FanoutInit, Connections, Placed, Serving
  <2>4. IndexMatchesTable
    <3>1. \A c \in TickCells : 1 .. Len(cellIndex[c]) = {}
      BY DEF Init, FanoutInit
    <3>2. member = {}
      BY DEF Init, FanoutInit
    <3>3. QED  BY <3>1, <3>2 DEF IndexMatchesTable
  <2>5. QED  BY <2>2, <2>3, <2>4 DEF IInv
<1>2. IInv /\ [Next]_vars => IInv'
  <2> SUFFICES ASSUME IInv, [Next]_vars PROVE IInv'
    OBVIOUS
  <2>1. ASSUME NEW s \in Subs, Accept(s) \/ Handle(s) \/ Write(s) \/ Client(s)
        PROVE  IInv'
    BY <2>1, AcceptPreserves, SubscribePreserves, UnsubscribePreserves, ChannelPreserves,
       HandlerPreserves, WritePreserves, ClientPreserves DEF Handle
  <2>2. CASE Application
    BY <2>2, ApplicationPreserves
  <2>3. CASE Tick
    BY <2>3, TickPreserves DEF Tick
  <2>4. CASE UNCHANGED vars
    BY <2>4 DEF vars, fanoutVars, connVars, table, channels, ticker, IInv, TypeOK, FanoutTypeOK,
                Connections, Placed, Serving, IndexMatchesTable
  <2>5. QED  BY <2>1, <2>2, <2>3, <2>4 DEF Next, Dead
<1>3. QED  BY <1>1, <1>2, PTL DEF Spec

\* The types, and that no channel holds more frames than its capacity
\* (pkg/fanout/engine.go:132).
THEOREM TypeCorrect == Spec => []TypeOK
<1>1. IInv => TypeOK  BY DEF IInv
<1>2. QED  BY <1>1, Invariant, PTL

\* Broadcast never finds an id without a subscription in the cell index
\* (fanout/engine.go:107), and finds every subscriber of the cell once.
THEOREM IndexMatchesTableHolds == Spec => []IndexMatchesTable
<1>1. IInv => IndexMatchesTable  BY DEF IInv
<1>2. QED  BY <1>1, Invariant, PTL

\* A channel is open only while its id may be found, and closed only after.
THEOREM ChannelLifetimeHolds == Spec => []ChannelLifetime
<1>1. IInv => ChannelLifetime
  BY DEF IInv, TypeOK, Connections, Placed, Serving, ChannelLifetime
<1>2. QED  BY <1>1, Invariant, PTL

\* A connected client has a subscription, an open channel, and until a write
\* fails a writer, whenever that is scheduled (ws.go:133-158, 170-178).
THEOREM ServedWhileUpHolds == Spec => []ServedWhileUp
<1>1. IInv => ServedWhileUp
  BY DEF IInv, TypeOK, Connections, Placed, Serving, ServedWhileUp
<1>2. QED  BY <1>1, Invariant, PTL

\* A handler that is done has left nothing behind (ws.go:152).
THEOREM ReleasedWhenDoneHolds == Spec => []ReleasedWhenDone
<1>1. IInv => ReleasedWhenDone
  BY DEF IInv, Connections, Placed, ReleasedWhenDone
<1>2. QED  BY <1>1, Invariant, PTL

\* If the application never calls Follow, no map is read while it is written:
\* Follow is the only writer of Following (subscription.go:20, ws.go:118).
THEOREM NoRaceWithoutFollow ==
  ASSUME Followers = {}
  PROVE  Spec => []NoConcurrentMapAccess
<1> DEFINE Unwritten == writing = Nil /\ crashed # "mapRace"
<1>1. Init => Unwritten
  BY DEF Init, FanoutInit
<1>2. Unwritten /\ [Next]_vars => Unwritten'
  <2> SUFFICES ASSUME Unwritten, [Next]_vars PROVE Unwritten'
    OBVIOUS
  <2>1. ASSUME NEW s \in Subs, Accept(s) PROVE Unwritten'
    BY <2>1 DEF Accept, fanoutVars, table
  <2>2. ASSUME NEW s \in Subs, Handle(s) PROVE Unwritten'
    BY <2>2 DEF Handle, HandlerSubscribe, HandlerCreate, SpawnWriter, ReadError, Leave,
                HandlerUnsubscribe, HandlerRemove, HandlerClose, Subscribe, Create,
                Unsubscribe, Remove, fanoutVars, table
  <2>3. ASSUME NEW s \in Subs, Write(s) PROVE Unwritten'
    BY <2>3 DEF Write, WriterGet, WriteFrame, WriteFails, ChannelClosed, ExitWriter,
                fanoutVars, table
  <2>4. ASSUME NEW s \in Subs, Client(s) PROVE Unwritten'
    BY <2>4 DEF Client, fanoutVars, table
  <2>5. CASE Application
    BY <2>5 DEF Application, EndWrite
  <2>6. CASE Tick
    BY <2>6 DEF Tick, BeginTick, TickStep, VisitCell, Copy, EndTick, Filter, EndBatch,
                GetChannel, SendPanics, SendQueued, SendDropped, table
  <2>7. CASE UNCHANGED vars
    BY <2>7 DEF vars, fanoutVars, table
  <2>8. QED  BY <2>1, <2>2, <2>3, <2>4, <2>5, <2>6, <2>7 DEF Next, Dead
<1>3. Unwritten => NoConcurrentMapAccess
  BY DEF NoConcurrentMapAccess
<1>4. QED  BY <1>1, <1>2, <1>3, PTL DEF Spec

\* The tick panics only on a connection whose handler has removed its channel
\* after the tick looked it up, never on one that is still being served
\* (fanout/engine.go:131-138).
THEOREM PanicOnlyAfterRemoval ==
  Spec => [][crashed' = "sendOnClosed" /\ crashed # "sendOnClosed" =>
               handler[Head(batch)] \in {"close", "done"}]_vars
<1>1. IInv /\ [Next]_vars =>
        (crashed' = "sendOnClosed" /\ crashed # "sendOnClosed" =>
           handler[Head(batch)] \in {"close", "done"})
  <2> SUFFICES ASSUME IInv, [Next]_vars, crashed' = "sendOnClosed", crashed # "sendOnClosed"
               PROVE  handler[Head(batch)] \in {"close", "done"}
    OBVIOUS
  <2>1. SendPanics
    <3>1. ASSUME NEW s \in Subs, Accept(s) \/ Handle(s) \/ Write(s) \/ Client(s)
          PROVE  crashed' = crashed
      BY <3>1 DEF Accept, Handle, HandlerSubscribe, HandlerCreate, SpawnWriter, ReadError,
                  Leave, HandlerUnsubscribe, HandlerRemove, HandlerClose, Subscribe, Create,
                  Unsubscribe, Remove, Write, WriterGet, WriteFrame, WriteFails,
                  ChannelClosed, ExitWriter, Client, fanoutVars
    <3>2. Application => crashed' = crashed
      BY DEF Application, Follow, Unfollow, EndWrite
    <3>3. Tick => SendPanics
      BY DEF Tick, BeginTick, TickStep, VisitCell, Copy, EndTick, Filter, EndBatch,
             GetChannel, SendQueued, SendDropped
    <3>4. UNCHANGED vars => crashed' = crashed
      BY DEF vars, fanoutVars
    <3>5. QED  BY <3>1, <3>2, <3>3, <3>4 DEF Next, Dead
  <2>2. Head(batch) \in Subs /\ chan[Head(batch)] = "closed"
    BY <2>1 DEF SendPanics, IInv, TypeOK, FanoutTypeOK
  <2>3. Placed(Head(batch)) /\ TypeOK
    BY <2>2 DEF IInv, Connections
  <2>4. QED  BY <2>2, <2>3 DEF Placed, TypeOK
<1>2. QED  BY <1>1, Invariant, PTL DEF Spec
=============================================================================
