--------------------------- MODULE Delivery_proofs ---------------------------
(***************************************************************************)
(* Proofs about Delivery, for any entities, cells, subscribers, channel    *)
(* size and number of positions.                                           *)
(***************************************************************************)
EXTENDS Delivery, SequenceTheorems, TLAPS

\* An entry is the latest position of its entity, where that lies.
EntriesCurrent ==
  \A c \in TickCells, e \in Entities : shards[c][e] # 0 =>
    shards[c][e] = version[e] /\ at[e] = c /\ target[e] = Nil

ShownPast == \A s \in Subs, e \in Entities : shown[s][e] <= version[e]

\* A frame waiting for s is no older than what s shows.
QueuedBetween ==
  \A s \in Subs : \A i \in 1 .. Len(queue[s]) : \A e \in Entities :
    queue[s][i][e] # 0 => shown[s][e] <= queue[s][i][e] /\ queue[s][i][e] <= version[e]

QueueSorted ==
  \A s \in Subs : \A i, j \in 1 .. Len(queue[s]) : \A e \in Entities :
    (i < j /\ queue[s][j][e] # 0) => queue[s][i][e] <= queue[s][j][e]

\* What the tick has copied is no older than anything it sent before.
RecordsNewest ==
  \A e \in Entities : records[e] # 0 =>
    /\ records[e] <= version[e]
    /\ \A s \in Subs : shown[s][e] <= records[e]
    /\ \A s \in Subs : \A i \in 1 .. Len(queue[s]) : queue[s][i][e] <= records[e]

Ordered == EntriesCurrent /\ ShownPast /\ QueuedBetween /\ QueueSorted /\ RecordsNewest

IInv == TypeOK /\ Ordered

LEMMA ZeroIsVersions == Nothing \in Versions
  BY DEF Nothing, Versions

-----------------------------------------------------------------------------
(* Types. *)

LEMMA InitType == Init => TypeOK
<1> SUFFICES ASSUME Init PROVE TypeOK
  OBVIOUS
<1>1. \A s \in Subs : queue[s] = <<>>
  BY DEF Init
<1>2. queue \in [Subs -> Seq(Versions)] /\ \A s \in Subs : Len(queue[s]) <= ChanCap
  <2>1. <<>> \in Seq(Versions) /\ Len(<<>>) = 0
    OBVIOUS
  <2>2. QED  BY <1>1, <2>1, DeliveryAssumption DEF Init
<1>3. QED  BY <1>2, ZeroIsVersions DEF Init, TypeOK

LEMMA StoreType ==
  ASSUME TypeOK, NEW e \in Entities, NEW c \in TickCells, Store(e, c)
  PROVE  TypeOK'
<1>1. shards' \in [TickCells -> Versions] /\ version' \in Versions
  BY DEF Store, Write, TypeOK, Versions
<1>2. at' \in [Entities -> TickCells \cup {Nil}] /\ target' \in [Entities -> TickCells \cup {Nil}]
  BY DEF Store, TypeOK
<1>3. QED  BY <1>1, <1>2 DEF Store, TypeOK, ticker

LEMMA LeaveType ==
  ASSUME TypeOK, NEW e \in Entities, NEW c \in TickCells, LeaveCell(e, c)
  PROVE  TypeOK'
<1>1. shards' \in [TickCells -> Versions]
  BY DEF LeaveCell, Erase, Write, TypeOK, Versions
<1>2. target' \in [Entities -> TickCells \cup {Nil}] /\ moved' \subseteq Entities
  BY DEF LeaveCell, TypeOK
<1>3. QED  BY <1>1, <1>2 DEF LeaveCell, TypeOK, ticker

LEMMA ServeType ==
  ASSUME TypeOK, NEW s \in Subs, Serve(s)
  PROVE  TypeOK'
<1>1. Frame(s) \in Versions
  BY DEF Frame, Versions, TypeOK
<1>2. queue' \in [Subs -> Seq(Versions)] /\ \A t \in Subs : Len(queue'[t]) <= ChanCap
  <2>1. CASE Frame(s) # Nothing /\ Room(s)
    <3>1. queue' = [queue EXCEPT ![s] = Append(queue[s], Frame(s))]
      BY <2>1 DEF Serve
    <3>2. queue[s] \in Seq(Versions) /\ Len(queue[s]) \in Nat
      BY DEF TypeOK
    <3>3. Append(queue[s], Frame(s)) \in Seq(Versions)
          /\ Len(Append(queue[s], Frame(s))) = Len(queue[s]) + 1
      BY <1>1, <3>2, AppendProperties
    <3>4. QED  BY <2>1, <3>1, <3>2, <3>3, DeliveryAssumption DEF TypeOK, Room
  <2>2. CASE ~(Frame(s) # Nothing /\ Room(s))
    BY <2>2 DEF Serve, TypeOK
  <2>3. QED  BY <2>1, <2>2
<1>3. framed' \in [Subs -> Versions]
  BY DEF Serve, TypeOK, Versions
<1>4. QED  BY <1>2, <1>3 DEF Serve, TypeOK, writers

LEMMA ReceiveType ==
  ASSUME TypeOK, NEW s \in Subs, Receive(s)
  PROVE  TypeOK'
<1>1. queue[s] \in Seq(Versions) /\ queue[s] # <<>>
  BY DEF TypeOK, Receive
<1>2. /\ Head(queue[s]) \in Versions /\ Tail(queue[s]) \in Seq(Versions)
      /\ Len(Tail(queue[s])) = Len(queue[s]) - 1 /\ Len(queue[s]) \in Nat
  BY <1>1, HeadTailProperties
<1>3. Overlay(shown[s], Head(queue[s])) \in Versions
  BY <1>2 DEF Overlay, Versions, TypeOK
<1>4. queue' \in [Subs -> Seq(Versions)] /\ shown' \in [Subs -> Versions]
  BY <1>2, <1>3 DEF Receive, TypeOK
<1>5. \A t \in Subs : Len(queue'[t]) <= ChanCap
  BY <1>2, DeliveryAssumption DEF Receive, TypeOK
<1>6. QED  BY <1>4, <1>5 DEF Receive, TypeOK, writers, ticker

\* The steps of the tick that make no frame.
ScanStep ==
  BeginTick \/ EndTick \/ BeginCell \/ CountStripe \/ EndCount \/ CopyStripe \/ EndCopy \/ EndCell

LEMMA ScanType ==
  ASSUME TypeOK, ScanStep
  PROVE  TypeOK'
<1>a. Stripes \subseteq 0 .. 15
  BY DeliveryAssumption DEF Stripes, Stripe
<1>b. Nil \notin TickCells
  BY DeliveryAssumption
<1>1. CASE BeginTick
  BY <1>1, ZeroIsVersions DEF BeginTick, TypeOK, writers
<1>2. CASE EndTick
  BY <1>2 DEF EndTick, TypeOK, writers
<1>3. CASE BeginCell
  BY <1>3, <1>a, <1>b DEF BeginCell, TypeOK, writers
<1>4. CASE CountStripe
  BY <1>4 DEF CountStripe, Counted, TypeOK, writers
<1>5. CASE EndCount
  BY <1>5, <1>a, ZeroIsVersions DEF EndCount, TypeOK, writers
<1>6. CASE CopyStripe
  <2>1. Shard \in Versions
    BY <1>6, <1>b DEF CopyStripe, Shard, TypeOK
  <2>2. records' \in Versions
    BY <1>6, <2>1 DEF CopyStripe, Versions, TypeOK
  <2>3. QED  BY <1>6, <2>2 DEF CopyStripe, TypeOK, writers
<1>7. CASE EndCopy
  BY <1>7 DEF EndCopy, Subscribers, TypeOK, writers
<1>8. CASE EndCell
  BY <1>8 DEF EndCell, TypeOK, writers
<1>9. QED  BY <1>1, <1>2, <1>3, <1>4, <1>5, <1>6, <1>7, <1>8 DEF ScanStep

-----------------------------------------------------------------------------
(* Order. *)

\* Positions move on: what was no newer than the last one still is not.
LEMMA StoreOrder ==
  ASSUME IInv, NEW e \in Entities, NEW c \in TickCells, Store(e, c),
         \A d \in TickCells : d # c => shards[d][e] = 0
  PROVE  Ordered'
<1>1. \A d \in Entities : version'[d] = (IF d = e THEN version[d] + 1 ELSE version[d])
                         /\ version[d] \in Nat
  BY DEF Store, IInv, TypeOK, Versions
<1>2. \A b \in TickCells, d \in Entities :
        shards'[b][d] = IF b = c /\ d = e THEN version[e] + 1 ELSE shards[b][d]
  BY DEF Store, Write, IInv, TypeOK, Versions
<1>3. \A d \in Entities : /\ at'[d] = (IF d = e THEN c ELSE at[d])
                         /\ target'[d] = (IF d = e THEN Nil ELSE target[d])
  BY DEF Store, IInv, TypeOK
<1>4. EntriesCurrent'
  BY <1>1, <1>2, <1>3 DEF EntriesCurrent, IInv, Ordered
<1>5. queue' = queue /\ shown' = shown /\ records' = records
  BY DEF Store, ticker
<1>6. \A s \in Subs, d \in Entities : shown[s][d] \in Nat
  BY DEF IInv, TypeOK, Versions
<1>7. \A s \in Subs : \A i \in 1 .. Len(queue[s]) : \A d \in Entities : queue[s][i][d] \in Nat
  BY DEF IInv, TypeOK, Versions
<1>8. \A d \in Entities : records[d] \in Nat
  BY DEF IInv, TypeOK, Versions
<1>9. ShownPast'
  BY <1>1, <1>5, <1>6 DEF ShownPast, IInv, Ordered
<1>10. QueuedBetween'
  BY <1>1, <1>5, <1>6, <1>7 DEF QueuedBetween, IInv, Ordered
<1>11. QueueSorted'
  BY <1>5 DEF QueueSorted, IInv, Ordered
<1>12. RecordsNewest'
  BY <1>1, <1>5, <1>8 DEF RecordsNewest, IInv, Ordered
<1>13. QED  BY <1>4, <1>9, <1>10, <1>11, <1>12 DEF Ordered

LEMMA PutOrder ==
  ASSUME IInv, NEW e \in Entities, NEW c \in TickCells, Put(e, c)
  PROVE  Ordered'
<1>1. \A d \in TickCells : d # c => shards[d][e] = 0
  BY DeliveryAssumption DEF Put, IInv, Ordered, EntriesCurrent
<1>2. QED  BY <1>1, StoreOrder DEF Put

LEMMA EnterOrder ==
  ASSUME IInv, NEW e \in Entities, EnterCell(e)
  PROVE  Ordered'
<1>1. \A d \in TickCells : shards[d][e] = 0
  BY DEF EnterCell, IInv, Ordered, EntriesCurrent
<1>2. target[e] \in TickCells
  BY DEF EnterCell, IInv, TypeOK
<1>3. QED  BY <1>1, <1>2, StoreOrder DEF EnterCell

LEMMA LeaveOrder ==
  ASSUME IInv, NEW e \in Entities, NEW c \in TickCells, LeaveCell(e, c)
  PROVE  Ordered'
<1>1. at[e] \in TickCells /\ UNCHANGED <<at, version, queue, shown, records>>
  BY DEF LeaveCell, IInv, TypeOK, ticker
<1>2. \A b \in TickCells, d \in Entities :
        shards'[b][d] = IF b = at[e] /\ d = e THEN 0 ELSE shards[b][d]
  BY <1>1 DEF LeaveCell, Erase, Write, IInv, TypeOK, Versions
<1>3. \A d \in Entities : d # e => target'[d] = target[d]
  BY DEF LeaveCell, IInv, TypeOK
<1>4. EntriesCurrent'
  BY <1>1, <1>2, <1>3 DEF EntriesCurrent, IInv, Ordered
<1>5. (ShownPast /\ QueuedBetween /\ QueueSorted /\ RecordsNewest)'
  BY <1>1 DEF ShownPast, QueuedBetween, QueueSorted, RecordsNewest, IInv, Ordered
<1>6. QED  BY <1>4, <1>5 DEF Ordered

LEMMA ScanOrder ==
  ASSUME IInv, ScanStep
  PROVE  Ordered'
<1>1. UNCHANGED <<writers, queue, shown>>
  BY DEF ScanStep, BeginTick, EndTick, BeginCell, CountStripe, EndCount, CopyStripe,
         EndCopy, EndCell
<1>2. (EntriesCurrent /\ ShownPast /\ QueuedBetween /\ QueueSorted)'
  BY <1>1 DEF writers, EntriesCurrent, ShownPast, QueuedBetween, QueueSorted, IInv, Ordered
<1>3. \A e \in Entities : records'[e] # 0 =>
        \/ records'[e] = records[e]
        \/ \E c \in TickCells : records'[e] = shards[c][e]
  <2>1. CASE CopyStripe
    <3>1. cell \in TickCells
      BY <2>1, DeliveryAssumption DEF CopyStripe, IInv, TypeOK
    <3>2. QED  BY <2>1, <3>1 DEF CopyStripe, Shard
  <2>2. CASE EndCount
    BY <2>2 DEF EndCount, Nothing
  <2>3. CASE ~CopyStripe /\ ~EndCount
    BY <2>3 DEF ScanStep, BeginTick, EndTick, BeginCell, CountStripe, EndCopy, EndCell
  <2>4. QED  BY <2>1, <2>2, <2>3
<1>4. RecordsNewest'
  <2> SUFFICES ASSUME NEW e \in Entities, records'[e] # 0
               PROVE  /\ records'[e] <= version[e]
                      /\ \A s \in Subs : shown[s][e] <= records'[e]
                      /\ \A s \in Subs : \A i \in 1 .. Len(queue[s]) :
                           queue[s][i][e] <= records'[e]
    BY <1>1 DEF RecordsNewest, writers
  <2>1. CASE records'[e] = records[e]
    BY <2>1 DEF RecordsNewest, IInv, Ordered
  <2>2. CASE \E c \in TickCells : records'[e] = shards[c][e]
    <3>1. records'[e] = version[e] /\ version[e] \in Nat
      BY <2>2 DEF EntriesCurrent, IInv, Ordered, TypeOK, Versions
    <3>2. \A s \in Subs : \A i \in 1 .. Len(queue[s]) : queue[s][i][e] \in Nat
      BY DEF IInv, TypeOK, Versions
    <3>3. \A s \in Subs : \A i \in 1 .. Len(queue[s]) : queue[s][i][e] <= version[e]
      BY <3>1, <3>2 DEF QueuedBetween, IInv, Ordered
    <3>4. QED  BY <3>1, <3>3 DEF ShownPast, IInv, Ordered
  <2>3. QED  BY <1>3, <2>1, <2>2
<1>5. QED  BY <1>2, <1>4 DEF Ordered

\* A frame goes to the end of a queue, behind older ones.
LEMMA ServeOrder ==
  ASSUME IInv, NEW s \in Subs, Serve(s)
  PROVE  Ordered'
<1>1. UNCHANGED <<writers, records, shown>>
  BY DEF Serve
<1>2. (EntriesCurrent /\ ShownPast)'
  BY <1>1 DEF writers, EntriesCurrent, ShownPast, IInv, Ordered
<1>3. CASE UNCHANGED queue
  BY <1>1, <1>2, <1>3 DEF writers, QueuedBetween, QueueSorted, RecordsNewest, IInv, Ordered
<1>4. CASE queue' = [queue EXCEPT ![s] = Append(@, Frame(s))]
  <2>1. Frame(s) \in Versions
    BY DEF Frame, Versions, IInv, TypeOK
  <2>2. queue[s] \in Seq(Versions) /\ Len(queue[s]) \in Nat
    BY DEF IInv, TypeOK
  <2>3. /\ Len(queue'[s]) = Len(queue[s]) + 1
        /\ \A i \in 1 .. Len(queue[s]) : queue'[s][i] = queue[s][i]
        /\ queue'[s][Len(queue[s]) + 1] = Frame(s)
        /\ \A t \in Subs \ {s} : queue'[t] = queue[t]
    BY <1>4, <2>1, <2>2, AppendProperties DEF IInv, TypeOK
  <2>4. \A e \in Entities : Frame(s)[e] \in {0, records[e]}
    BY DEF Frame
  <2>5. QueuedBetween'
    <3> SUFFICES ASSUME NEW t \in Subs, NEW i \in 1 .. Len(queue'[t]), NEW e \in Entities,
                        queue'[t][i][e] # 0
                 PROVE  shown[t][e] <= queue'[t][i][e] /\ queue'[t][i][e] <= version[e]
      BY <1>1 DEF QueuedBetween, writers
    <3>1. CASE t # s \/ i # Len(queue[s]) + 1
      <4>1. i \in 1 .. Len(queue[t]) /\ queue'[t][i] = queue[t][i]
        BY <2>2, <2>3, <3>1
      <4>2. QED  BY <4>1 DEF QueuedBetween, IInv, Ordered
    <3>2. CASE t = s /\ i = Len(queue[s]) + 1
      <4>1. queue'[t][i][e] = records[e] /\ records[e] # 0
        BY <2>3, <2>4, <3>2
      <4>2. QED  BY <3>2, <4>1 DEF RecordsNewest, IInv, Ordered
    <3>3. QED  BY <3>1, <3>2
  <2>6. QueueSorted'
    <3> SUFFICES ASSUME NEW t \in Subs, NEW i \in 1 .. Len(queue'[t]),
                        NEW j \in 1 .. Len(queue'[t]), NEW e \in Entities,
                        i < j, queue'[t][j][e] # 0
                 PROVE  queue'[t][i][e] <= queue'[t][j][e]
      BY DEF QueueSorted
    <3>1. CASE t # s \/ j # Len(queue[s]) + 1
      <4>1. i \in 1 .. Len(queue[t]) /\ queue'[t][i] = queue[t][i]
        BY <2>2, <2>3, <3>1
      <4>2. j \in 1 .. Len(queue[t]) /\ queue'[t][j] = queue[t][j]
        BY <2>2, <2>3, <3>1
      <4>3. QED  BY <4>1, <4>2 DEF QueueSorted, IInv, Ordered
    <3>2. CASE t = s /\ j = Len(queue[s]) + 1
      <4>1. i \in 1 .. Len(queue[s]) /\ queue'[t][i] = queue[s][i]
        BY <2>2, <2>3, <3>2
      <4>2. queue'[t][j][e] = records[e] /\ records[e] # 0
        BY <2>3, <2>4, <3>2
      <4>3. QED  BY <3>2, <4>1, <4>2 DEF RecordsNewest, IInv, Ordered
    <3>3. QED  BY <3>1, <3>2
  <2>7. RecordsNewest'
    <3> SUFFICES ASSUME NEW e \in Entities, records[e] # 0
                 PROVE  /\ records[e] <= version[e]
                        /\ \A t \in Subs : shown[t][e] <= records[e]
                        /\ \A t \in Subs : \A i \in 1 .. Len(queue'[t]) :
                             queue'[t][i][e] <= records[e]
      BY <1>1 DEF RecordsNewest, writers
    <3>1. records[e] \in Nat
      BY DEF IInv, TypeOK, Versions
    <3>2. ASSUME NEW t \in Subs, NEW i \in 1 .. Len(queue'[t])
          PROVE  queue'[t][i][e] <= records[e]
      <4>1. CASE t # s \/ i # Len(queue[s]) + 1
        BY <2>2, <2>3, <4>1 DEF RecordsNewest, IInv, Ordered
      <4>2. CASE t = s /\ i = Len(queue[s]) + 1
        BY <2>3, <2>4, <3>1, <4>2
      <4>3. QED  BY <4>1, <4>2
    <3>3. QED  BY <3>2 DEF RecordsNewest, IInv, Ordered
  <2>8. QED  BY <1>2, <2>5, <2>6, <2>7 DEF Ordered
<1>5. QED  BY <1>3, <1>4 DEF Serve

\* The oldest frame is taken, so what is left is no older than what is shown.
LEMMA ReceiveOrder ==
  ASSUME IInv, NEW s \in Subs, Receive(s)
  PROVE  /\ Ordered'
         /\ \A t \in Subs, e \in Entities :
              shown[t][e] <= shown'[t][e] /\ shown'[t][e] <= version[e]
<1>1. UNCHANGED <<writers, records>>
  BY DEF Receive, ticker
<1>2. queue[s] \in Seq(Versions) /\ queue[s] # <<>> /\ Len(queue[s]) \in Nat
  BY DEF Receive, IInv, TypeOK
<1>3. /\ Len(queue'[s]) = Len(queue[s]) - 1
      /\ \A i \in 1 .. Len(queue'[s]) : queue'[s][i] = queue[s][i + 1]
      /\ \A t \in Subs \ {s} : queue'[t] = queue[t]
  BY <1>2, HeadTailProperties DEF Receive, IInv, TypeOK
<1>4. Len(queue[s]) >= 1 /\ Head(queue[s]) = queue[s][1]
  BY <1>2
<1>5. \A t \in Subs, e \in Entities :
        shown'[t][e] = IF t = s /\ queue[s][1][e] # 0 THEN queue[s][1][e] ELSE shown[t][e]
  BY <1>4 DEF Receive, Overlay, IInv, TypeOK
<1>6. \A t \in Subs, e \in Entities :
        /\ shown[t][e] \in Nat
        /\ \A i \in 1 .. Len(queue[t]) : queue[t][i][e] \in Nat
  BY DEF IInv, TypeOK, Versions
<1>7. \A t \in Subs, e \in Entities :
        shown[t][e] <= shown'[t][e] /\ shown'[t][e] <= version[e]
  BY <1>2, <1>4, <1>5, <1>6 DEF ShownPast, QueuedBetween, IInv, Ordered
<1>8. (EntriesCurrent /\ ShownPast)'
  BY <1>1, <1>7 DEF writers, EntriesCurrent, ShownPast, IInv, Ordered
<1>9. QueuedBetween'
  <2> SUFFICES ASSUME NEW t \in Subs, NEW i \in 1 .. Len(queue'[t]), NEW e \in Entities,
                      queue'[t][i][e] # 0
               PROVE  shown'[t][e] <= queue'[t][i][e] /\ queue'[t][i][e] <= version[e]
    BY <1>1 DEF QueuedBetween, writers
  <2>1. CASE t # s
    BY <2>1, <1>3, <1>5 DEF QueuedBetween, IInv, Ordered
  <2>2. CASE t = s
    <3>1. i + 1 \in 1 .. Len(queue[s]) /\ 1 \in 1 .. Len(queue[s]) /\ 1 < i + 1
          /\ queue'[s][i] = queue[s][i + 1]
      BY <1>2, <1>3, <1>4, <2>2
    <3>2. queue[s][1][e] <= queue[s][i + 1][e]
      BY <2>2, <3>1 DEF QueueSorted, IInv, Ordered
    <3>3. QED  BY <1>5, <2>2, <3>1, <3>2 DEF QueuedBetween, IInv, Ordered
  <2>3. QED  BY <2>1, <2>2
<1>10. QueueSorted'
  <2> SUFFICES ASSUME NEW t \in Subs, NEW i \in 1 .. Len(queue'[t]),
                      NEW j \in 1 .. Len(queue'[t]), NEW e \in Entities,
                      i < j, queue'[t][j][e] # 0
               PROVE  queue'[t][i][e] <= queue'[t][j][e]
    BY DEF QueueSorted
  <2>1. CASE t # s
    BY <2>1, <1>3 DEF QueueSorted, IInv, Ordered
  <2>2. CASE t = s
    <3>1. /\ i + 1 \in 1 .. Len(queue[s]) /\ j + 1 \in 1 .. Len(queue[s]) /\ i + 1 < j + 1
          /\ queue'[s][i] = queue[s][i + 1] /\ queue'[s][j] = queue[s][j + 1]
      BY <1>2, <1>3, <2>2
    <3>2. QED  BY <2>2, <3>1 DEF QueueSorted, IInv, Ordered
  <2>3. QED  BY <2>1, <2>2
<1>11. RecordsNewest'
  <2> SUFFICES ASSUME NEW e \in Entities, records[e] # 0
               PROVE  /\ records[e] <= version[e]
                      /\ \A t \in Subs : shown'[t][e] <= records[e]
                      /\ \A t \in Subs : \A i \in 1 .. Len(queue'[t]) :
                           queue'[t][i][e] <= records[e]
    BY <1>1 DEF RecordsNewest, writers
  <2>1. /\ records[e] <= version[e]
        /\ \A t \in Subs : shown[t][e] <= records[e]
        /\ \A t \in Subs : \A i \in 1 .. Len(queue[t]) : queue[t][i][e] <= records[e]
    BY DEF RecordsNewest, IInv, Ordered
  <2>2. \A t \in Subs : shown'[t][e] <= records[e]
    BY <2>1, <1>2, <1>4, <1>5
  <2>3. ASSUME NEW t \in Subs, NEW i \in 1 .. Len(queue'[t])
        PROVE  queue'[t][i][e] <= records[e]
    <3>1. CASE t # s
      BY <2>1, <1>3, <3>1
    <3>2. CASE t = s
      <4>1. i + 1 \in 1 .. Len(queue[s]) /\ queue'[s][i] = queue[s][i + 1]
        BY <1>2, <1>3, <3>2
      <4>2. QED  BY <2>1, <3>2, <4>1
    <3>3. QED  BY <3>1, <3>2
  <2>4. QED  BY <2>1, <2>2, <2>3
<1>12. QED  BY <1>7, <1>8, <1>9, <1>10, <1>11 DEF Ordered

-----------------------------------------------------------------------------
LEMMA Invariant == Spec => []IInv
<1>1. Init => IInv
  <2> SUFFICES ASSUME Init PROVE Ordered
    BY InitType DEF IInv
  <2>1. \A s \in Subs : Len(queue[s]) = 0
    BY DEF Init
  <2>2. ShownPast
    <3>1. \A s \in Subs, e \in Entities : shown[s][e] = 0 /\ version[e] = 0
      BY DEF Init, Nothing
    <3>2. QED  BY <3>1 DEF ShownPast
  <2>3. EntriesCurrent /\ RecordsNewest
    <3>1. /\ \A c \in TickCells, e \in Entities : shards[c][e] = 0
          /\ \A e \in Entities : records[e] = 0
      BY DEF Init, Nothing
    <3>2. QED  BY <3>1 DEF EntriesCurrent, RecordsNewest
  <2>4. QueuedBetween /\ QueueSorted
    <3>1. \A s \in Subs : 1 .. Len(queue[s]) = {}
      BY <2>1
    <3>2. QED  BY <3>1 DEF QueuedBetween, QueueSorted
  <2>5. QED  BY <2>2, <2>3, <2>4 DEF Ordered
<1>2. IInv /\ [Next]_vars => IInv'
  <2> SUFFICES ASSUME IInv, [Next]_vars PROVE IInv'
    OBVIOUS
  <2>a. TypeOK
    BY DEF IInv
  <2>1. ASSUME NEW e \in Entities, NEW c \in TickCells, Put(e, c) PROVE IInv'
    BY <2>1, <2>a, PutOrder, StoreType DEF Put, IInv
  <2>2. ASSUME NEW e \in Entities, NEW c \in TickCells, LeaveCell(e, c) PROVE IInv'
    BY <2>2, <2>a, LeaveOrder, LeaveType DEF IInv
  <2>3. ASSUME NEW e \in Entities, EnterCell(e) PROVE IInv'
    <3>1. target[e] \in TickCells
      BY <2>3, <2>a DEF EnterCell, TypeOK
    <3>2. QED  BY <2>3, <2>a, <3>1, EnterOrder, StoreType DEF EnterCell, IInv
  <2>4. CASE ScanStep
    BY <2>4, <2>a, ScanOrder, ScanType DEF IInv
  <2>5. ASSUME NEW s \in Subs, Serve(s) PROVE IInv'
    BY <2>5, <2>a, ServeOrder, ServeType DEF IInv
  <2>6. ASSUME NEW s \in Subs, Receive(s) PROVE IInv'
    BY <2>6, <2>a, ReceiveOrder, ReceiveType DEF IInv
  <2>7. CASE UNCHANGED vars
    BY <2>7 DEF vars, writers, ticker, IInv, TypeOK, Ordered, EntriesCurrent, ShownPast,
                QueuedBetween, QueueSorted, RecordsNewest
  <2>8. QED
    BY <2>1, <2>2, <2>3, <2>4, <2>5, <2>6, <2>7 DEF Next, TickStep, ScanStep
<1>3. QED  BY <1>1, <1>2, PTL DEF Spec

\* The types, and that no channel ever holds more than its capacity.
THEOREM TypeCorrect == Spec => []TypeOK
<1>1. IInv => TypeOK  BY DEF IInv
<1>2. QED  BY <1>1, Invariant, PTL

\* No client is ever taken back to an older position of an entity: the whole
\* path from the grid's cells through the tick's scan, the frames and the
\* channel (grid.go:158, fanout/engine.go:98) implements PositionFeed.
THEOREM Refinement == Spec => FeedSpec
<1>1. Init => Feed!Init
  BY DEF Init, Feed!Init, Nothing
<1>2. IInv /\ [Next]_vars => [Feed!Next]_<<version, shown>>
  <2> SUFFICES ASSUME IInv, [Next]_vars
               PROVE  [Feed!Next]_<<version, shown>>
    OBVIOUS
  <2>1. ASSUME NEW e \in Entities, NEW c \in TickCells, Store(e, c)
        PROVE  Feed!Report(e)
    BY <2>1 DEF Store, Feed!Report
  <2>2. ASSUME NEW e \in Entities, NEW c \in TickCells, LeaveCell(e, c)
        PROVE  UNCHANGED <<version, shown>>
    BY <2>2 DEF LeaveCell
  <2>3. CASE ScanStep
    BY <2>3 DEF ScanStep, BeginTick, EndTick, BeginCell, CountStripe, EndCount, CopyStripe,
                EndCopy, EndCell, writers
  <2>4. ASSUME NEW s \in Subs, Serve(s)
        PROVE  UNCHANGED <<version, shown>>
    BY <2>4 DEF Serve, writers
  <2>5. ASSUME NEW s \in Subs, Receive(s)
        PROVE  Feed!Refresh(s)
    <3>1. \A t \in Subs \ {s} : shown'[t] = shown[t]
      BY <2>5 DEF Receive, IInv, TypeOK
    <3>2. QED  BY <2>5, <3>1, ReceiveOrder DEF Receive, writers, Feed!Refresh
  <2>6. ASSUME NEW e \in Entities, EnterCell(e)
        PROVE  Feed!Report(e)
    <3>1. target[e] \in TickCells
      BY <2>6 DEF EnterCell, IInv, TypeOK
    <3>2. QED  BY <2>1, <2>6, <3>1 DEF EnterCell
  <2>7. CASE UNCHANGED vars
    BY <2>7 DEF vars, writers
  <2>8. QED
    BY <2>1, <2>2, <2>3, <2>4, <2>5, <2>6, <2>7
    DEF Next, TickStep, ScanStep, Put, Feed!Next
<1>3. QED  BY <1>1, <1>2, Invariant, PTL DEF Spec, FeedSpec, Feed!Spec

-----------------------------------------------------------------------------
(* One frame for each entity at rest. The invariant follows one tick past  *)
(* such an entity: its cell is ahead, being counted, copied or served, or  *)
(* done with, and the frames made say which.                               *)

EntriesPresent ==
  \A e \in Entities : at[e] # Nil /\ target[e] = Nil => shards[at[e]][e] # 0

\* The tick has yet to serve s what lies in the cell of e.
Ahead(s, e) ==
  \/ at[e] \in cells
  \/ tick \in {"count", "copy"} /\ at[e] = cell
  \/ tick = "serve" /\ at[e] = cell /\ s \in batch

Resting(e) ==
  /\ target[e] = Nil
  /\ tick = "count" /\ at[e] = cell => Stripe(e) \in stripes \/ total
  /\ tick = "copy" => (records[e] # 0 <=> at[e] = cell /\ Stripe(e) \notin stripes)
  /\ tick = "serve" => (records[e] # 0 <=> at[e] = cell)
  /\ \A s \in Subs : framed[s][e] =
       IF at[e] \in CellsOf[s] /\ e \in Wanted[s] /\ ~Ahead(s, e) THEN 1 ELSE 0

FrameInv ==
  /\ EntriesPresent
  /\ tick \in {"count", "copy", "serve"} => cell \notin cells
  /\ tick = "serve" => batch \subseteq Subscribers(cell)
  /\ tick # "idle" => \A e \in Entities \ moved : Resting(e)

LEMMA EntryIff ==
  ASSUME IInv, EntriesPresent, NEW e \in Entities, target[e] = Nil, NEW c \in TickCells
  PROVE  shards[c][e] # 0 <=> at[e] = c
<1>1. Nil \notin TickCells
  BY DeliveryAssumption
<1>2. QED  BY <1>1 DEF EntriesPresent, IInv, Ordered, EntriesCurrent

\* A step that leaves an entity and the tick alone leaves it at rest.
LEMMA RestingKept ==
  ASSUME NEW e \in Entities, Resting(e), UNCHANGED <<ticker, framed>>,
         at'[e] = at[e], target'[e] = target[e]
  PROVE  Resting(e)'
<1>1. /\ tick' = tick /\ cells' = cells /\ cell' = cell /\ stripes' = stripes /\ total' = total
      /\ records' = records /\ batch' = batch /\ framed' = framed
  BY DEF ticker
<1>2. \A s \in Subs : Ahead(s, e)' <=> Ahead(s, e)
  BY <1>1 DEF Ahead
<1>3. QED  BY <1>1, <1>2 DEF Resting

\* A move takes its entity out of those at rest.
LEMMA WriteFrames ==
  ASSUME FrameInv, NEW e \in Entities, UNCHANGED <<ticker, framed>>,
         moved' = moved \cup {e}, EntriesPresent',
         \A d \in Entities \ {e} : at'[d] = at[d] /\ target'[d] = target[d]
  PROVE  FrameInv'
<1>1. tick' = tick /\ cells' = cells /\ cell' = cell /\ batch' = batch
  BY DEF ticker
<1>2. tick' # "idle" => \A d \in Entities \ moved' : Resting(d)'
  BY <1>1, RestingKept DEF FrameInv
<1>3. QED  BY <1>1, <1>2 DEF FrameInv, Subscribers

LEMMA StoreFrames ==
  ASSUME IInv, FrameInv, NEW e \in Entities, NEW c \in TickCells, Store(e, c)
  PROVE  FrameInv'
<1>1. /\ \A b \in TickCells, d \in Entities :
           shards'[b][d] = IF b = c /\ d = e THEN version[e] + 1 ELSE shards[b][d]
      /\ at'[e] = c
      /\ \A d \in Entities \ {e} : at'[d] = at[d] /\ target'[d] = target[d]
  BY DEF Store, Write, IInv, TypeOK, Versions
<1>2. version[e] + 1 # 0 /\ \A d \in Entities : at'[d] = Nil \/ at'[d] \in TickCells
  <2>1. version[e] \in Nat /\ \A d \in Entities : at[d] = Nil \/ at[d] \in TickCells
    BY DEF IInv, TypeOK, Versions
  <2>2. QED  BY <1>1, <2>1
<1>3. EntriesPresent'
  BY <1>1, <1>2 DEF EntriesPresent, FrameInv
<1>4. QED  BY <1>1, <1>3, WriteFrames DEF Store

LEMMA LeaveFrames ==
  ASSUME IInv, FrameInv, NEW e \in Entities, NEW c \in TickCells, LeaveCell(e, c)
  PROVE  FrameInv'
<1>1. at[e] \in TickCells /\ at' = at /\ target'[e] = c /\ c # Nil
  BY DeliveryAssumption DEF LeaveCell, IInv, TypeOK
<1>2. /\ \A b \in TickCells, d \in Entities :
           shards'[b][d] = IF b = at[e] /\ d = e THEN 0 ELSE shards[b][d]
      /\ \A d \in Entities \ {e} : target'[d] = target[d]
      /\ \A d \in Entities : at[d] = Nil \/ at[d] \in TickCells
  BY <1>1 DEF LeaveCell, Erase, Write, IInv, TypeOK, Versions
<1>3. EntriesPresent'
  BY <1>1, <1>2 DEF EntriesPresent, FrameInv
<1>4. QED  BY <1>1, <1>2, <1>3, WriteFrames DEF LeaveCell

LEMMA PresentKept ==
  ASSUME EntriesPresent, UNCHANGED writers
  PROVE  EntriesPresent'
  BY DEF EntriesPresent, writers

\* A tick starts with the entities that are not in the middle of a move.
LEMMA BeginTickFrames ==
  ASSUME IInv, FrameInv, BeginTick
  PROVE  FrameInv'
<1>1. /\ tick' = "cell" /\ UNCHANGED writers
      /\ cells' = { c \in TickCells : Subscribers(c) # {} }
      /\ moved' = { e \in Entities : target[e] # Nil } /\ framed' = [s \in Subs |-> Nothing]
  BY DEF BeginTick
<1>2. ASSUME NEW e \in Entities, target[e] = Nil
      PROVE  Resting(e)'
  <2>1. \A s \in Subs : framed'[s][e] = 0
    BY <1>1 DEF Nothing
  <2>2. ASSUME NEW s \in Subs, at[e] \in CellsOf[s]
        PROVE  at[e] \in cells'
    <3>1. at[e] \in TickCells /\ s \in Subscribers(at[e])
      BY <2>2, DeliveryAssumption DEF Subscribers
    <3>2. QED  BY <1>1, <3>1
  <2>3. at' = at /\ target' = target
    BY <1>1 DEF writers
  <2>4. QED  BY <1>1, <1>2, <2>1, <2>2, <2>3 DEF Resting, Ahead
<1>3. QED  BY <1>1, <1>2, PresentKept DEF FrameInv

\* The steps of a tick leave the cells' entries and the movers alone.
LEMMA BeginCellFrames ==
  ASSUME IInv, FrameInv, BeginCell
  PROVE  FrameInv'
<1>1. /\ tick = "cell" /\ tick' = "count" /\ UNCHANGED <<writers, moved, framed>>
      /\ cell' \in cells /\ cells' = cells \ {cell'} /\ stripes' = Stripes
  BY DEF BeginCell
<1>2. ASSUME NEW e \in Entities \ moved
      PROVE  Resting(e)'
  <2>1. Resting(e) /\ Stripe(e) \in stripes' /\ at' = at /\ target' = target
    BY <1>1 DEF FrameInv, Stripes, writers
  <2>2. \A s \in Subs : Ahead(s, e)' <=> Ahead(s, e)
    BY <1>1, <2>1 DEF Ahead
  <2>3. QED  BY <1>1, <2>1, <2>2 DEF Resting
<1>3. QED  BY <1>1, <1>2, PresentKept DEF FrameInv

LEMMA CountStripeFrames ==
  ASSUME IInv, FrameInv, CountStripe
  PROVE  FrameInv'
<1>1. /\ tick = "count" /\ tick' = "count" /\ UNCHANGED <<writers, moved, framed, cells, cell>>
      /\ stripes' = stripes \ {Min(stripes)} /\ total' = Counted
  BY DEF CountStripe
<1>2. ASSUME NEW e \in Entities \ moved
      PROVE  Resting(e)'
  <2>1. Resting(e) /\ at' = at /\ target' = target
    BY <1>1 DEF FrameInv, writers
  <2>2. \A s \in Subs : Ahead(s, e)' <=> Ahead(s, e)
    BY <1>1, <2>1 DEF Ahead
  <2>3. ASSUME at[e] = cell PROVE Stripe(e) \in stripes' \/ total'
    <3>1. CASE Stripe(e) = Min(stripes)
      <4>1. cell \in TickCells /\ target[e] = Nil
        BY <1>1, <2>1 DEF IInv, TypeOK, Resting
      <4>2. Shard[e] # 0
        BY <2>3, <4>1, EntryIff DEF FrameInv, Shard
      <4>3. QED  BY <1>1, <3>1, <4>2 DEF Counted, InStripe
    <3>2. CASE Stripe(e) # Min(stripes)
      BY <1>1, <2>1, <2>3, <3>2 DEF Resting, Counted
    <3>3. QED  BY <3>1, <3>2
  <2>4. QED  BY <1>1, <2>1, <2>2, <2>3 DEF Resting
<1>3. QED  BY <1>1, <1>2, PresentKept DEF FrameInv

\* A cell passed over because nothing was counted holds nobody at rest.
LEMMA EndCountFrames ==
  ASSUME IInv, FrameInv, EndCount
  PROVE  FrameInv'
<1>1. /\ tick = "count" /\ stripes = {} /\ UNCHANGED <<writers, moved, framed, cells, cell>>
      /\ records' = Nothing
      /\ \/ total /\ tick' = "copy" /\ stripes' = Stripes
         \/ ~total /\ tick' = "cell"
  BY DEF EndCount
<1>2. ASSUME NEW e \in Entities \ moved
      PROVE  Resting(e)'
  <2>1. Resting(e) /\ at' = at /\ target' = target
    BY <1>1 DEF FrameInv, writers
  <2>2. Stripe(e) \in Stripes /\ records'[e] = 0
    BY <1>1 DEF Stripes, Nothing
  <2>3. at[e] = cell => total
    BY <1>1, <2>1 DEF Resting
  <2>4. \A s \in Subs : Ahead(s, e)' <=> Ahead(s, e)
    BY <1>1, <2>1, <2>3 DEF Ahead
  <2>5. QED  BY <1>1, <2>1, <2>2, <2>4 DEF Resting
<1>3. QED  BY <1>1, <1>2, PresentKept DEF FrameInv

LEMMA CopyStripeFrames ==
  ASSUME IInv, FrameInv, CopyStripe
  PROVE  FrameInv'
<1>1. /\ tick = "copy" /\ tick' = "copy" /\ UNCHANGED <<writers, moved, framed, cells, cell>>
      /\ stripes' = stripes \ {Min(stripes)}
      /\ records' = [e \in Entities |-> IF InStripe(e) THEN Shard[e] ELSE records[e]]
  BY DEF CopyStripe
<1>2. ASSUME NEW e \in Entities \ moved
      PROVE  Resting(e)'
  <2>1. Resting(e) /\ at' = at /\ target' = target
    BY <1>1 DEF FrameInv, writers
  <2>2. \A s \in Subs : Ahead(s, e)' <=> Ahead(s, e)
    BY <1>1, <2>1 DEF Ahead
  <2>3. Shard[e] # 0 <=> at[e] = cell
    <3>1. cell \in TickCells /\ target[e] = Nil
      BY <1>1, <2>1 DEF IInv, TypeOK, Resting
    <3>2. QED  BY <3>1, EntryIff DEF FrameInv, Shard
  <2>4. records'[e] # 0 <=> at[e] = cell /\ Stripe(e) \notin stripes'
    <3>1. CASE Stripe(e) = Min(stripes)
      BY <1>1, <2>3, <3>1 DEF InStripe
    <3>2. CASE Stripe(e) # Min(stripes)
      BY <1>1, <2>1, <3>2 DEF InStripe, Resting
    <3>3. QED  BY <3>1, <3>2
  <2>5. QED  BY <1>1, <2>1, <2>2, <2>4 DEF Resting
<1>3. QED  BY <1>1, <1>2, PresentKept DEF FrameInv

\* Whoever is at rest in the cell has a record, so the cell is broadcast.
LEMMA EndCopyFrames ==
  ASSUME IInv, FrameInv, EndCopy
  PROVE  FrameInv'
<1>1. /\ tick = "copy" /\ stripes = {} /\ tick' = "serve"
      /\ UNCHANGED <<writers, moved, framed, cells, cell, records>>
      /\ batch' = IF records = Nothing THEN {} ELSE Subscribers(cell)
  BY DEF EndCopy
<1>2. ASSUME NEW e \in Entities \ moved
      PROVE  Resting(e)'
  <2>1. Resting(e) /\ at' = at /\ target' = target
    BY <1>1 DEF FrameInv, writers
  <2>2. records[e] # 0 <=> at[e] = cell
    BY <1>1, <2>1 DEF Resting
  <2>3. ASSUME NEW s \in Subs, at[e] \in CellsOf[s]
        PROVE  Ahead(s, e)' <=> Ahead(s, e)
    <3>1. at[e] = cell => s \in batch'
      <4>1. SUFFICES ASSUME at[e] = cell PROVE s \in batch'
        OBVIOUS
      <4>2. records # Nothing
        BY <2>2, <4>1 DEF Nothing
      <4>3. QED  BY <1>1, <2>3, <4>1, <4>2 DEF Subscribers
    <3>2. QED  BY <1>1, <2>1, <3>1 DEF Ahead
  <2>4. QED  BY <1>1, <2>1, <2>2, <2>3 DEF Resting
<1>3. QED  BY <1>1, <1>2, PresentKept DEF FrameInv

\* A frame counts once for everyone in it, sent or dropped.
LEMMA ServeFrames ==
  ASSUME IInv, FrameInv, NEW s \in Subs, Serve(s)
  PROVE  FrameInv'
<1>1. /\ tick = "serve" /\ tick' = "serve" /\ s \in batch /\ batch' = batch \ {s}
      /\ UNCHANGED <<writers, moved, cells, cell, records>>
      /\ \A e \in Entities : framed'[s][e] =
           IF e \in Wanted[s] /\ records[e] # 0 THEN framed[s][e] + 1 ELSE framed[s][e]
      /\ \A t \in Subs \ {s} : framed'[t] = framed[t]
  BY DEF Serve, Frame, IInv, TypeOK
<1>2. cell \in CellsOf[s] /\ cell \notin cells
  BY <1>1 DEF FrameInv, Subscribers
<1>3. ASSUME NEW e \in Entities \ moved
      PROVE  Resting(e)'
  <2>1. Resting(e) /\ at' = at /\ target' = target
    BY <1>1 DEF FrameInv, writers
  <2>2. records[e] # 0 <=> at[e] = cell
    BY <1>1, <2>1 DEF Resting
  <2>3. \A t \in Subs \ {s} : framed'[t][e] = framed[t][e] /\ (Ahead(t, e)' <=> Ahead(t, e))
    BY <1>1, <2>1 DEF Ahead
  <2>4. framed'[s][e] =
          IF at[e] \in CellsOf[s] /\ e \in Wanted[s] /\ ~Ahead(s, e)' THEN 1 ELSE 0
    <3>1. framed[s][e] = IF at[e] \in CellsOf[s] /\ e \in Wanted[s] /\ ~Ahead(s, e) THEN 1 ELSE 0
      BY <2>1 DEF Resting
    <3>2. CASE at[e] = cell
      <4>1. Ahead(s, e) /\ ~Ahead(s, e)'
        BY <1>1, <1>2, <2>1, <3>2 DEF Ahead
      <4>2. QED  BY <1>1, <1>2, <2>2, <3>1, <3>2, <4>1
    <3>3. CASE at[e] # cell
      <4>1. Ahead(s, e) <=> Ahead(s, e)'
        BY <1>1, <2>1, <3>3 DEF Ahead
      <4>2. QED  BY <1>1, <2>2, <3>1, <3>3, <4>1
    <3>4. QED  BY <3>2, <3>3
  <2>5. QED  BY <1>1, <2>1, <2>2, <2>3, <2>4 DEF Resting
<1>4. QED  BY <1>1, <1>3, PresentKept DEF FrameInv, Subscribers

LEMMA EndCellFrames ==
  ASSUME IInv, FrameInv, EndCell
  PROVE  FrameInv'
<1>1. /\ tick = "serve" /\ batch = {} /\ tick' = "cell"
      /\ UNCHANGED <<writers, moved, framed, cells, cell>>
  BY DEF EndCell
<1>2. ASSUME NEW e \in Entities \ moved
      PROVE  Resting(e)'
  <2>1. Resting(e) /\ at' = at /\ target' = target
    BY <1>1 DEF FrameInv, writers
  <2>2. \A s \in Subs : Ahead(s, e)' <=> Ahead(s, e)
    BY <1>1, <2>1 DEF Ahead
  <2>3. QED  BY <1>1, <2>1, <2>2 DEF Resting
<1>3. QED  BY <1>1, <1>2, PresentKept DEF FrameInv

LEMMA FrameStep == IInv /\ FrameInv /\ [Next]_vars => FrameInv'
<1> SUFFICES ASSUME IInv, FrameInv, [Next]_vars PROVE FrameInv'
  OBVIOUS
<1>1. ASSUME NEW e \in Entities, NEW c \in TickCells, Put(e, c) PROVE FrameInv'
  BY <1>1, StoreFrames DEF Put
<1>2. ASSUME NEW e \in Entities, NEW c \in TickCells, LeaveCell(e, c) PROVE FrameInv'
  BY <1>2, LeaveFrames
<1>3. ASSUME NEW e \in Entities, EnterCell(e) PROVE FrameInv'
  <2>1. target[e] \in TickCells
    BY <1>3 DEF EnterCell, IInv, TypeOK
  <2>2. QED  BY <1>3, <2>1, StoreFrames DEF EnterCell
<1>4. CASE EndTick
  BY <1>4, PresentKept DEF EndTick, FrameInv
<1>5. ASSUME NEW s \in Subs, Serve(s) PROVE FrameInv'
  BY <1>5, ServeFrames
<1>6. CASE (\E s \in Subs : Receive(s)) \/ UNCHANGED vars
  <2>1. UNCHANGED <<writers, ticker, moved, framed>>
    BY <1>6 DEF Receive, vars
  <2>2. /\ at' = at /\ target' = target /\ moved' = moved
        /\ tick' = tick /\ cells' = cells /\ cell' = cell /\ batch' = batch
    BY <2>1 DEF writers, ticker
  <2>3. tick # "idle" => \A e \in Entities \ moved : Resting(e)'
    BY <2>1, <2>2, RestingKept DEF FrameInv
  <2>4. QED  BY <2>1, <2>2, <2>3, PresentKept DEF FrameInv, Subscribers
<1>7. QED
  BY <1>1, <1>2, <1>3, <1>4, <1>5, <1>6, BeginTickFrames, BeginCellFrames, CountStripeFrames,
     EndCountFrames, CopyStripeFrames, EndCopyFrames, EndCellFrames
  DEF Next, TickStep

\* However updates overlap it, a tick makes exactly one frame with an entity
\* at rest for every subscriber of its cell that wants it, and none for
\* others: neither the two passes over the stripes nor the moves of other
\* entities lose or double it (grid.go:158, fanout/engine.go:113).
THEOREM OneFrameEachHolds == Spec => []OneFrameEach
<1>1. Init => FrameInv
  BY DEF Init, FrameInv, EntriesPresent
<1>2. FrameInv => OneFrameEach
  <2> SUFFICES ASSUME FrameInv, tick = "cell", cells = {}, NEW s \in Subs,
                      NEW e \in Entities \ moved
               PROVE  framed[s][e] = (IF at[e] \in CellsOf[s] /\ e \in Wanted[s] THEN 1 ELSE 0)
    BY DEF OneFrameEach
  <2>1. Resting(e) /\ ~Ahead(s, e)
    BY DEF FrameInv, Ahead
  <2>2. QED  BY <2>1 DEF Resting
<1>3. QED  BY <1>1, <1>2, FrameStep, Invariant, PTL DEF Spec
=============================================================================
