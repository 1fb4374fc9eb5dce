------------------------------ MODULE Delivery ------------------------------
(***************************************************************************)
(* How positions reach the clients: the tick's scan of the grid            *)
(* (EgressRecords) against moves (RouteWithPrevious), the frames Broadcast *)
(* makes of it, the bounded channel of a subscriber and its client.        *)
(*                                                                         *)
(* A position is abstracted to its cell and its version, its number among  *)
(* the positions of its entity. Packets of one entity are serial, and      *)
(* subscriptions are fixed: Pipeline and WsServer are about the rest.      *)
(***************************************************************************)
EXTENDS SpatialTypes, Naturals, Sequences, FiniteSetsExt

CONSTANTS
  TickCells,  \* the cells anything happens in
  Subs,       \* the subscribers
  CellsOf,    \* CellsOf[s]: the cells of the radius of s
  Wanted,     \* Wanted[s]: the entities s follows, or all of them
  ChanCap,    \* frames a channel buffers (1024)
  MaxVersion  \* bound: positions reported of one entity

ASSUME DeliveryAssumption ==
  /\ Entities \subseteq Nat
  /\ TickCells \subseteq Nat /\ Nil \notin TickCells
  /\ CellsOf \in [Subs -> SUBSET TickCells]
  /\ Wanted \in [Subs -> SUBSET Entities]
  /\ ChanCap \in Nat \ {0} /\ MaxVersion \in Nat

VARIABLES
  shards,   \* shards[c][e]: the version the entry of e in cell c holds, or 0
  at,       \* the cell of the last position stored, or Nil
  target,   \* the cell a move has deleted the old entry for, or Nil
  version,  \* the version of the last position stored
  tick,     \* where the tick goroutine is
  cells,    \* the cells it has yet to visit, lowest first
  cell,     \* the cell it is visiting
  stripes,  \* the stripes of it that it has yet to visit, lowest first
  total,    \* whether it has counted an entry
  records,  \* the versions it has copied
  batch,    \* the subscribers it has yet to serve
  queue,    \* the frames in each channel
  shown,    \* the version each client shows
  moved,    \* history: entities updated since the tick began
  framed    \* history: frames of this tick made for s that hold e

writers == <<shards, at, target, version>>
ticker == <<tick, cells, cell, stripes, total, records, batch>>
vars == <<writers, ticker, queue, shown, moved, framed>>

\* A version per entity, 0 where there is none: an entry of a map, a list of
\* records, a frame.
Versions == [Entities -> Nat]
Nothing == [e \in Entities |-> 0]

TypeOK ==
  /\ shards \in [TickCells -> Versions] /\ version \in Versions
  /\ at \in [Entities -> TickCells \cup {Nil}]
  /\ target \in [Entities -> TickCells \cup {Nil}]
  /\ tick \in {"idle", "cell", "count", "copy", "serve"}
  /\ cells \subseteq TickCells /\ cell \in TickCells \cup {Nil} /\ stripes \subseteq 0 .. 15
  /\ total \in BOOLEAN /\ records \in Versions /\ batch \subseteq Subs
  /\ queue \in [Subs -> Seq(Versions)] /\ shown \in [Subs -> Versions]
  /\ (tick \in {"count", "copy", "serve"} => cell # Nil)
  /\ moved \subseteq Entities /\ framed \in [Subs -> Versions]
  /\ \A s \in Subs : Len(queue[s]) <= ChanCap

Init ==
  /\ shards = [c \in TickCells |-> Nothing] /\ version = Nothing
  /\ at = [e \in Entities |-> Nil] /\ target = [e \in Entities |-> Nil]
  /\ tick = "idle" /\ cells = {} /\ cell = Nil /\ stripes = {} /\ total = FALSE
  /\ records = Nothing /\ batch = {}
  /\ queue = [s \in Subs |-> <<>>] /\ shown = [s \in Subs |-> Nothing]
  /\ moved = {} /\ framed = [s \in Subs |-> Nothing]

-----------------------------------------------------------------------------
(* RouteWithPrevious. *)

Write(c, e, v) == shards' = [shards EXCEPT ![c][e] = v]

\* The store of a new position, in the cell it lies in.
Store(e, c) ==
  /\ Write(c, e, version[e] + 1)
  /\ version' = [version EXCEPT ![e] = @ + 1]
  /\ at' = [at EXCEPT ![e] = c]
  /\ target' = [target EXCEPT ![e] = Nil]
  /\ moved' = moved \cup {e}
  /\ UNCHANGED <<ticker, queue, shown, framed>>

\* The first position of e, or one in the cell it was in.
Put(e, c) ==
  /\ target[e] = Nil /\ at[e] \in {Nil, c} /\ version[e] < MaxVersion
  /\ Store(e, c)

\* Mutant of Erase: the entry stays.
EraseNothing(e) == UNCHANGED shards

Erase(e) == Write(at[e], e, 0)

\* Into another cell: the old entry is deleted, then the new one stored.
LeaveCell(e, c) ==
  /\ target[e] = Nil /\ at[e] \notin {Nil, c} /\ version[e] < MaxVersion
  /\ Erase(e)
  /\ target' = [target EXCEPT ![e] = c]
  /\ moved' = moved \cup {e}
  /\ UNCHANGED <<at, version, ticker, queue, shown, framed>>

EnterCell(e) == target[e] # Nil /\ Store(e, target[e])

-----------------------------------------------------------------------------
(* broadcastTick. *)

Subscribers(c) == { s \in Subs : c \in CellsOf[s] }

\* Cells without subscribers are passed over.
BeginTick ==
  /\ tick = "idle" /\ tick' = "cell"
  /\ cells' = { c \in TickCells : Subscribers(c) # {} }
  /\ moved' = { e \in Entities : target[e] # Nil }
  /\ framed' = [s \in Subs |-> Nothing]
  /\ UNCHANGED <<writers, cell, stripes, total, records, batch, queue, shown>>

EndTick ==
  /\ tick = "cell" /\ cells = {} /\ tick' = "idle"
  /\ UNCHANGED <<writers, cells, cell, stripes, total, records, batch, queue, shown,
                 moved, framed>>

\* EgressRecords visits the stripes twice, first to count and then to copy.
\* A stripe no entity has is empty at every visit; such visits are left out.
Stripe(e) == e % 16
Stripes == { Stripe(e) : e \in Entities }
InStripe(e) == Stripe(e) = Min(stripes)
Shard == shards[cell]

BeginCell ==
  /\ tick = "cell" /\ tick' = "count"
  /\ \E c \in cells : /\ \A d \in cells : c <= d
                      /\ cell' = c /\ cells' = cells \ {c}
  /\ stripes' = Stripes /\ total' = FALSE
  /\ UNCHANGED <<writers, records, batch, queue, shown, moved, framed>>

\* Mutant of Counted: the last stripe alone decides.
CountedLast == \E e \in Entities : InStripe(e) /\ Shard[e] # 0

Counted == total \/ \E e \in Entities : InStripe(e) /\ Shard[e] # 0

CountStripe ==
  /\ tick = "count" /\ stripes # {}
  /\ stripes' = stripes \ {Min(stripes)} /\ total' = Counted
  /\ UNCHANGED <<writers, tick, cells, cell, records, batch, queue, shown, moved, framed>>

\* Nothing counted: no records, and on to the next cell.
EndCount ==
  /\ tick = "count" /\ stripes = {}
  /\ \/ total /\ tick' = "copy" /\ stripes' = Stripes
     \/ ~total /\ tick' = "cell" /\ UNCHANGED stripes
  /\ records' = Nothing
  /\ UNCHANGED <<writers, cells, cell, total, batch, queue, shown, moved, framed>>

CopyStripe ==
  /\ tick = "copy" /\ stripes # {}
  /\ stripes' = stripes \ {Min(stripes)}
  /\ records' = [e \in Entities |-> IF InStripe(e) THEN Shard[e] ELSE records[e]]
  /\ UNCHANGED <<writers, tick, cells, cell, total, batch, queue, shown, moved, framed>>

\* What was counted may be gone; a cell without records is not broadcast.
EndCopy ==
  /\ tick = "copy" /\ stripes = {} /\ tick' = "serve"
  /\ batch' = IF records = Nothing THEN {} ELSE Subscribers(cell)
  /\ UNCHANGED <<writers, cells, cell, stripes, total, records, queue, shown, moved, framed>>

\* The records WantsEntity lets pass, appended to a buffer and copied from it.
Frame(s) == [e \in Entities |-> IF e \in Wanted[s] THEN records[e] ELSE 0]

\* Mutants of Room: none is left for the last frame; room is not looked for.
RoomButOne(s) == Len(queue[s]) + 1 < ChanCap
RoomAlways(s) == TRUE

Room(s) == Len(queue[s]) < ChanCap

\* An empty frame is not sent; a full channel drops the frame. The order of
\* the batch is that of subscribing; here it is any order.
Serve(s) ==
  /\ tick = "serve" /\ s \in batch /\ batch' = batch \ {s}
  /\ IF Frame(s) # Nothing /\ Room(s)
     THEN queue' = [queue EXCEPT ![s] = Append(@, Frame(s))]
     ELSE UNCHANGED queue
  /\ framed' = [framed EXCEPT ![s] =
       [e \in Entities |-> IF Frame(s)[e] # 0 THEN @[e] + 1 ELSE @[e]]]
  /\ UNCHANGED <<writers, tick, cells, cell, stripes, total, records, shown, moved>>

EndCell ==
  /\ tick = "serve" /\ batch = {} /\ tick' = "cell"
  /\ UNCHANGED <<writers, cells, cell, stripes, total, records, batch, queue, shown,
                 moved, framed>>

TickStep ==
  \/ EndTick \/ BeginCell \/ CountStripe \/ EndCount \/ CopyStripe \/ EndCopy
  \/ (\E s \in Subs : Serve(s)) \/ EndCell

-----------------------------------------------------------------------------
(* The client. *)

\* A record replaces what the client shows of its entity, as the page of
\* examples/basic_web does.
Overlay(old, frame) ==
  [e \in Entities |-> IF frame[e] # 0 THEN frame[e] ELSE old[e]]

\* The writer takes the frames in the order they were sent.
Receive(s) ==
  /\ queue[s] # <<>>
  /\ queue' = [queue EXCEPT ![s] = Tail(@)]
  /\ shown' = [shown EXCEPT ![s] = Overlay(@, Head(queue[s]))]
  /\ UNCHANGED <<writers, ticker, moved, framed>>

Next ==
  \/ \E e \in Entities :
       (\E c \in TickCells : Put(e, c) \/ LeaveCell(e, c)) \/ EnterCell(e)
  \/ BeginTick \/ TickStep
  \/ \E s \in Subs : Receive(s)

Spec == Init /\ [][Next]_vars

\* Again and again a tick begins when the clients have read everything.
KeepUp == []<><<BeginTick /\ \A s \in Subs : queue[s] = <<>>>>_vars

FairSpec ==
  /\ Spec /\ KeepUp /\ WF_vars(TickStep)
  /\ \A s \in Subs : WF_vars(Receive(s))
  /\ \A e \in Entities : WF_vars(EnterCell(e))

-----------------------------------------------------------------------------
\* Nothing a client shows is ever replaced by something older, and nothing
\* is invented, although frames are made of entries read one by one while
\* entities move between cells, and wait in a queue.
Feed == INSTANCE PositionFeed WITH
  Sources <- Entities, Viewers <- Subs, current <- version

FeedSpec == Feed!Spec

\* A tick makes exactly one frame with an entity that is not updated
\* meanwhile for every subscriber of its cell that wants it.
OneFrameEach ==
  tick = "cell" /\ cells = {} =>
    \A s \in Subs : \A e \in Entities \ moved :
      framed[s][e] = (IF at[e] \in CellsOf[s] /\ e \in Wanted[s] THEN 1 ELSE 0)

Covers(s, e) == target[e] = Nil /\ at[e] \in CellsOf[s] /\ e \in Wanted[s]

\* What stays in a subscriber's cells is shown to it in the end, if it reads
\* its frames and the channel holds one of each of its cells.
Fresh ==
  \A s \in Subs, e \in Entities, v \in 1 .. MaxVersion :
    (Covers(s, e) /\ version[e] = v) ~> (shown[s][e] >= v \/ ~Covers(s, e))
=============================================================================
