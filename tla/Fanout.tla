------------------------------- MODULE Fanout -------------------------------
(***************************************************************************)
(* Subscriptions, their channels and the broadcast of a tick: pkg/fanout,  *)
(* and tickLoop and broadcastTick of pkg/engine. WsServer composes it with *)
(* the connections that subscribe.                                         *)
(*                                                                         *)
(* The subscription table (with its cell index) and the channel map have a *)
(* lock each, and an operation takes one after the other, never both. What *)
(* Broadcast does with the subscriptions it copied, filtering included,    *)
(* happens under neither. An id is subscribed once in its life.            *)
(***************************************************************************)
EXTENDS SpatialTypes, Sequences, FiniteSets, Naturals

CONSTANTS
  Subs,       \* subscriber ids
  TickCells,  \* the cells anything happens in; a tick visits them in order
  CellsOf,    \* CellsOf[s]: the cells of the radius of s (ShardsForRadius)
  ChanCap,    \* frames a channel buffers (1024)
  MaxDropped  \* bound: where the count of dropped frames stops counting

ASSUME FanoutAssumption ==
  /\ TickCells \subseteq Nat /\ IsFiniteSet(TickCells)
  /\ CellsOf \in [Subs -> SUBSET TickCells]
  /\ ChanCap \in Nat \ {0} /\ MaxDropped \in Nat

VARIABLES
  member,     \* the ids in subs
  cellIndex,  \* the ids per cell, in the order they subscribed
  following,  \* Following of each subscription: nil or a set of entities
  writing,    \* the Following map Follow or Unfollow is writing, mu held
  chan,       \* each id's channel: not made, open (and in the map), closed
  qlen,       \* frames waiting in it
  droppedFrames,
  tick,       \* where the tick goroutine is
  cells,      \* the cells it has yet to visit
  records,    \* the entities of the cell it is broadcasting
  batch,      \* the subscriptions it copied and has yet to serve, in order
  crashed     \* how the process died, or "none"

table == <<member, cellIndex, following, writing>>
channels == <<chan, qlen, droppedFrames>>
ticker == <<tick, cells, records, batch>>
fanoutVars == <<table, channels, ticker, crashed>>

\* Following before the first Follow: a nil map, which is not an empty one.
NoMap == {Nil}

FanoutTypeOK ==
  /\ member \subseteq Subs
  /\ cellIndex \in [TickCells -> Seq(Subs)]
  /\ following \in [Subs -> (SUBSET Entities) \cup {NoMap}]
  /\ writing \in [sub : Subs, set : SUBSET Entities] \cup {Nil}
  /\ chan \in [Subs -> {"none", "open", "closed"}]
  /\ qlen \in [Subs -> 0 .. ChanCap]
  /\ droppedFrames \in 0 .. MaxDropped
  /\ tick \in {"idle", "cell", "copy", "filter", "get", "send"}
  /\ cells \subseteq TickCells
  /\ records \subseteq Entities
  /\ batch \in Seq(Subs)
  /\ crashed \in {"none", "sendOnClosed", "mapRace"}
  /\ tick \in {"get", "send"} => batch # <<>>
  /\ tick = "copy" => cells # {} /\ records # {}

FanoutInit ==
  /\ member = {} /\ cellIndex = [c \in TickCells |-> <<>>]
  /\ following = [s \in Subs |-> NoMap] /\ writing = Nil
  /\ chan = [s \in Subs |-> "none"] /\ qlen = [s \in Subs |-> 0]
  /\ droppedFrames = 0
  /\ tick = "idle" /\ cells = {} /\ records = {} /\ batch = <<>>
  /\ crashed = "none"

\* Whoever wants mu, for reading or writing, waits for a writer to be done.
MuFree == writing = Nil

-----------------------------------------------------------------------------
(* Subscriptions. *)

\* Subscribe enters the table and every cell of the radius at once ...
Subscribe(s) ==
  /\ MuFree
  /\ member' = member \cup {s}
  /\ cellIndex' = [c \in TickCells |->
       IF c \in CellsOf[s] THEN Append(cellIndex[c], s) ELSE cellIndex[c]]
  /\ UNCHANGED <<following, writing, channels, ticker, crashed>>

\* ... and makes the channel after the unlock.
Create(s) ==
  /\ chan' = [chan EXCEPT ![s] = "open"]
  /\ UNCHANGED <<table, qlen, droppedFrames, ticker, crashed>>

\* append(ids[:i], ids[i+1:]...)
Cut(ids, i) == [j \in 1 .. Len(ids) - 1 |-> IF j < i THEN ids[j] ELSE ids[j + 1]]

\* Mutant of Unlist: the cell index is not cleaned up.
StayListed(ids, s) == ids

\* The first occurrence of s is cut out of a cell's ids.
Unlist(ids, s) ==
  LET first(i) == ids[i] = s /\ \A j \in 1 .. i - 1 : ids[j] # s
  IN  IF \E i \in 1 .. Len(ids) : first(i)
      THEN Cut(ids, CHOOSE i \in 1 .. Len(ids) : first(i))
      ELSE ids

Unsubscribe(s) ==
  /\ MuFree
  /\ member' = member \ {s}
  /\ cellIndex' = [c \in TickCells |->
       IF c \in CellsOf[s] THEN Unlist(cellIndex[c], s) ELSE cellIndex[c]]
  /\ UNCHANGED <<following, writing, channels, ticker, crashed>>

\* Remove closes the channel and forgets it; frames in it can be received.
Remove(s) ==
  /\ chan' = [chan EXCEPT ![s] = "closed"]
  /\ UNCHANGED <<table, qlen, droppedFrames, ticker, crashed>>

\* Follow makes the map if there is none, then writes into it.
Follow(s, e) ==
  /\ MuFree /\ s \in member
  /\ following' = [following EXCEPT ![s] = IF @ = NoMap THEN {} ELSE @]
  /\ writing' = [sub |-> s, set |-> following'[s] \cup {e}]
  /\ UNCHANGED <<member, cellIndex, channels, ticker, crashed>>

Unfollow(s, e) ==
  /\ MuFree /\ s \in member /\ following[s] # NoMap
  /\ writing' = [sub |-> s, set |-> following[s] \ {e}]
  /\ UNCHANGED <<member, cellIndex, following, channels, ticker, crashed>>

\* The write is complete and mu released.
EndWrite ==
  /\ writing # Nil
  /\ following' = [following EXCEPT ![writing.sub] = writing.set]
  /\ writing' = Nil
  /\ UNCHANGED <<member, cellIndex, channels, ticker, crashed>>

-----------------------------------------------------------------------------
(* A tick: broadcastTick, with Broadcast inlined. *)

BeginTick ==
  /\ tick = "idle"
  /\ tick' = "cell" /\ cells' = TickCells
  /\ UNCHANGED <<table, channels, records, batch, crashed>>

\* The grid may hold any entities in the cell by now (GridScan has the scan).
EgressRecords == SUBSET Entities

\* The cell to visit: they are visited in ascending order.
Lowest(c) == c \in cells /\ \A d \in cells : c <= d

\* A cell is broadcast only if it has subscribers and records.
VisitCell(c) ==
  /\ tick = "cell" /\ Lowest(c) /\ MuFree
  /\ \/ cells' = cells \ {c} /\ records' = {} /\ UNCHANGED tick
     \/ /\ cellIndex[c] # <<>>
        /\ records' \in EgressRecords \ {{}}
        /\ tick' = "copy" /\ UNCHANGED cells
  /\ UNCHANGED <<table, channels, batch, crashed>>

EndTick ==
  /\ tick = "cell" /\ cells = {}
  /\ tick' = "idle"
  /\ UNCHANGED <<table, channels, cells, records, batch, crashed>>

\* Broadcast copies the cell's subscriptions under the read lock.
Copy(c) ==
  /\ tick = "copy" /\ Lowest(c) /\ MuFree
  /\ batch' = cellIndex[c]
  /\ cells' = cells \ {c}
  /\ tick' = "filter"
  /\ UNCHANGED <<table, channels, records, crashed>>

\* WantsEntity for some record.
Wants(s) == following[s] = NoMap \/ following[s] \cap records # {}

\* The filter reads Following without the lock. The Go runtime stops the
\* process when it notices a map read during a write; it need not notice.
Filter ==
  /\ tick = "filter" /\ batch # <<>>
  /\ \/ /\ writing # Nil /\ writing.sub = Head(batch)
        /\ crashed' = "mapRace"
        /\ UNCHANGED <<tick, batch>>
     \/ /\ Wants(Head(batch))
        /\ tick' = "get" /\ UNCHANGED <<batch, crashed>>
     \/ /\ ~Wants(Head(batch))
        /\ batch' = Tail(batch) /\ UNCHANGED <<tick, crashed>>
  /\ UNCHANGED <<table, channels, cells, records>>

EndBatch ==
  /\ tick = "filter" /\ batch = <<>>
  /\ tick' = "cell"
  /\ UNCHANGED <<table, channels, cells, records, batch, crashed>>

\* The channel is looked up; a subscriber without one is passed over.
GetChannel ==
  /\ tick = "get"
  /\ \/ chan[Head(batch)] = "open" /\ tick' = "send" /\ UNCHANGED batch
     \/ chan[Head(batch)] # "open" /\ tick' = "filter" /\ batch' = Tail(batch)
  /\ UNCHANGED <<table, channels, cells, records, crashed>>

\* The send does not wait for room; on a closed channel it panics.
Served == tick' = "filter" /\ batch' = Tail(batch)

SendPanics ==
  /\ tick = "send" /\ chan[Head(batch)] = "closed"
  /\ crashed' = "sendOnClosed"
  /\ UNCHANGED <<table, channels, ticker>>

\* Mutant of Room: room is not checked for.
RoomAlways(s) == TRUE

Room(s) == qlen[s] < ChanCap

SendQueued ==
  /\ tick = "send" /\ chan[Head(batch)] = "open" /\ Room(Head(batch))
  /\ qlen' = [qlen EXCEPT ![Head(batch)] = @ + 1]
  /\ Served
  /\ UNCHANGED <<table, chan, droppedFrames, cells, records, crashed>>

\* Mutant of SendDropped: the select has no default and waits for room.
SendWaits == FALSE

SendDropped ==
  /\ tick = "send" /\ chan[Head(batch)] = "open" /\ ~Room(Head(batch))
  /\ droppedFrames' = IF droppedFrames < MaxDropped THEN droppedFrames + 1 ELSE droppedFrames
  /\ Served
  /\ UNCHANGED <<table, chan, qlen, cells, records, crashed>>

TickStep ==
  \/ (\E c \in TickCells : VisitCell(c) \/ Copy(c)) \/ EndTick \/ Filter \/ EndBatch \/ GetChannel
  \/ SendPanics \/ SendQueued \/ SendDropped

-----------------------------------------------------------------------------
\* The table and the cell index agree, each id listed once per cell of its
\* radius: Broadcast dereferences e.subs[id] for every id it finds listed
\* (fanout/engine.go:107-109) without asking whether it is there.
IndexMatchesTable ==
  \A c \in TickCells : LET places == 1 .. Len(cellIndex[c]) IN
    /\ \A s \in Subs :
         (s \in member /\ c \in CellsOf[s]) <=> \E i \in places : cellIndex[c][i] = s
    /\ \A i, j \in places : cellIndex[c][i] = cellIndex[c][j] => i = j
=============================================================================
