------------------------------ MODULE Pipeline ------------------------------
(***************************************************************************)
(* The ingestion pipeline: ProcessPacket and SeedPosition of pkg/engine,   *)
(* run by several worker goroutines against the position history, the      *)
(* grid, the fences and the rate limiter.                                  *)
(*                                                                         *)
(* The history is a map from entity to a POINTER (prevPtr), kept under a   *)
(* lock; what it points to (heap) is read by ProcessPacket after the lock  *)
(* is released and overwritten in place by the next packet of the entity.  *)
(* Every unlocked access of a coordinate is therefore two steps, one per   *)
(* field, and the write under the lock is two steps as well.               *)
(***************************************************************************)
EXTENDS Geofence, CountMinSketch, FiniteSets

CONSTANTS
  Workers,     \* the goroutines that call ProcessPacket (or Publish)
  Refs,        \* addresses a CoordPacket may be allocated at
  MaxPackets,  \* bound: how many packets arrive
  MaxSeeds,    \* bound: how many positions are seeded
  Serial,      \* TRUE: no two packets of an entity are in flight at once, as
               \* with one worker or with one publisher per entity
  SetupFirst   \* TRUE: fences are registered and positions seeded, one per
               \* entity, before the first packet, as the examples do

ASSUME PipelineAssumption ==
  /\ IsFiniteSet(Workers)
  /\ MaxPackets \in Nat /\ MaxSeeds \in Nat
  /\ Serial \in BOOLEAN /\ SetupFirst \in BOOLEAN

VARIABLES
  prevPtr,   \* prevPosShards: entity -> pointer, or Nil
  heap,      \* the CoordPacket at each address
  table,     \* the count-min sketch
  pc,        \* where each worker is in ProcessPacket or SeedPosition
  job,       \* the packet (or seed) it works on: id and coord
  ptr,       \* its local prev
  lat,       \* a latitude loaded from *prev whose longitude is still to come
  oldKey,    \* RouteWithPrevious: the cell to delete from
  near,      \* EvaluateMove: the fences still to be evaluated
  events,    \* EvaluateMove: the events gathered so far
  view,      \* enters minus exits the application was told, per fence
  hll,       \* the cells whose HyperLogLog the entity was added to
  routed,    \* packetsRouted
  dropped,   \* packetsDropped
  taken,     \* history: packets taken so far
  seeds,     \* history: seeds started so far
  reported,  \* history: the positions received per entity
  seeded     \* history: the positions seeded per entity

history == <<prevPtr, heap>>
locals == <<pc, job, ptr, lat, oldKey, near, events>>
stats == <<hll, routed, dropped>>
ghosts == <<taken, seeds, reported, seeded>>
vars == <<grid, registered, prevPtr, heap, table, pc, job, ptr, lat, oldKey,
          near, events, view, hll, routed, dropped, taken, seeds, reported, seeded>>

Steps == {"idle", "load", "dupLat", "dupLng", "keyLat", "keyLng", "delete",
          "insert", "near", "fences", "fromLng", "fire", "commit",
          "storeLat", "storeLng", "count", "seed"}

\* Where a worker holds the history's lock: one field is written, the other,
\* which names the step, is not.
Storing == {"storeLat", "storeLng"}

Jobs == [id : Entities, coord : Points]

\* Nil is a value of its own.
ASSUME NilAssumption ==
  Nil \notin Refs /\ Nil \notin Lats /\ Nil \notin Cells /\ Nil \notin Points /\ Nil \notin Jobs

\* The locals a worker relies on at each step are there.
LocalOK(w) ==
  /\ pc[w] = "idle" <=> job[w] = Nil
  /\ pc[w] \in {"dupLat", "dupLng", "keyLat", "keyLng", "fences", "fromLng"} => ptr[w] # Nil
  /\ pc[w] \in {"dupLng", "keyLng", "fromLng"} => lat[w] # Nil
  /\ pc[w] = "delete" => oldKey[w] # Nil
  /\ pc[w] = "fromLng" => near[w] # {}
  /\ pc[w] \in Storing => prevPtr[job[w].id] # Nil
  /\ ptr[w] # Nil => heap[ptr[w]] # Nil

TypeOK ==
  /\ GridTypeOK /\ FenceTypeOK
  /\ prevPtr \in [Entities -> Refs \cup {Nil}]
  /\ heap \in [Refs -> Points \cup {Nil}]
  /\ table \in Tables
  /\ pc \in [Workers -> Steps]
  /\ job \in [Workers -> Jobs \cup {Nil}]
  /\ ptr \in [Workers -> Refs \cup {Nil}]
  /\ lat \in [Workers -> Lats \cup {Nil}]
  /\ oldKey \in [Workers -> Cells \cup {Nil}]
  /\ near \in [Workers -> SUBSET Fences]
  /\ events \in [Workers -> SUBSET Events]
  /\ view \in [Entities -> [Fences -> Int]]
  /\ hll \in [Entities -> SUBSET Cells]
  /\ routed \in Nat /\ dropped \in Nat /\ taken \in Nat /\ seeds \in Nat
  /\ reported \in [Entities -> SUBSET Points]
  /\ seeded \in [Entities -> SUBSET Points]
  /\ \A w \in Workers : LocalOK(w)
  /\ \A e \in Entities : prevPtr[e] # Nil => heap[prevPtr[e]] # Nil

Init ==
  /\ GridInit /\ FenceInit
  /\ prevPtr = [e \in Entities |-> Nil]
  /\ heap = [r \in Refs |-> Nil]
  /\ table = EmptyTable
  /\ pc = [w \in Workers |-> "idle"]
  /\ job = [w \in Workers |-> Nil]
  /\ ptr = [w \in Workers |-> Nil]
  /\ lat = [w \in Workers |-> Nil]
  /\ oldKey = [w \in Workers |-> Nil]
  /\ near = [w \in Workers |-> {}]
  /\ events = [w \in Workers |-> {}]
  /\ view = [e \in Entities |-> [f \in Fences |-> 0]]
  /\ hll = [e \in Entities |-> {}]
  /\ routed = 0 /\ dropped = 0 /\ taken = 0 /\ seeds = 0
  /\ reported = [e \in Entities |-> {}]
  /\ seeded = [e \in Entities |-> {}]

InFlight(e) == { w \in Workers : pc[w] # "idle" /\ job[w].id = e }

AtRest(e) == InFlight(e) = {}

\* The shard lock is held over a step only between the two halves of a store.
Locked(e) == \E w \in InFlight(e) : pc[w] \in Storing

\* What the garbage collector may hand out: addresses no pointer holds.
FreeRefs == { r \in Refs : /\ \A e \in Entities : prevPtr[e] # r
                           /\ \A w \in Workers : ptr[w] # r }

Goto(w, step) == pc' = [pc EXCEPT ![w] = step]

Finish(w) ==
  /\ Goto(w, "idle")
  /\ job' = [job EXCEPT ![w] = Nil]
  /\ ptr' = [ptr EXCEPT ![w] = Nil]

-----------------------------------------------------------------------------
(* Setup and the tick. *)

AddFence(f) ==
  /\ SetupFirst => taken = 0
  /\ Register(f)
  /\ UNCHANGED <<grid, history, table, locals, view, stats, ghosts>>

\* SeedPosition stores a fresh pointer under the lock ...
Seed(w, e, p) ==
  /\ pc[w] = "idle" /\ seeds < MaxSeeds
  /\ SetupFirst => taken = 0 /\ seeded[e] = {}
  /\ Serial => AtRest(e)
  /\ ~Locked(e)
  /\ \E r \in FreeRefs : /\ prevPtr' = [prevPtr EXCEPT ![e] = r]
                         /\ heap' = [heap EXCEPT ![r] = p]
  /\ Goto(w, "seed")
  /\ job' = [job EXCEPT ![w] = [id |-> e, coord |-> p]]
  /\ seeds' = seeds + 1
  /\ seeded' = [seeded EXCEPT ![e] = @ \cup {p}]
  \* The application seeds what it knows, the fences the entity is in included.
  /\ view' = [view EXCEPT ![e] = [f \in Fences |-> IF p \in Contains[f] THEN 1 ELSE 0]]
  /\ UNCHANGED <<grid, registered, table, ptr, lat, oldKey, near, events, stats, taken, reported>>

\* ... and routes it to the grid after the unlock, without a delete.
SeedRoute(w) ==
  /\ pc[w] = "seed"
  /\ Route(job[w].id, job[w].coord)
  /\ Finish(w)
  /\ UNCHANGED <<registered, history, table, lat, oldKey, near, events, view, stats, ghosts>>

\* tickLoop: the limiter starts over. The broadcast is modelled in Fanout.
Tick ==
  /\ table' = EmptyTable
  /\ UNCHANGED <<grid, registered, history, locals, view, stats, ghosts>>

-----------------------------------------------------------------------------
(* ProcessPacket. *)

\* A packet arrives and is counted by the sketch; over the limit it is dropped.
Arrive(w, e, p) ==
  /\ pc[w] = "idle" /\ taken < MaxPackets
  /\ Serial => AtRest(e)
  /\ SetupFirst => \A v \in Workers : pc[v] # "seed"
  /\ taken' = taken + 1
  /\ table' = Bump(table, e)
  /\ \/ /\ OverLimit(table', e)
        /\ dropped' = dropped + 1
        /\ UNCHANGED <<pc, job, reported>>
     \/ /\ ~OverLimit(table', e)
        /\ Goto(w, "load")
        /\ job' = [job EXCEPT ![w] = [id |-> e, coord |-> p]]
        /\ reported' = [reported EXCEPT ![e] = @ \cup {p}]
        /\ UNCHANGED dropped
  /\ UNCHANGED <<grid, registered, history, ptr, lat, oldKey, near, events, view,
                 hll, routed, seeds, seeded>>

\* Mutant of LoadPrevious: nil is not checked for.
LoadUnchecked(w) ==
  /\ pc[w] = "load" /\ ~Locked(job[w].id)
  /\ ptr' = [ptr EXCEPT ![w] = prevPtr[job[w].id]]
  /\ Goto(w, "dupLat")
  /\ UNCHANGED <<grid, registered, history, table, job, lat, oldKey, near, events,
                 view, stats, ghosts>>

LoadPrevious(w) ==
  /\ pc[w] = "load" /\ ~Locked(job[w].id)
  /\ ptr' = [ptr EXCEPT ![w] = prevPtr[job[w].id]]
  /\ Goto(w, IF prevPtr[job[w].id] = Nil THEN "insert" ELSE "dupLat")
  /\ UNCHANGED <<grid, registered, history, table, job, lat, oldKey, near, events,
                 view, stats, ghosts>>

\* One field of *prev, read without the lock.
LoadLat(w, next) ==
  /\ lat' = [lat EXCEPT ![w] = heap[ptr[w]].lat]
  /\ Goto(w, next)

\* The position a reader sees once it has also loaded the longitude.
Seen(w) == [lat |-> lat[w], lng |-> heap[ptr[w]].lng]

\* Mutant of CompareLat: the comparison is gone.
CompareNothing(w) ==
  /\ pc[w] = "dupLat" /\ Goto(w, "keyLat")
  /\ UNCHANGED <<grid, registered, history, table, job, ptr, lat, oldKey, near, events,
                 view, stats, ghosts>>

\* prev.Lat == coord.Lat && prev.Lng == coord.Lng
CompareLat(w) ==
  /\ pc[w] = "dupLat"
  /\ \/ heap[ptr[w]].lat = job[w].coord.lat /\ LoadLat(w, "dupLng")
     \/ heap[ptr[w]].lat # job[w].coord.lat /\ Goto(w, "keyLat") /\ UNCHANGED lat
  /\ UNCHANGED <<grid, registered, history, table, job, ptr, oldKey, near, events,
                 view, stats, ghosts>>

\* Mutant of CompareLng: a duplicate is not counted.
CompareUncounted(w) ==
  /\ pc[w] = "dupLng"
  /\ lat' = [lat EXCEPT ![w] = Nil]
  /\ \/ Seen(w) = job[w].coord /\ Finish(w)
     \/ Seen(w) # job[w].coord /\ Goto(w, "keyLat") /\ UNCHANGED <<job, ptr>>
  /\ UNCHANGED <<grid, registered, history, table, oldKey, near, events, view,
                 stats, ghosts>>

CompareLng(w) ==
  /\ pc[w] = "dupLng"
  /\ lat' = [lat EXCEPT ![w] = Nil]
  /\ \/ Seen(w) = job[w].coord /\ Finish(w) /\ dropped' = dropped + 1
     \/ Seen(w) # job[w].coord /\ Goto(w, "keyLat") /\ UNCHANGED <<job, ptr, dropped>>
  /\ UNCHANGED <<grid, registered, history, table, oldKey, near, events, view,
                 hll, routed, ghosts>>

\* RouteWithPrevious: the key of the previous position ...
KeyLat(w) ==
  /\ pc[w] = "keyLat" /\ LoadLat(w, "keyLng")
  /\ UNCHANGED <<grid, registered, history, table, job, ptr, oldKey, near, events,
                 view, stats, ghosts>>

KeyLng(w) ==
  /\ pc[w] = "keyLng"
  /\ lat' = [lat EXCEPT ![w] = Nil]
  /\ \/ /\ ShardKey(Seen(w)) = ShardKey(job[w].coord)
        /\ Goto(w, "insert") /\ UNCHANGED oldKey
     \/ /\ ShardKey(Seen(w)) # ShardKey(job[w].coord)
        /\ Goto(w, "delete") /\ oldKey' = [oldKey EXCEPT ![w] = ShardKey(Seen(w))]
  /\ UNCHANGED <<grid, registered, history, table, job, ptr, near, events, view,
                 stats, ghosts>>

\* Mutant of DeleteOld: a move between cells forgets the insert.
DeleteOnly(w) ==
  /\ pc[w] = "delete"
  /\ DeleteEntry(job[w].id, oldKey[w])
  /\ oldKey' = [oldKey EXCEPT ![w] = Nil]
  /\ Goto(w, "near")
  /\ UNCHANGED <<registered, history, table, job, ptr, lat, near, events, view,
                 stats, ghosts>>

\* ... the delete under the lock of the old cell ...
DeleteOld(w) ==
  /\ pc[w] = "delete"
  /\ DeleteEntry(job[w].id, oldKey[w])
  /\ oldKey' = [oldKey EXCEPT ![w] = Nil]
  /\ Goto(w, "insert")
  /\ UNCHANGED <<registered, history, table, job, ptr, lat, near, events, view,
                 stats, ghosts>>

\* ... and the store under the lock of the new one.
InsertNew(w) ==
  /\ pc[w] = "insert"
  /\ Route(job[w].id, job[w].coord)
  /\ Goto(w, "near")
  /\ UNCHANGED <<registered, history, table, job, ptr, lat, oldKey, near, events,
                 view, stats, ghosts>>

\* EvaluateMove: the fences of the destination cell, under the store's lock.
FindFences(w) ==
  /\ pc[w] = "near"
  /\ \/ /\ ptr[w] = Nil
        /\ events' = [events EXCEPT ![w] =
                        FirstSightEvents(FencesNear(job[w].coord), job[w].coord)]
        /\ Goto(w, "fire") /\ UNCHANGED near
     \/ /\ ptr[w] # Nil
        /\ near' = [near EXCEPT ![w] = FencesNear(job[w].coord)]
        /\ Goto(w, "fences") /\ UNCHANGED events
  /\ UNCHANGED <<grid, registered, history, table, job, ptr, lat, oldKey, view,
                 stats, ghosts>>

\* The loop over them reads *prev once more for each.
FromLat(w) ==
  /\ pc[w] = "fences"
  /\ \/ near[w] = {} /\ Goto(w, "fire") /\ UNCHANGED lat
     \/ near[w] # {} /\ LoadLat(w, "fromLng")
  /\ UNCHANGED <<grid, registered, history, table, job, ptr, oldKey, near, events,
                 view, stats, ghosts>>

FromLng(w) ==
  /\ pc[w] = "fromLng"
  /\ LET f == CHOOSE g \in near[w] : TRUE
     IN  /\ near' = [near EXCEPT ![w] = @ \ {f}]
         /\ events' = [events EXCEPT ![w] = @ \cup MoveEvents(f, Seen(w), job[w].coord)]
  /\ lat' = [lat EXCEPT ![w] = Nil]
  /\ Goto(w, "fences")
  /\ UNCHANGED <<grid, registered, history, table, job, ptr, oldKey, view, stats, ghosts>>

\* What the callbacks leave the application with.
Balance(f, evs) ==
  IF [fence |-> f, type |-> "enter"] \in evs THEN 1
  ELSE IF [fence |-> f, type |-> "exit"] \in evs THEN -1 ELSE 0

Fire(w) ==
  /\ pc[w] = "fire"
  /\ view' = [view EXCEPT ![job[w].id] =
                [f \in Fences |-> @[f] + Balance(f, events[w])]]
  /\ events' = [events EXCEPT ![w] = {}]
  /\ Goto(w, "commit")
  /\ UNCHANGED <<grid, registered, history, table, job, ptr, lat, oldKey, near, stats, ghosts>>

\* The history is written under the lock: a new object if there is none ...
StoreFirst(w) ==
  /\ pc[w] = "commit" /\ prevPtr[job[w].id] = Nil
  /\ \E r \in FreeRefs : /\ prevPtr' = [prevPtr EXCEPT ![job[w].id] = r]
                         /\ heap' = [heap EXCEPT ![r] = job[w].coord]
  /\ Goto(w, "count")
  /\ UNCHANGED <<grid, registered, table, job, ptr, lat, oldKey, near, events, view, stats, ghosts>>

\* Mutant of StoreHalf: the lock is not taken.
StoreUnlocked(w) ==
  /\ pc[w] = "commit" /\ prevPtr[job[w].id] # Nil
  /\ \/ /\ heap' = [heap EXCEPT ![prevPtr[job[w].id]].lat = job[w].coord.lat]
        /\ Goto(w, "storeLng")
     \/ /\ heap' = [heap EXCEPT ![prevPtr[job[w].id]].lng = job[w].coord.lng]
        /\ Goto(w, "storeLat")
  /\ UNCHANGED <<grid, registered, prevPtr, table, job, ptr, lat, oldKey, near, events,
                 view, stats, ghosts>>

\* ... or *p = coord, one field at a time, in either order.
StoreHalf(w) ==
  /\ pc[w] = "commit" /\ prevPtr[job[w].id] # Nil /\ ~Locked(job[w].id)
  /\ \/ /\ heap' = [heap EXCEPT ![prevPtr[job[w].id]].lat = job[w].coord.lat]
        /\ Goto(w, "storeLng")
     \/ /\ heap' = [heap EXCEPT ![prevPtr[job[w].id]].lng = job[w].coord.lng]
        /\ Goto(w, "storeLat")
  /\ UNCHANGED <<grid, registered, prevPtr, table, job, ptr, lat, oldKey, near, events,
                 view, stats, ghosts>>

StoreRest(w) ==
  /\ \/ /\ pc[w] = "storeLng"
        /\ heap' = [heap EXCEPT ![prevPtr[job[w].id]].lng = job[w].coord.lng]
     \/ /\ pc[w] = "storeLat"
        /\ heap' = [heap EXCEPT ![prevPtr[job[w].id]].lat = job[w].coord.lat]
  /\ Goto(w, "count")
  /\ UNCHANGED <<grid, registered, prevPtr, table, job, ptr, lat, oldKey, near, events,
                 view, stats, ghosts>>

\* Mutant of Account: the analytics are forgotten.
AccountRouted(w) ==
  /\ pc[w] = "count"
  /\ routed' = routed + 1
  /\ Finish(w)
  /\ UNCHANGED <<grid, registered, history, table, lat, oldKey, near, events, view, hll,
                 dropped, ghosts>>

Account(w) ==
  /\ pc[w] = "count"
  /\ hll' = [hll EXCEPT ![job[w].id] = @ \cup {ShardKey(job[w].coord)}]
  /\ routed' = routed + 1
  /\ Finish(w)
  /\ UNCHANGED <<grid, registered, history, table, lat, oldKey, near, events, view,
                 dropped, ghosts>>

Process(w) ==
  \/ LoadPrevious(w) \/ CompareLat(w) \/ CompareLng(w)
  \/ KeyLat(w) \/ KeyLng(w) \/ DeleteOld(w) \/ InsertNew(w)
  \/ FindFences(w) \/ FromLat(w) \/ FromLng(w) \/ Fire(w)
  \/ StoreFirst(w) \/ StoreHalf(w) \/ StoreRest(w) \/ Account(w)

Next ==
  \/ \E f \in Fences : AddFence(f)
  \/ \E w \in Workers : \E e \in Entities : \E p \in Points : Seed(w, e, p)
  \/ \E w \in Workers : SeedRoute(w)
  \/ \E w \in Workers : \E e \in Entities : \E p \in Points : Arrive(w, e, p)
  \/ \E w \in Workers : Process(w)
  \/ Tick

Spec == Init /\ [][Next]_vars

-----------------------------------------------------------------------------
(* Properties that hold however packets of one entity interleave. *)

\* An entity is in some cell, or a goroutine is about to put it into one.
Visible(e) == grid[e] # {} \/ \E w \in InFlight(e) : pc[w] \in {"insert", "seed"}

\* An entity with a history stays visible, although RouteWithPrevious deletes
\* and inserts under two different locks (grid.go:48-57) and workers that
\* handle the same entity delete each other's entries.
NeverLost == \A e \in Entities : prevPtr[e] # Nil => Visible(e)

\* What the history holds outside its lock is a position the entity was
\* reported or seeded at, never the latitude of one and the longitude of
\* another: the in-place store is whole when the lock is free.
NoTornHistory ==
  \A e \in Entities : (prevPtr[e] # Nil /\ ~Locked(e)) =>
    heap[prevPtr[e]] \in reported[e] \cup seeded[e]

\* Once its packets are done, an entity is in the analytics of every cell
\* the grid shows it in, unless a seed put it there.
AnalyticsComplete ==
  \A e \in Entities : AtRest(e) =>
    CellsHolding(e) \subseteq hll[e] \cup { ShardKey(p) : p \in seeded[e] }

\* Every packet taken is routed, dropped or still being processed, once.
Accounting ==
  taken = routed + dropped
            + Cardinality({ w \in Workers : pc[w] \notin {"idle", "seed"} })

-----------------------------------------------------------------------------
(* Properties of the pipeline when packets of one entity are serial. *)

\* The grid and the history agree on where an entity is.
GridMatchesHistory ==
  \A e \in Entities : AtRest(e) =>
    grid[e] = (IF prevPtr[e] = Nil THEN {} ELSE {heap[prevPtr[e]]})

\* An entity that rests inside a fence was announced to the application, if
\* the box of the fence holds it: its cells are then those FencesNear looks in.
Inside(e, f) == AtRest(e) /\ \E p \in grid[e] : p \in Contains[f]

EnterNeverMissed ==
  \A e \in Entities, f \in registered : BoxHolds[f] /\ Inside(e, f) => view[e][f] >= 1

\* Where a fence is indexed in every cell that occurs, enters and exits
\* alternate: the application's count is exactly "is inside".
IndexedEverywhere(f) == \A p \in Points : ShardKey(p) \in IndexCells[f]

EventsAlternate ==
  \A e \in Entities, f \in registered : (IndexedEverywhere(f) /\ AtRest(e)) =>
    view[e][f] = (IF \E p \in grid[e] : p \in Contains[f] THEN 1 ELSE 0)

\* No exit of a fence its box holds is announced to an application that has
\* seen no enter.
NoExitWithoutEnter == \A e \in Entities, f \in Fences : BoxHolds[f] => view[e][f] >= 0

\* A packet that repeats the last position of the entity is not processed.
NoDuplicateCommitted ==
  \A w \in Workers : (pc[w] = "commit" /\ prevPtr[job[w].id] # Nil) =>
    heap[prevPtr[job[w].id]] # job[w].coord

-----------------------------------------------------------------------------
(* Properties the repository's documents state and interleavings, cell      *)
(* borders or boxes break.                                                 *)

\* "Current tracked entities in spatial grid": an entity counts once.
CountedOnce ==
  \A e \in Entities : AtRest(e) => Cardinality(CellsHolding(e)) <= 1

\* "the millisecond a boundary is crossed": an entity that rests inside any
\* fence was announced to the application.
EnterAnnounced ==
  \A e \in Entities, f \in registered : Inside(e, f) => view[e][f] >= 1

\* Likewise: an entity that rests outside a fence is not still inside it for
\* the application.
ExitNeverMissed ==
  \A e \in Entities, f \in registered :
    (AtRest(e) /\ grid[e] # {} /\ \A p \in grid[e] : p \notin Contains[f])
      => view[e][f] = 0
=============================================================================
