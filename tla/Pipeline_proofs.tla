-------------------------- MODULE Pipeline_proofs ---------------------------
(***************************************************************************)
(* Proofs about Pipeline, for any number of workers and entities, any      *)
(* positions and fences, whether or not packets of an entity are serial:   *)
(* types, the accounting of packets, and that however packets of one       *)
(* entity interleave it is not lost from the grid, the analytics miss no   *)
(* cell it was brought to, and its history is not torn.                    *)
(***************************************************************************)
EXTENDS Pipeline, FiniteSetTheorems, TLAPS

-----------------------------------------------------------------------------
(* What the operators of the grid and the fences return. *)

LEMMA KeyInCells == ASSUME NEW p \in Points PROVE ShardKey(p) \in Cells
<1>1. p.lat \in Int /\ p.lng \in Int
  <2>1. p.lat \in Lats /\ p.lng \in Lngs
    BY DEF Points
  <2>2. \A y \in Lats : y \in -90 .. 90
    BY GridAssumption
  <2>3. \A x \in Lngs : x \in -180 .. 180
    BY GridAssumption
  <2>4. QED  BY <2>1, <2>2, <2>3
<1>2. LatBand(p.lat) \in Int /\ LngBand(p.lng) \in Int
  BY <1>1 DEF LatBand, LngBand
<1>3. \A x \in Int : Clamp(x) \in 0 .. 15
  BY DEF Clamp
<1>4. \A i, j \in 0 .. 15 : 16 * i + j \in 0 .. 255
  OBVIOUS
<1>5. QED  BY <1>2, <1>3, <1>4 DEF ShardKey, Cells

LEMMA SketchType ==
  EmptyTable \in Tables /\ \A t \in Tables, e \in Entities : Bump(t, e) \in Tables
  BY SketchAssumption DEF EmptyTable, Tables, Bump

LEMMA EventsType ==
  ASSUME NEW f \in Fences, NEW p \in Points, NEW q \in Points, NEW S \in SUBSET Fences
  PROVE  FirstSightEvents(S, p) \subseteq Events /\ MoveEvents(f, p, q) \subseteq Events
  BY DEF FirstSightEvents, MoveEvents, Events

LEMMA RouteType ==
  ASSUME GridTypeOK, NEW e \in Entities, NEW p \in Points, Route(e, p)
  PROVE  GridTypeOK' /\ grid'[e] # {} /\ \A d \in Entities \ {e} : grid'[d] = grid[d]
  BY DEF GridTypeOK, Route, Without

LEMMA DeleteType ==
  ASSUME GridTypeOK, NEW e \in Entities, NEW c, DeleteEntry(e, c)
  PROVE  GridTypeOK' /\ \A d \in Entities \ {e} : grid'[d] = grid[d]
  BY DEF GridTypeOK, DeleteEntry, Without

-----------------------------------------------------------------------------
(* Type correctness. *)

LEMMA InitType == Init => TypeOK
  BY SketchType DEF Init, TypeOK, LocalOK, GridInit, GridTypeOK, FenceInit, FenceTypeOK, Steps, Storing

\* A busy worker has a packet; a pointer it holds leads to a position.
LEMMA BusyJob ==
  ASSUME TypeOK, NEW w \in Workers, pc[w] # "idle"
  PROVE  job[w] \in Jobs /\ job[w].id \in Entities /\ job[w].coord \in Points
  BY DEF TypeOK, LocalOK, Jobs

LEMMA HeldPosition ==
  ASSUME TypeOK, NEW w \in Workers, ptr[w] # Nil
  PROVE  heap[ptr[w]] \in Points /\ heap[ptr[w]].lat \in Lats /\ heap[ptr[w]].lng \in Lngs
  BY DEF TypeOK, LocalOK, Points

LEMMA SeenPosition ==
  ASSUME TypeOK, NEW w \in Workers, ptr[w] # Nil, lat[w] # Nil
  PROVE  Seen(w) \in Points
  BY HeldPosition DEF TypeOK, Seen, Points

\* What a step of one worker leaves in order for the others.
LEMMA OthersOK ==
  ASSUME TypeOK, NEW v \in Workers,
         pc'[v] = pc[v], job'[v] = job[v], ptr'[v] = ptr[v], lat'[v] = lat[v],
         oldKey'[v] = oldKey[v], near'[v] = near[v],
         \A e \in Entities : prevPtr[e] # Nil => prevPtr'[e] # Nil,
         \A r \in Refs : heap[r] # Nil => heap'[r] # Nil
  PROVE  LocalOK(v)'
  BY DEF TypeOK, LocalOK, Storing, Jobs

LEMMA SetupType ==
  ASSUME TypeOK,
         \/ \E f \in Fences : AddFence(f)
         \/ Tick
  PROVE  TypeOK'
  BY SketchType DEF TypeOK, LocalOK, AddFence, Tick, Register, GridTypeOK, FenceTypeOK, history,
     locals, stats, ghosts

LEMMA SeedType ==
  ASSUME TypeOK, NEW w \in Workers, NEW e \in Entities, NEW p \in Points, Seed(w, e, p)
  PROVE  TypeOK'
  BY NilAssumption DEF TypeOK, LocalOK, Seed, GridTypeOK, FenceTypeOK, stats, Goto, Jobs, Steps,
     Storing, FreeRefs

LEMMA ArriveType ==
  ASSUME TypeOK, NEW w \in Workers, NEW e \in Entities, NEW p \in Points, Arrive(w, e, p)
  PROVE  TypeOK'
<1>1. table' \in Tables
  BY SketchType DEF TypeOK, Arrive
<1>2. CASE UNCHANGED <<pc, job, reported>> /\ dropped' = dropped + 1
  BY <1>1, <1>2 DEF TypeOK, LocalOK, Arrive, GridTypeOK, FenceTypeOK, history, Storing
<1>3. CASE /\ Goto(w, "load") /\ job' = [job EXCEPT ![w] = [id |-> e, coord |-> p]]
           /\ reported' = [reported EXCEPT ![e] = @ \cup {p}] /\ UNCHANGED dropped
  <2>1. [id |-> e, coord |-> p] \in Jobs /\ [id |-> e, coord |-> p] # Nil
    BY NilAssumption DEF Jobs
  <2>2. QED
    BY <1>1, <1>3, <2>1 DEF TypeOK, LocalOK, Arrive, GridTypeOK, FenceTypeOK, history, Goto, Steps,
       Storing
<1>4. QED  BY <1>2, <1>3 DEF Arrive

LEMMA ReadType ==
  ASSUME TypeOK, NEW w \in Workers,
         LoadPrevious(w) \/ CompareLat(w) \/ CompareLng(w) \/ KeyLat(w)
  PROVE  TypeOK'
<1>1. CASE LoadPrevious(w)
  <2>0. job[w] \in Jobs /\ job[w].id \in Entities
    BY <1>1, BusyJob DEF LoadPrevious
  <2>1. pc' \in [Workers -> Steps] /\ ptr' \in [Workers -> Refs \cup {Nil}]
    BY <1>1, <2>0 DEF TypeOK, LoadPrevious, Goto, Steps
  <2>2. LocalOK(w)'
    BY <1>1, <2>0 DEF TypeOK, LocalOK, LoadPrevious, Goto, Storing, history
  <2>3. \A v \in Workers \ {w} : LocalOK(v)'
    BY <1>1, OthersOK DEF LoadPrevious, Goto, history, TypeOK
  <2>4. QED
    BY <1>1, <2>1, <2>2, <2>3 DEF TypeOK, LoadPrevious, GridTypeOK, FenceTypeOK, history, stats, ghosts
<1>2. CASE CompareLat(w)
  <2>0. heap[ptr[w]].lat \in Lats
    BY <1>2, HeldPosition DEF CompareLat, TypeOK, LocalOK
  <2>1. pc' \in [Workers -> Steps] /\ lat' \in [Workers -> Lats \cup {Nil}]
    BY <1>2, <2>0 DEF TypeOK, CompareLat, LoadLat, Goto, Steps
  <2>2. LocalOK(w)'
    BY <1>2, <2>0, NilAssumption DEF TypeOK, LocalOK, CompareLat, LoadLat, Goto, Storing, history
  <2>3. \A v \in Workers \ {w} : LocalOK(v)'
    BY <1>2, OthersOK DEF CompareLat, LoadLat, Goto, history, TypeOK
  <2>4. QED
    BY <1>2, <2>1, <2>2, <2>3 DEF TypeOK, CompareLat, GridTypeOK, FenceTypeOK, history, stats, ghosts
<1>3. CASE CompareLng(w)
  <2>1. /\ pc' \in [Workers -> Steps] /\ lat' \in [Workers -> Lats \cup {Nil}]
        /\ job' \in [Workers -> Jobs \cup {Nil}] /\ ptr' \in [Workers -> Refs \cup {Nil}]
        /\ dropped' \in Nat
    <3>1. CASE Finish(w) /\ dropped' = dropped + 1
      BY <1>3, <3>1 DEF TypeOK, CompareLng, Finish, Goto, Steps
    <3>2. CASE Goto(w, "keyLat") /\ UNCHANGED <<job, ptr, dropped>>
      BY <1>3, <3>2 DEF TypeOK, CompareLng, Goto, Steps
    <3>3. QED  BY <1>3, <3>1, <3>2 DEF CompareLng
  <2>2. LocalOK(w)'
    BY <1>3 DEF TypeOK, LocalOK, CompareLng, Finish, Goto, Storing, history
  <2>3. \A v \in Workers \ {w} : LocalOK(v)'
    BY <1>3, OthersOK DEF CompareLng, Finish, Goto, history, TypeOK
  <2>4. QED
    BY <1>3, <2>1, <2>2, <2>3 DEF TypeOK, CompareLng, GridTypeOK, FenceTypeOK, history, ghosts
<1>4. CASE KeyLat(w)
  <2>0. heap[ptr[w]].lat \in Lats
    BY <1>4, HeldPosition DEF KeyLat, TypeOK, LocalOK
  <2>1. pc' \in [Workers -> Steps] /\ lat' \in [Workers -> Lats \cup {Nil}]
    BY <1>4, <2>0 DEF TypeOK, KeyLat, LoadLat, Goto, Steps
  <2>2. LocalOK(w)'
    BY <1>4, <2>0, NilAssumption DEF TypeOK, LocalOK, KeyLat, LoadLat, Goto, Storing, history
  <2>3. \A v \in Workers \ {w} : LocalOK(v)'
    BY <1>4, OthersOK DEF KeyLat, LoadLat, Goto, history, TypeOK
  <2>4. QED
    BY <1>4, <2>1, <2>2, <2>3 DEF TypeOK, KeyLat, GridTypeOK, FenceTypeOK, history, stats, ghosts
<1>5. QED  BY <1>1, <1>2, <1>3, <1>4

LEMMA RouteStepsType ==
  ASSUME TypeOK, NEW w \in Workers,
         SeedRoute(w) \/ KeyLng(w) \/ DeleteOld(w) \/ InsertNew(w)
  PROVE  TypeOK'
<1>1. CASE SeedRoute(w)
  <2>0. GridTypeOK'
    BY <1>1, BusyJob, RouteType DEF SeedRoute, TypeOK
  <2>1. /\ pc' \in [Workers -> Steps] /\ job' \in [Workers -> Jobs \cup {Nil}]
        /\ ptr' \in [Workers -> Refs \cup {Nil}]
    BY <1>1 DEF TypeOK, SeedRoute, Finish, Goto, Steps
  <2>2. LocalOK(w)'
    BY <1>1 DEF TypeOK, LocalOK, SeedRoute, Finish, Goto, Storing, history
  <2>3. \A v \in Workers \ {w} : LocalOK(v)'
    BY <1>1, OthersOK DEF SeedRoute, Finish, Goto, history, TypeOK
  <2>4. QED
    BY <1>1, <2>0, <2>1, <2>2, <2>3 DEF TypeOK, SeedRoute, FenceTypeOK, history, stats, ghosts
<1>2. CASE KeyLng(w)
  <2>a. ShardKey(Seen(w)) \in Cells /\ ShardKey(Seen(w)) # Nil
    BY <1>2, SeenPosition, KeyInCells, NilAssumption DEF KeyLng, TypeOK, LocalOK
  <2>b. \/ Goto(w, "insert") /\ UNCHANGED oldKey
        \/ Goto(w, "delete") /\ oldKey' = [oldKey EXCEPT ![w] = ShardKey(Seen(w))]
    BY <1>2 DEF KeyLng
  <2>1. /\ pc' \in [Workers -> Steps] /\ lat' \in [Workers -> Lats \cup {Nil}]
        /\ oldKey' \in [Workers -> Cells \cup {Nil}]
    <3>1. lat' \in [Workers -> Lats \cup {Nil}]
      BY <1>2 DEF TypeOK, KeyLng
    <3>2. CASE Goto(w, "insert") /\ UNCHANGED oldKey
      BY <3>1, <3>2 DEF TypeOK, Goto, Steps
    <3>3. CASE Goto(w, "delete") /\ oldKey' = [oldKey EXCEPT ![w] = ShardKey(Seen(w))]
      BY <2>a, <3>1, <3>3 DEF TypeOK, Goto, Steps
    <3>4. QED  BY <2>b, <3>2, <3>3
  <2>2. LocalOK(w)'
    BY <1>2, <2>a, <2>b DEF TypeOK, LocalOK, KeyLng, Goto, Storing, history
  <2>3. \A v \in Workers \ {w} : LocalOK(v)'
    BY <1>2, <2>b, OthersOK DEF KeyLng, Goto, history, TypeOK
  <2>4. QED
    BY <1>2, <2>1, <2>2, <2>3 DEF TypeOK, KeyLng, GridTypeOK, FenceTypeOK, history, stats, ghosts
<1>3. CASE DeleteOld(w)
  <2>0. GridTypeOK'
    BY <1>3, BusyJob, DeleteType DEF DeleteOld, TypeOK
  <2>1. pc' \in [Workers -> Steps] /\ oldKey' \in [Workers -> Cells \cup {Nil}]
    BY <1>3 DEF TypeOK, DeleteOld, Goto, Steps
  <2>2. LocalOK(w)'
    BY <1>3 DEF TypeOK, LocalOK, DeleteOld, Goto, Storing, history
  <2>3. \A v \in Workers \ {w} : LocalOK(v)'
    BY <1>3, OthersOK DEF DeleteOld, Goto, history, TypeOK
  <2>4. QED
    BY <1>3, <2>0, <2>1, <2>2, <2>3 DEF TypeOK, DeleteOld, FenceTypeOK, history, stats, ghosts
<1>4. CASE InsertNew(w)
  <2>0. GridTypeOK'
    BY <1>4, BusyJob, RouteType DEF InsertNew, TypeOK
  <2>1. pc' \in [Workers -> Steps]
    BY <1>4 DEF TypeOK, InsertNew, Goto, Steps
  <2>2. LocalOK(w)'
    BY <1>4 DEF TypeOK, LocalOK, InsertNew, Goto, Storing, history
  <2>3. \A v \in Workers \ {w} : LocalOK(v)'
    BY <1>4, OthersOK DEF InsertNew, Goto, history, TypeOK
  <2>4. QED
    BY <1>4, <2>0, <2>1, <2>2, <2>3 DEF TypeOK, InsertNew, FenceTypeOK, history, stats, ghosts
<1>5. QED  BY <1>1, <1>2, <1>3, <1>4

LEMMA EvaluateType ==
  ASSUME TypeOK, NEW w \in Workers,
         FindFences(w) \/ FromLat(w) \/ FromLng(w) \/ Fire(w)
  PROVE  TypeOK'
<1>1. CASE FindFences(w)
  <2>a. FencesNear(job[w].coord) \subseteq Fences
    BY DEF FencesNear, TypeOK, FenceTypeOK
  <2>b. FirstSightEvents(FencesNear(job[w].coord), job[w].coord) \subseteq Events
    BY <2>a DEF FirstSightEvents, Events
  <2>1. /\ pc' \in [Workers -> Steps] /\ near' \in [Workers -> SUBSET Fences]
        /\ events' \in [Workers -> SUBSET Events]
    <3> DEFINE first == FirstSightEvents(FencesNear(job[w].coord), job[w].coord)
    <3>1. CASE events' = [events EXCEPT ![w] = first] /\ Goto(w, "fire") /\ UNCHANGED near
      <4> HIDE DEF first
      <4>1. first \in SUBSET Events
        BY <2>b DEF first
      <4>2. QED  BY <3>1, <4>1 DEF TypeOK, Goto, Steps
    <3>2. CASE near' = [near EXCEPT ![w] = FencesNear(job[w].coord)]
               /\ Goto(w, "fences") /\ UNCHANGED events
      BY <2>a, <3>2 DEF TypeOK, Goto, Steps
    <3>3. QED  BY <1>1, <3>1, <3>2 DEF FindFences
  <2>2. LocalOK(w)'
    BY <1>1 DEF TypeOK, LocalOK, FindFences, Goto, Storing, history
  <2>3. \A v \in Workers \ {w} : LocalOK(v)'
    BY <1>1, OthersOK DEF FindFences, Goto, history, TypeOK
  <2>4. QED
    BY <1>1, <2>1, <2>2, <2>3 DEF TypeOK, FindFences, GridTypeOK, FenceTypeOK, history, stats, ghosts
<1>2. CASE FromLat(w)
  <2>0. heap[ptr[w]].lat \in Lats
    BY <1>2, HeldPosition DEF FromLat, TypeOK, LocalOK
  <2>1. pc' \in [Workers -> Steps] /\ lat' \in [Workers -> Lats \cup {Nil}]
    BY <1>2, <2>0 DEF TypeOK, FromLat, LoadLat, Goto, Steps
  <2>2. LocalOK(w)'
    BY <1>2, <2>0, NilAssumption DEF TypeOK, LocalOK, FromLat, LoadLat, Goto, Storing, history
  <2>3. \A v \in Workers \ {w} : LocalOK(v)'
    BY <1>2, OthersOK DEF FromLat, LoadLat, Goto, history, TypeOK
  <2>4. QED
    BY <1>2, <2>1, <2>2, <2>3 DEF TypeOK, FromLat, GridTypeOK, FenceTypeOK, history, stats, ghosts
<1>3. CASE FromLng(w)
  <2> DEFINE f == CHOOSE g \in near[w] : TRUE
  <2>a. f \in near[w] /\ near[w] \subseteq Fences
    BY <1>3 DEF FromLng, TypeOK, LocalOK
  <2>b. MoveEvents(f, Seen(w), job[w].coord) \subseteq Events
    BY <2>a DEF MoveEvents, Events
  <2>c. /\ near' = [near EXCEPT ![w] = @ \ {f}]
        /\ events' = [events EXCEPT ![w] = @ \cup MoveEvents(f, Seen(w), job[w].coord)]
    BY <1>3 DEF FromLng
  <2> HIDE DEF f
  <2>1. /\ pc' \in [Workers -> Steps] /\ near' \in [Workers -> SUBSET Fences]
        /\ events' \in [Workers -> SUBSET Events] /\ lat' \in [Workers -> Lats \cup {Nil}]
    BY <1>3, <2>a, <2>b, <2>c DEF TypeOK, FromLng, Goto, Steps
  <2>2. LocalOK(w)'
    BY <1>3 DEF TypeOK, LocalOK, FromLng, Goto, Storing, history
  <2>3. \A v \in Workers \ {w} : LocalOK(v)'
    BY <1>3, <2>c, OthersOK DEF FromLng, Goto, history, TypeOK
  <2>4. QED
    BY <1>3, <2>1, <2>2, <2>3 DEF TypeOK, FromLng, GridTypeOK, FenceTypeOK, history, stats, ghosts
<1>4. CASE Fire(w)
  <2>a. \A f \in Fences : Balance(f, events[w]) \in Int
    BY DEF Balance
  <2>1. /\ pc' \in [Workers -> Steps] /\ view' \in [Entities -> [Fences -> Int]]
        /\ events' \in [Workers -> SUBSET Events]
    BY <1>4, <2>a, BusyJob DEF TypeOK, Fire, Goto, Steps
  <2>2. LocalOK(w)'
    BY <1>4 DEF TypeOK, LocalOK, Fire, Goto, Storing, history
  <2>3. \A v \in Workers \ {w} : LocalOK(v)'
    BY <1>4, OthersOK DEF Fire, Goto, history, TypeOK
  <2>4. QED
    BY <1>4, <2>1, <2>2, <2>3 DEF TypeOK, Fire, GridTypeOK, FenceTypeOK, history, stats, ghosts
<1>5. QED  BY <1>1, <1>2, <1>3, <1>4

LEMMA StoreType ==
  ASSUME TypeOK, NEW w \in Workers,
         StoreFirst(w) \/ StoreHalf(w) \/ StoreRest(w) \/ Account(w)
  PROVE  TypeOK'
<1>1. CASE StoreFirst(w)
  <2>a. PICK r \in FreeRefs : /\ prevPtr' = [prevPtr EXCEPT ![job[w].id] = r]
                              /\ heap' = [heap EXCEPT ![r] = job[w].coord]
    BY <1>1 DEF StoreFirst
  <2>b. job[w].id \in Entities /\ job[w].coord \in Points /\ r \in Refs
    BY <1>1, BusyJob DEF StoreFirst, FreeRefs
  <2>1. /\ pc' \in [Workers -> Steps] /\ prevPtr' \in [Entities -> Refs \cup {Nil}]
        /\ heap' \in [Refs -> Points \cup {Nil}]
        /\ \A e \in Entities : prevPtr[e] # Nil => prevPtr'[e] # Nil
        /\ \A s \in Refs : heap[s] # Nil => heap'[s] # Nil
        /\ \A e \in Entities : prevPtr'[e] # Nil => heap'[prevPtr'[e]] # Nil
    BY <1>1, <2>a, <2>b, NilAssumption DEF TypeOK, StoreFirst, Goto, Steps
  <2>2. LocalOK(w)'
    BY <1>1, <2>1 DEF TypeOK, LocalOK, StoreFirst, Goto, Storing
  <2>3. \A v \in Workers \ {w} : LocalOK(v)'
    BY <1>1, <2>1, OthersOK DEF StoreFirst, Goto, TypeOK
  <2>4. QED
    BY <1>1, <2>1, <2>2, <2>3 DEF TypeOK, StoreFirst, GridTypeOK, FenceTypeOK, stats, ghosts
<1>2. CASE StoreHalf(w)
  <2>a. job[w].id \in Entities /\ job[w].coord \in Points /\ prevPtr[job[w].id] \in Refs
        /\ heap[prevPtr[job[w].id]] \in Points
    BY <1>2, BusyJob DEF StoreHalf, TypeOK
  <2>1. /\ pc' \in [Workers -> Steps] /\ heap' \in [Refs -> Points \cup {Nil}]
        /\ \A s \in Refs : heap[s] # Nil => heap'[s] # Nil
    <3>1. \A p \in Points, q \in Points :
            [p EXCEPT !.lat = q.lat] \in Points /\ [p EXCEPT !.lng = q.lng] \in Points
      BY DEF Points
    <3>2. PICK p \in Points : heap' = [heap EXCEPT ![prevPtr[job[w].id]] = p]
      BY <1>2, <2>a, <3>1 DEF StoreHalf, TypeOK
    <3>3. pc' \in [Workers -> Steps]
      BY <1>2 DEF TypeOK, StoreHalf, Goto, Steps
    <3>4. QED  BY <2>a, <3>2, <3>3, NilAssumption DEF TypeOK
  <2>2. LocalOK(w)'
    BY <1>2, <2>1 DEF TypeOK, LocalOK, StoreHalf, Goto, Storing
  <2>3. \A v \in Workers \ {w} : LocalOK(v)'
    BY <1>2, <2>1, OthersOK DEF StoreHalf, Goto, TypeOK
  <2>4. QED
    BY <1>2, <2>1, <2>2, <2>3 DEF TypeOK, StoreHalf, GridTypeOK, FenceTypeOK, stats, ghosts
<1>3. CASE StoreRest(w)
  <2>a. job[w].id \in Entities /\ job[w].coord \in Points /\ prevPtr[job[w].id] \in Refs
        /\ heap[prevPtr[job[w].id]] \in Points
    BY <1>3, BusyJob DEF StoreRest, TypeOK, LocalOK, Storing
  <2>1. /\ pc' \in [Workers -> Steps] /\ heap' \in [Refs -> Points \cup {Nil}]
        /\ \A s \in Refs : heap[s] # Nil => heap'[s] # Nil
    <3>1. \A p \in Points, q \in Points :
            [p EXCEPT !.lat = q.lat] \in Points /\ [p EXCEPT !.lng = q.lng] \in Points
      BY DEF Points
    <3>2. \E p \in Points : heap' = [heap EXCEPT ![prevPtr[job[w].id]] = p]
      BY <1>3, <2>a, <3>1 DEF StoreRest, TypeOK
    <3>3. QED  BY <1>3, <2>a, <3>2, NilAssumption DEF TypeOK, StoreRest, Goto, Steps
  <2>2. LocalOK(w)'
    BY <1>3, <2>1 DEF TypeOK, LocalOK, StoreRest, Goto, Storing
  <2>3. \A v \in Workers \ {w} : LocalOK(v)'
    BY <1>3, <2>1, OthersOK DEF StoreRest, Goto, TypeOK
  <2>4. QED
    BY <1>3, <2>1, <2>2, <2>3 DEF TypeOK, StoreRest, GridTypeOK, FenceTypeOK, stats, ghosts
<1>4. CASE Account(w)
  <2>0. ShardKey(job[w].coord) \in Cells /\ job[w].id \in Entities
    BY <1>4, BusyJob, KeyInCells DEF Account
  <2>1. /\ pc' \in [Workers -> Steps] /\ job' \in [Workers -> Jobs \cup {Nil}]
        /\ ptr' \in [Workers -> Refs \cup {Nil}]
        /\ hll' \in [Entities -> SUBSET Cells] /\ routed' \in Nat
    BY <1>4, <2>0 DEF TypeOK, Account, Finish, Goto, Steps
  <2>2. LocalOK(w)'
    BY <1>4 DEF TypeOK, LocalOK, Account, Finish, Goto, Storing, history
  <2>3. \A v \in Workers \ {w} : LocalOK(v)'
    BY <1>4, OthersOK DEF Account, Finish, Goto, history, TypeOK
  <2>4. QED
    BY <1>4, <2>1, <2>2, <2>3 DEF TypeOK, Account, GridTypeOK, FenceTypeOK, history, ghosts
<1>5. QED  BY <1>1, <1>2, <1>3, <1>4

\* Every step keeps the types: the theorem below is one induction over them.
LEMMA StepType == TypeOK /\ [Next]_vars => TypeOK'
<1> SUFFICES ASSUME TypeOK, [Next]_vars PROVE TypeOK'
  OBVIOUS
<1>1. CASE UNCHANGED vars
  BY <1>1 DEF vars, TypeOK, LocalOK, GridTypeOK, FenceTypeOK
<1>2. ASSUME NEW w \in Workers, Process(w) PROVE TypeOK'
  BY <1>2, ReadType, RouteStepsType, EvaluateType, StoreType DEF Process
<1>3. QED
  BY <1>1, <1>2, SetupType, SeedType, ArriveType, RouteStepsType DEF Next

\* The model's state keeps its shape; a pointer a worker dereferences without
\* a nil check is never nil (pipeline.go:52-54).
THEOREM TypeCorrect == Spec => []TypeOK
  BY InitType, StepType, PTL DEF Spec

-----------------------------------------------------------------------------
(* No packet is counted twice or forgotten. *)

\* The workers that hold a packet neither counter knows of yet.
Handling == { w \in Workers : pc[w] \notin {"idle", "seed"} }

AInv == TypeOK /\ Accounting

LEMMA HandlingFinite ==
  \A S \in SUBSET Workers : IsFiniteSet(S) /\ Cardinality(S) \in Nat
  BY PipelineAssumption, FS_Subset, FS_CardinalityType

\* The steps of a packet between its arrival and its end.
Between(w) ==
  \/ LoadPrevious(w) \/ CompareLat(w) \/ KeyLat(w) \/ KeyLng(w) \/ DeleteOld(w)
  \/ InsertNew(w) \/ FindFences(w) \/ FromLat(w) \/ FromLng(w) \/ Fire(w)
  \/ StoreFirst(w) \/ StoreHalf(w) \/ StoreRest(w)

LEMMA BetweenHandling ==
  ASSUME TypeOK, NEW w \in Workers, Between(w)
  PROVE  Handling' = Handling /\ UNCHANGED <<taken, routed, dropped>>
<1>1. CASE LoadPrevious(w) \/ CompareLat(w) \/ KeyLat(w) \/ FromLat(w)
  BY <1>1 DEF TypeOK, LoadPrevious, CompareLat, KeyLat, FromLat, LoadLat, Goto, Handling, stats, ghosts
<1>2. CASE KeyLng(w) \/ DeleteOld(w) \/ InsertNew(w) \/ FindFences(w)
  BY <1>2 DEF TypeOK, KeyLng, DeleteOld, InsertNew, FindFences, Goto, Handling, stats, ghosts
<1>3. CASE FromLng(w) \/ Fire(w) \/ StoreFirst(w) \/ StoreHalf(w) \/ StoreRest(w)
  BY <1>3 DEF TypeOK, FromLng, Fire, StoreFirst, StoreHalf, StoreRest, Goto, Handling, stats, ghosts
<1>4. QED  BY <1>1, <1>2, <1>3 DEF Between

\* A packet ends as a duplicate or routed, and is counted in the same step.
LEMMA EndHandling ==
  ASSUME TypeOK, NEW w \in Workers, CompareLng(w) \/ Account(w)
  PROVE  \/ Handling' = Handling /\ UNCHANGED <<taken, routed, dropped>>
         \/ /\ w \in Handling /\ Handling' = Handling \ {w} /\ taken' = taken
            /\ routed' + dropped' = routed + dropped + 1
<1>1. CASE CompareLng(w) /\ Goto(w, "keyLat") /\ dropped' = dropped
  BY <1>1 DEF TypeOK, CompareLng, Goto, Handling, ghosts
<1>2. CASE CompareLng(w) /\ Finish(w) /\ dropped' = dropped + 1
  <2>1. Handling' = Handling \ {w} /\ w \in Handling
    BY <1>2 DEF TypeOK, CompareLng, Finish, Goto, Handling
  <2>2. taken' = taken /\ routed' = routed /\ routed \in Nat /\ dropped \in Nat
    BY <1>2 DEF TypeOK, CompareLng, ghosts
  <2>3. QED  BY <1>2, <2>1, <2>2
<1>3. CASE Account(w)
  <2>1. Handling' = Handling \ {w} /\ w \in Handling
    BY <1>3 DEF TypeOK, Account, Finish, Goto, Handling
  <2>2. taken' = taken /\ routed' = routed + 1 /\ dropped' = dropped /\ routed \in Nat /\ dropped \in Nat
    BY <1>3 DEF TypeOK, Account, ghosts
  <2>3. QED  BY <2>1, <2>2
<1>4. QED  BY <1>1, <1>2, <1>3 DEF CompareLng

LEMMA ArriveHandling ==
  ASSUME TypeOK, NEW w \in Workers, NEW e \in Entities, NEW p \in Points, Arrive(w, e, p)
  PROVE  /\ taken' = taken + 1 /\ routed' = routed
         /\ \/ Handling' = Handling /\ dropped' = dropped + 1
            \/ w \notin Handling /\ Handling' = Handling \cup {w} /\ dropped' = dropped
  BY DEF TypeOK, Arrive, Goto, Handling

\* A seed is not a packet.
LEMMA OtherHandling ==
  ASSUME TypeOK,
         \/ \E f \in Fences : AddFence(f)
         \/ \E w \in Workers, e \in Entities, p \in Points : Seed(w, e, p)
         \/ \E w \in Workers : SeedRoute(w)
         \/ Tick
         \/ UNCHANGED vars
  PROVE  Handling' = Handling /\ UNCHANGED <<taken, routed, dropped>>
<1>1. CASE \E f \in Fences : AddFence(f)
  BY <1>1 DEF AddFence, Handling, locals, stats, ghosts
<1>2. CASE \E w \in Workers, e \in Entities, p \in Points : Seed(w, e, p)
  BY <1>2 DEF TypeOK, Seed, Goto, Handling, stats
<1>3. CASE \E w \in Workers : SeedRoute(w)
  BY <1>3 DEF TypeOK, SeedRoute, Finish, Goto, Handling, stats, ghosts
<1>4. CASE Tick \/ UNCHANGED vars
  BY <1>4 DEF Tick, vars, Handling, locals, stats, ghosts
<1>5. QED  BY <1>1, <1>2, <1>3, <1>4

LEMMA AccountingStep == AInv /\ [Next]_vars => AInv'
<1> SUFFICES ASSUME AInv, [Next]_vars PROVE AInv'
  OBVIOUS
<1>1. TypeOK /\ TypeOK'
  BY StepType DEF AInv
<1>2. /\ Handling \in SUBSET Workers /\ IsFiniteSet(Handling) /\ Cardinality(Handling) \in Nat
      /\ routed \in Nat /\ dropped \in Nat /\ routed' \in Nat /\ dropped' \in Nat
      /\ taken = routed + dropped + Cardinality(Handling)
  BY <1>1, HandlingFinite DEF Handling, AInv, Accounting, TypeOK
<1>3. \/ Handling' = Handling /\ UNCHANGED <<taken, routed, dropped>>
      \/ \E w \in Workers : /\ w \in Handling /\ Handling' = Handling \ {w} /\ taken' = taken
                            /\ routed' + dropped' = routed + dropped + 1
      \/ /\ Handling' = Handling /\ taken' = taken + 1
         /\ routed' = routed /\ dropped' = dropped + 1
      \/ \E w \in Workers : /\ w \notin Handling /\ Handling' = Handling \cup {w}
                            /\ taken' = taken + 1 /\ UNCHANGED <<routed, dropped>>
  BY <1>1, BetweenHandling, EndHandling, ArriveHandling, OtherHandling DEF Next, Process, Between
<1>4. taken' = routed' + dropped' + Cardinality(Handling')
  <2>1. ASSUME NEW w \in Handling, Handling' = Handling \ {w}
        PROVE  Cardinality(Handling') = Cardinality(Handling) - 1
    BY <1>2, <2>1, FS_RemoveElement
  <2>2. ASSUME NEW w \in Workers, w \notin Handling, Handling' = Handling \cup {w}
        PROVE  Cardinality(Handling') = Cardinality(Handling) + 1
    BY <1>2, <2>2, FS_AddElement
  <2>3. CASE Handling' = Handling
    <3>1. UNCHANGED <<taken, routed, dropped>>
          \/ (taken' = taken + 1 /\ routed' = routed /\ dropped' = dropped + 1)
      BY <1>3, <2>3
    <3>2. QED  BY <1>2, <2>3, <3>1
  <2>4. CASE \E w \in Workers : w \in Handling /\ Handling' = Handling \ {w}
    <3>1. taken' = taken /\ routed' + dropped' = routed + dropped + 1
      BY <1>3, <2>4
    <3>2. Cardinality(Handling') = Cardinality(Handling) - 1
      BY <2>1, <2>4
    <3>3. taken = (routed + dropped + 1) + (Cardinality(Handling) - 1)
      BY <1>2
    <3>4. QED  BY <3>1, <3>2, <3>3
  <2>5. CASE \E w \in Workers : w \notin Handling /\ Handling' = Handling \cup {w}
    <3>1. taken' = taken + 1 /\ UNCHANGED <<routed, dropped>>
      BY <1>3, <2>5
    <3>2. Cardinality(Handling') = Cardinality(Handling) + 1
      BY <2>2, <2>5
    <3>3. QED  BY <1>2, <3>1, <3>2
  <2>6. QED  BY <1>3, <2>3, <2>4, <2>5
<1>5. QED  BY <1>1, <1>4 DEF AInv, Accounting, Handling

\* Every packet ProcessPacket takes is dropped by the limiter, dropped as a
\* duplicate, routed, or in the hands of a worker, and counted exactly once,
\* for any number of workers (pipeline.go:31-70).
THEOREM AccountingHolds == Spec => []Accounting
<1>1. Init => AInv
  <2> SUFFICES ASSUME Init PROVE AInv
    OBVIOUS
  <2>1. Handling = {} /\ taken = 0 /\ routed = 0 /\ dropped = 0
    BY DEF Init, Handling
  <2>2. Cardinality(Handling) = 0
    BY <2>1, FS_EmptySet
  <2>3. taken = routed + dropped + Cardinality(Handling)
    BY <2>1, <2>2
  <2>4. QED  BY <2>3, InitType DEF AInv, Accounting, Handling
<1>2. AInv => Accounting
  BY DEF AInv
<1>3. QED  BY <1>1, <1>2, AccountingStep, PTL DEF Spec

-----------------------------------------------------------------------------
(* A delete is always followed by an insert of the same goroutine, so once *)
(* visible an entity stays visible (VisibleStays). What has to be added to *)
(* NeverLost to make it inductive is that a worker past its insert works   *)
(* on a visible entity: it is the one that will create the history.        *)

\* The steps of ProcessPacket after RouteWithPrevious.
Placed == {"near", "fences", "fromLng", "fire", "commit", "storeLat", "storeLng", "count"}

PlacedVisible == \A w \in Workers : pc[w] \in Placed => Visible(job[w].id)

VInv == TypeOK /\ NeverLost /\ PlacedVisible

\* A step that neither empties the grid nor moves a goroutine away from its
\* insert keeps an entity visible.
LEMMA VisibleKept ==
  ASSUME NEW e \in Entities, Visible(e),
         grid[e] # {} => grid'[e] # {},
         \A v \in Workers : pc[v] \in {"insert", "seed"} => pc'[v] = pc[v] /\ job'[v] = job[v]
  PROVE  Visible(e)'
  BY DEF Visible, InFlight

LEMMA InsertVisible ==
  ASSUME TypeOK, NEW w \in Workers, InsertNew(w) \/ SeedRoute(w), NEW e \in Entities
  PROVE  Visible(e) \/ e = job[w].id => Visible(e)'
<1>1. /\ pc[w] \in {"insert", "seed"} /\ Route(job[w].id, job[w].coord)
      /\ \A v \in Workers \ {w} : pc'[v] = pc[v] /\ job'[v] = job[v]
  BY DEF InsertNew, SeedRoute, Finish, Goto, TypeOK
<1>2. job[w].id \in Entities /\ job[w].coord \in Points
  BY <1>1, BusyJob
<1>3. grid'[job[w].id] # {} /\ \A d \in Entities \ {job[w].id} : grid'[d] = grid[d]
  BY <1>1, <1>2, RouteType DEF TypeOK
<1>4. ASSUME e # job[w].id, Visible(e) PROVE Visible(e)'
  BY <1>1, <1>3, <1>4 DEF Visible, InFlight
<1>5. CASE e = job[w].id
  BY <1>3, <1>5 DEF Visible
<1>6. QED  BY <1>4, <1>5

LEMMA DeleteVisible ==
  ASSUME TypeOK, NEW w \in Workers, DeleteOld(w), NEW e \in Entities, Visible(e)
  PROVE  Visible(e)'
<1>1. /\ pc[w] = "delete" /\ pc'[w] = "insert" /\ job' = job
      /\ \A v \in Workers \ {w} : pc'[v] = pc[v]
  BY DEF DeleteOld, Goto, TypeOK
<1>2. job[w].id \in Entities
  BY <1>1, BusyJob
<1>3. CASE e = job[w].id
  BY <1>1, <1>3 DEF Visible, InFlight
<1>4. CASE e # job[w].id
  <2>1. grid'[e] = grid[e]
    BY <1>2, <1>4, DeleteType DEF DeleteOld, TypeOK
  <2>2. QED  BY <1>1, <2>1 DEF Visible, InFlight
<1>5. QED  BY <1>3, <1>4

\* The steps that change no grid entry and leave no insert behind.
Quiet(w) ==
  \/ LoadPrevious(w) \/ CompareLat(w) \/ CompareLng(w) \/ KeyLat(w) \/ KeyLng(w)
  \/ FindFences(w) \/ FromLat(w) \/ FromLng(w) \/ Fire(w)
  \/ StoreFirst(w) \/ StoreHalf(w) \/ StoreRest(w) \/ Account(w)
  \/ \E e \in Entities, p \in Points : Seed(w, e, p)
  \/ \E e \in Entities, p \in Points : Arrive(w, e, p)

LEMMA QuietFrame ==
  ASSUME TypeOK, NEW w \in Workers, Quiet(w)
  PROVE  /\ grid' = grid /\ pc[w] \notin {"insert", "seed"}
         /\ \A v \in Workers \ {w} : pc'[v] = pc[v] /\ job'[v] = job[v]
<1>1. CASE LoadPrevious(w) \/ CompareLat(w) \/ KeyLat(w) \/ FromLat(w)
  BY <1>1 DEF TypeOK, LoadPrevious, CompareLat, KeyLat, FromLat, LoadLat, Goto
<1>2. CASE CompareLng(w) \/ KeyLng(w)
  BY <1>2 DEF TypeOK, CompareLng, KeyLng, Finish, Goto
<1>3. CASE FindFences(w) \/ FromLng(w) \/ Fire(w)
  BY <1>3 DEF TypeOK, FindFences, FromLng, Fire, Goto
<1>4. CASE StoreFirst(w) \/ StoreHalf(w) \/ StoreRest(w) \/ Account(w)
  BY <1>4 DEF TypeOK, StoreFirst, StoreHalf, StoreRest, Account, Finish, Goto
<1>5. CASE \E e \in Entities, p \in Points : Seed(w, e, p)
  BY <1>5 DEF TypeOK, Seed, Goto
<1>6. CASE \E e \in Entities, p \in Points : Arrive(w, e, p)
  BY <1>6 DEF TypeOK, Arrive, Goto
<1>7. QED  BY <1>1, <1>2, <1>3, <1>4, <1>5, <1>6 DEF Quiet

LEMMA StepCases ==
  ASSUME [Next]_vars
  PROVE  \/ \E w \in Workers : Quiet(w)
         \/ \E w \in Workers : InsertNew(w) \/ SeedRoute(w)
         \/ \E w \in Workers : DeleteOld(w)
         \/ UNCHANGED <<grid, prevPtr, pc, job>>
  BY DEF Next, vars, Process, Quiet, AddFence, Tick, history, locals

\* Once visible, always visible.
LEMMA VisibleStays ==
  ASSUME TypeOK, [Next]_vars, NEW e \in Entities, Visible(e)
  PROVE  Visible(e)'
<1>1. CASE \E w \in Workers : Quiet(w)
  BY <1>1, QuietFrame, VisibleKept
<1>2. CASE \E w \in Workers : InsertNew(w) \/ SeedRoute(w)
  BY <1>2, InsertVisible
<1>3. CASE \E w \in Workers : DeleteOld(w)
  BY <1>3, DeleteVisible
<1>4. CASE UNCHANGED <<grid, prevPtr, pc, job>>
  BY <1>4, VisibleKept
<1>5. QED  BY <1>1, <1>2, <1>3, <1>4, StepCases

\* A worker gets past RouteWithPrevious, and an entity gets a history, only
\* through an insert, a worker that has inserted, or a seed.
LEMMA QuietAppears ==
  ASSUME VInv, NEW w \in Workers, Quiet(w)
  PROVE  /\ \A v \in Workers : pc'[v] \in Placed => pc[v] \in Placed /\ job'[v] = job[v]
         /\ \A e \in Entities : prevPtr'[e] # Nil =>
              \/ prevPtr[e] # Nil
              \/ pc[w] \in Placed /\ e = job[w].id
              \/ Visible(e)'
<1>1. CASE LoadPrevious(w) \/ CompareLat(w) \/ KeyLat(w)
  BY <1>1, QuietFrame DEF VInv, TypeOK, LoadPrevious, CompareLat, KeyLat, LoadLat, Goto, Placed, history
<1>2. CASE CompareLng(w) \/ KeyLng(w)
  BY <1>2, QuietFrame DEF VInv, TypeOK, CompareLng, KeyLng, Finish, Goto, Placed, history
<1>3. CASE FindFences(w) \/ FromLat(w) \/ FromLng(w) \/ Fire(w)
  BY <1>3, QuietFrame DEF VInv, TypeOK, FindFences, FromLat, LoadLat, FromLng, Fire, Goto, Placed, history
<1>4. CASE StoreFirst(w)
  BY <1>4, QuietFrame DEF VInv, TypeOK, StoreFirst, Goto, Placed
<1>5. CASE StoreHalf(w) \/ StoreRest(w)
  BY <1>5, QuietFrame DEF VInv, TypeOK, StoreHalf, StoreRest, Goto, Placed
<1>6. CASE Account(w)
  BY <1>6, QuietFrame DEF VInv, TypeOK, Account, Finish, Goto, Placed, history
<1>7. ASSUME NEW e \in Entities, NEW p \in Points, Seed(w, e, p)
      PROVE  /\ \A v \in Workers : pc'[v] \in Placed => pc[v] \in Placed /\ job'[v] = job[v]
             /\ \A d \in Entities : prevPtr'[d] # Nil => prevPtr[d] # Nil \/ Visible(d)'
  <2>1. pc' = [pc EXCEPT ![w] = "seed"] /\ job' = [job EXCEPT ![w] = [id |-> e, coord |-> p]]
        /\ \A d \in Entities \ {e} : prevPtr'[d] = prevPtr[d]
    BY <1>7 DEF Seed, Goto, VInv, TypeOK
  <2>2. pc'[w] = "seed" /\ job'[w].id = e
    BY <2>1 DEF VInv, TypeOK
  <2>3. Visible(e)'
    BY <2>2 DEF Visible, InFlight
  <2>4. QED  BY <1>7, <2>1, <2>2, <2>3, QuietFrame DEF VInv, TypeOK, Placed
<1>8. CASE \E e \in Entities, p \in Points : Arrive(w, e, p)
  BY <1>8, QuietFrame DEF VInv, TypeOK, Arrive, Goto, Placed, history
<1>9. QED  BY <1>1, <1>2, <1>3, <1>4, <1>5, <1>6, <1>7, <1>8 DEF Quiet

LEMMA VisibleStep == VInv /\ [Next]_vars => VInv'
<1> SUFFICES ASSUME VInv, [Next]_vars PROVE VInv'
  OBVIOUS
<1>a. TypeOK /\ TypeOK'
  BY StepType DEF VInv
<1>b. \A e \in Entities : Visible(e) => Visible(e)'
  BY <1>a, VisibleStays
<1>c. \A v \in Workers : pc[v] \in Placed => job[v].id \in Entities
  BY <1>a, BusyJob DEF Placed
<1>1. ASSUME NEW w \in Workers, Quiet(w) PROVE (NeverLost /\ PlacedVisible)'
  <2>1. /\ \A v \in Workers : pc'[v] \in Placed => pc[v] \in Placed /\ job'[v] = job[v]
        /\ \A e \in Entities : prevPtr'[e] # Nil =>
             prevPtr[e] # Nil \/ (pc[w] \in Placed /\ e = job[w].id) \/ Visible(e)'
    BY <1>1, QuietAppears
  <2>2. NeverLost'
    BY <2>1, <1>b DEF VInv, NeverLost, PlacedVisible
  <2>3. \A v \in Workers : pc'[v] \in Placed => Visible(job[v].id)'
    BY <2>1, <1>b, <1>c DEF VInv, PlacedVisible
  <2>4. QED  BY <2>1, <2>2, <2>3 DEF PlacedVisible, Visible, InFlight
<1>2. ASSUME NEW w \in Workers, InsertNew(w) \/ SeedRoute(w)
      PROVE  (NeverLost /\ PlacedVisible)'
  <2>1. /\ prevPtr' = prevPtr /\ \A v \in Workers \ {w} : pc'[v] = pc[v] /\ job'[v] = job[v]
        /\ pc'[w] \in Placed => job'[w] = job[w]
        /\ pc[w] # "idle"
    BY <1>2, <1>a DEF InsertNew, SeedRoute, Finish, Goto, TypeOK, history, Placed
  <2>2. NeverLost'
    BY <2>1, <1>b DEF VInv, NeverLost
  <2>3. \A e \in Entities : e = job[w].id => Visible(e)'
    BY <1>2, <1>a, InsertVisible
  <2>4. \A v \in Workers, e \in Entities :
          (pc'[v] \in Placed /\ e = job'[v].id) => Visible(e)'
    <3>1. \A v \in Workers \ {w}, e \in Entities :
            (pc[v] \in Placed /\ e = job[v].id) => Visible(e)
      BY DEF VInv, PlacedVisible
    <3>2. QED  BY <2>1, <2>3, <3>1, <1>b
  <2>6. \A v \in Workers : pc'[v] \in Placed => job'[v].id \in Entities
    BY <1>a, BusyJob, <2>1, <1>c
  <2>5. QED  BY <2>2, <2>4, <2>6 DEF PlacedVisible, Visible, InFlight
<1>3. ASSUME NEW w \in Workers, DeleteOld(w) PROVE (NeverLost /\ PlacedVisible)'
  <2>1. prevPtr' = prevPtr /\ job' = job /\ pc' = [pc EXCEPT ![w] = "insert"]
    BY <1>3 DEF DeleteOld, Goto, history
  <2>2. NeverLost'
    BY <2>1, <1>b DEF VInv, NeverLost
  <2>3. \A v \in Workers : pc'[v] \in Placed => pc[v] \in Placed
    BY <2>1, <1>a DEF TypeOK, Placed
  <2>4. \A v \in Workers, e \in Entities :
          (pc'[v] \in Placed /\ e = job[v].id) => Visible(e)'
    BY <2>3, <1>b DEF VInv, PlacedVisible
  <2>5. QED  BY <2>1, <2>2, <2>3, <2>4, <1>c DEF PlacedVisible, Visible, InFlight
<1>4. CASE UNCHANGED <<grid, prevPtr, pc, job>>
  <2>1. \A e \in Entities : Visible(e)' <=> Visible(e)
    BY <1>4 DEF Visible, InFlight
  <2>2. NeverLost'
    BY <1>4, <2>1 DEF VInv, NeverLost
  <2>3. PlacedVisible'
    BY <1>4 DEF VInv, PlacedVisible, Visible, InFlight
  <2>4. QED  BY <1>a, <2>2, <2>3 DEF VInv
<1>5. QED  BY <1>a, <1>1, <1>2, <1>3, <1>4, StepCases DEF VInv

\* NeverLost, for any number of workers that process packets of the same
\* entity in any order (RouteWithPrevious and SeedPosition).
THEOREM NeverLostHolds == Spec => []NeverLost
<1>1. Init => VInv
  BY InitType DEF Init, VInv, NeverLost, PlacedVisible, Placed
<1>2. VInv => NeverLost
  BY DEF VInv
<1>3. QED  BY <1>1, <1>2, VisibleStep, PTL DEF Spec

-----------------------------------------------------------------------------
(* The analytics of a cell miss no entity that packets brought there. The  *)
(* worker that routed the packet adds it to them some steps later, and     *)
(* others may delete or overwrite its entry meanwhile: an entry is either  *)
(* accounted for, or the worker that wrote it is still on its way there.   *)

\* The cells a packet of e was routed to and not yet added to the analytics.
Owed(e) == { ShardKey(job[w].coord) : w \in { v \in InFlight(e) : pc[v] \in Placed } }

Explained(e) == hll[e] \cup Owed(e) \cup { ShardKey(p) : p \in seeded[e] }

CellsExplained == \A e \in Entities : CellsHolding(e) \subseteq Explained(e)

SeedKnown == \A w \in Workers : pc[w] = "seed" => job[w].coord \in seeded[job[w].id]

EInv == TypeOK /\ SeedKnown /\ CellsExplained

\* What is explained stays explained as long as workers past their insert
\* keep their packet or add it to the analytics.
LEMMA ExplainedKept ==
  ASSUME NEW e \in Entities,
         hll[e] \subseteq hll'[e], seeded[e] \subseteq seeded'[e],
         \A v \in Workers : (pc[v] \in Placed /\ job[v].id = e) =>
           \/ pc'[v] \in Placed /\ job'[v] = job[v]
           \/ ShardKey(job[v].coord) \in hll'[e]
  PROVE  Explained(e) \subseteq Explained(e)'
  BY DEF Explained, Owed, InFlight, Placed, ShardKey

\* No step takes anything back.
LEMMA LedgerGrows ==
  ASSUME TypeOK, [Next]_vars
  PROVE  \A e \in Entities : hll[e] \subseteq hll'[e] /\ seeded[e] \subseteq seeded'[e]
<1>1. CASE \E w \in Workers : Account(w)
  BY <1>1 DEF Account, TypeOK, ghosts
<1>2. CASE \E w \in Workers, e \in Entities, p \in Points : Seed(w, e, p)
  BY <1>2 DEF Seed, TypeOK, stats
<1>3. CASE UNCHANGED <<hll, seeded>>
  BY <1>3
<1>4. ASSUME NEW w \in Workers, Process(w), ~Account(w) PROVE UNCHANGED <<hll, seeded>>
  BY <1>4 DEF Process, LoadPrevious, CompareLat, CompareLng, KeyLat, KeyLng, DeleteOld, InsertNew,
     FindFences, FromLat, FromLng, Fire, StoreFirst, StoreHalf, StoreRest, stats, ghosts
<1>5. QED
  BY <1>1, <1>2, <1>3, <1>4 DEF Next, vars, AddFence, SeedRoute, Arrive, Tick, stats, ghosts

\* A worker past its insert leaves that part of ProcessPacket through Account.
LEMMA PlacedLeaves ==
  ASSUME TypeOK, [Next]_vars, NEW v \in Workers, pc[v] \in Placed
  PROVE  \/ pc'[v] \in Placed /\ job'[v] = job[v]
         \/ ShardKey(job[v].coord) \in hll'[job[v].id]
<1>1. CASE \E w \in Workers : w # v /\ (Quiet(w) \/ InsertNew(w) \/ SeedRoute(w) \/ DeleteOld(w))
  BY <1>1, QuietFrame DEF TypeOK, InsertNew, SeedRoute, DeleteOld, Finish, Goto
<1>2. CASE FindFences(v) \/ FromLat(v) \/ FromLng(v) \/ Fire(v)
  BY <1>2 DEF TypeOK, FindFences, FromLat, LoadLat, FromLng, Fire, Goto, Placed
<1>3. CASE StoreFirst(v) \/ StoreHalf(v) \/ StoreRest(v)
  BY <1>3 DEF TypeOK, StoreFirst, StoreHalf, StoreRest, Goto, Placed
<1>4. CASE Account(v)
  <2>1. job[v].id \in Entities
    BY <1>4, BusyJob DEF Account
  <2>2. QED  BY <1>4, <2>1 DEF TypeOK, Account
<1>5. CASE UNCHANGED <<grid, prevPtr, pc, job>>
  BY <1>5
<1>6. ASSUME Quiet(v)
      PROVE  \/ FindFences(v) \/ FromLat(v) \/ FromLng(v) \/ Fire(v)
             \/ StoreFirst(v) \/ StoreHalf(v) \/ StoreRest(v) \/ Account(v)
  BY <1>6 DEF Quiet, LoadPrevious, CompareLat, CompareLng, KeyLat, KeyLng, Seed, Arrive, Placed
<1>7. pc[v] \notin {"insert", "seed", "delete"}
  BY DEF Placed
<1>8. QED
  BY <1>1, <1>2, <1>3, <1>4, <1>5, <1>6, <1>7, StepCases DEF InsertNew, SeedRoute, DeleteOld

\* The grid gets a new cell only from an insert, whose worker owes it to the
\* analytics from then on, or from a seed.
LEMMA CellsAppear ==
  ASSUME TypeOK, SeedKnown, [Next]_vars, NEW e \in Entities, NEW c \in CellsHolding(e)'
  PROVE  c \in CellsHolding(e) \/ c \in Explained(e)'
<1>1. CASE grid' = grid
  BY <1>1 DEF CellsHolding, ShardKey
<1>2. ASSUME NEW w \in Workers, DeleteOld(w) PROVE c \in CellsHolding(e)
  BY <1>2 DEF TypeOK, GridTypeOK, DeleteOld, DeleteEntry, Without, CellsHolding, ShardKey
<1>3. ASSUME NEW w \in Workers, InsertNew(w) \/ SeedRoute(w)
      PROVE  c \in CellsHolding(e) \/ c \in Explained(e)'
  <2>1. pc[w] \in {"insert", "seed"} /\ Route(job[w].id, job[w].coord)
    BY <1>3 DEF InsertNew, SeedRoute
  <2>2. c \in CellsHolding(e) \/ (e = job[w].id /\ c = ShardKey(job[w].coord))
    BY <2>1 DEF TypeOK, GridTypeOK, Route, Without, CellsHolding, ShardKey
  <2>3. ASSUME e = job[w].id, c = ShardKey(job[w].coord), InsertNew(w) PROVE c \in Explained(e)'
    <3>1. pc'[w] = "near" /\ job' = job
      BY <2>3 DEF InsertNew, Goto, TypeOK
    <3>2. QED  BY <2>3, <3>1 DEF Explained, Owed, InFlight, Placed, ShardKey
  <2>4. ASSUME e = job[w].id, c = ShardKey(job[w].coord), SeedRoute(w) PROVE c \in Explained(e)'
    <3>1. seeded' = seeded /\ job[w].coord \in seeded[e]
      BY <2>4 DEF SeedRoute, SeedKnown, ghosts
    <3>2. QED  BY <2>4, <3>1 DEF Explained, ShardKey
  <2>5. QED  BY <1>3, <2>2, <2>3, <2>4
<1>4. QED  BY <1>1, <1>2, <1>3, StepCases, QuietFrame

LEMMA SeedKnownStep ==
  ASSUME TypeOK, SeedKnown, [Next]_vars
  PROVE  SeedKnown'
<1>1. ASSUME NEW v \in Workers, pc'[v] = "seed"
      PROVE  \/ pc[v] = "seed" /\ job'[v] = job[v]
             \/ \E e \in Entities, p \in Points : Seed(v, e, p)
  <2>1. CASE \E w \in Workers : w # v /\ (Quiet(w) \/ InsertNew(w) \/ SeedRoute(w) \/ DeleteOld(w))
    BY <1>1, <2>1, QuietFrame DEF TypeOK, InsertNew, SeedRoute, DeleteOld, Finish, Goto
  <2>2. CASE InsertNew(v) \/ SeedRoute(v) \/ DeleteOld(v)
    BY <1>1, <2>2 DEF TypeOK, InsertNew, SeedRoute, DeleteOld, Finish, Goto
  <2>3. CASE LoadPrevious(v) \/ CompareLat(v) \/ CompareLng(v) \/ KeyLat(v) \/ KeyLng(v)
    BY <1>1, <2>3 DEF TypeOK, LoadPrevious, CompareLat, CompareLng, KeyLat, KeyLng, LoadLat, Finish, Goto
  <2>4. CASE FindFences(v) \/ FromLat(v) \/ FromLng(v) \/ Fire(v)
    BY <1>1, <2>4 DEF TypeOK, FindFences, FromLat, LoadLat, FromLng, Fire, Goto
  <2>5. CASE StoreFirst(v) \/ StoreHalf(v) \/ StoreRest(v) \/ Account(v)
    BY <1>1, <2>5 DEF TypeOK, StoreFirst, StoreHalf, StoreRest, Account, Finish, Goto
  <2>6. CASE \E e \in Entities, p \in Points : Arrive(v, e, p)
    BY <1>1, <2>6 DEF TypeOK, Arrive, Goto
  <2>7. CASE UNCHANGED <<grid, prevPtr, pc, job>>
    BY <1>1, <2>7
  <2>8. QED  BY <2>1, <2>2, <2>3, <2>4, <2>5, <2>6, <2>7, StepCases DEF Quiet
<1>2. ASSUME NEW v \in Workers, pc[v] = "seed", job'[v] = job[v]
      PROVE  job'[v].coord \in seeded'[job'[v].id]
  BY <1>2, LedgerGrows, BusyJob DEF SeedKnown
<1>3. ASSUME NEW v \in Workers, NEW e \in Entities, NEW p \in Points, Seed(v, e, p)
      PROVE  job'[v].coord \in seeded'[job'[v].id]
  BY <1>3 DEF Seed, TypeOK
<1>4. QED  BY <1>1, <1>2, <1>3 DEF SeedKnown

LEMMA ExplainedStep == EInv /\ [Next]_vars => EInv'
<1> SUFFICES ASSUME EInv, [Next]_vars PROVE EInv'
  OBVIOUS
<1>1. TypeOK /\ TypeOK' /\ SeedKnown /\ SeedKnown'
  BY StepType, SeedKnownStep DEF EInv
<1>2. \A e \in Entities : Explained(e) \subseteq Explained(e)'
  <2>1. ASSUME NEW e \in Entities PROVE Explained(e) \subseteq Explained(e)'
    BY <1>1, LedgerGrows, PlacedLeaves, ExplainedKept
  <2>2. QED  BY <2>1
<1>3. CellsExplained'
  <2>1. ASSUME NEW e \in Entities, NEW c \in CellsHolding(e)' PROVE c \in Explained(e)'
    BY <1>1, <1>2, CellsAppear DEF EInv, CellsExplained
  <2>2. QED  BY <2>1 DEF CellsExplained
<1>4. QED  BY <1>1, <1>3 DEF EInv

\* AnalyticsComplete, for any number of workers that handle packets of one
\* entity at once: the analytics come long after the route (pipeline.go:54, 67).
THEOREM AnalyticsCompleteHolds == Spec => []AnalyticsComplete
<1>1. Init => EInv
  BY InitType DEF Init, EInv, SeedKnown, CellsExplained, CellsHolding, GridInit
<1>2. EInv => AnalyticsComplete
  BY DEF EInv, CellsExplained, Explained, Owed, AnalyticsComplete, AtRest
<1>3. QED  BY <1>1, <1>2, ExplainedStep, PTL DEF Spec

-----------------------------------------------------------------------------
(* The position history is never torn outside its lock, however many       *)
(* workers overwrite the same object in place. The invariant says who may  *)
(* be writing: one goroutine per entity, into an object no other entity    *)
(* shares, with one field already its own.                                 *)

Known(e) == reported[e] \cup seeded[e]

KnownJob(w) == job[w].coord \in Known(job[w].id)

JobKnown == \A w \in Workers : pc[w] # "idle" => KnownJob(w)

OwnObject ==
  \A d, e \in Entities : (prevPtr[d] # Nil /\ prevPtr[d] = prevPtr[e]) => d = e

OneStorer ==
  \A v, w \in Workers :
    (pc[v] \in Storing /\ pc[w] \in Storing /\ job[v].id = job[w].id) => v = w

HalfStored ==
  \A w \in Workers :
    /\ pc[w] = "storeLng" => heap[prevPtr[job[w].id]].lat = job[w].coord.lat
    /\ pc[w] = "storeLat" => heap[prevPtr[job[w].id]].lng = job[w].coord.lng

HInv == TypeOK /\ JobKnown /\ OwnObject /\ OneStorer /\ HalfStored /\ NoTornHistory

LEMMA LockedIff ==
  ASSUME NEW e \in Entities
  PROVE  Locked(e) <=> \E w \in Workers : pc[w] \in Storing /\ job[w].id = e
  BY DEF Locked, InFlight, Storing

\* Steps that neither write the history nor start or end a store.
Away(w) ==
  \/ SeedRoute(w) \/ LoadPrevious(w) \/ CompareLat(w) \/ CompareLng(w)
  \/ KeyLat(w) \/ KeyLng(w) \/ DeleteOld(w) \/ InsertNew(w)
  \/ FindFences(w) \/ FromLat(w) \/ FromLng(w) \/ Fire(w) \/ Account(w)
  \/ \E e \in Entities, p \in Points : Arrive(w, e, p)

LEMMA AwayFrame ==
  ASSUME TypeOK, NEW w \in Workers, Away(w)
  PROVE  /\ prevPtr' = prevPtr /\ heap' = heap
         /\ \A e \in Entities : Known(e) \subseteq Known(e)'
         /\ pc[w] \notin Storing /\ pc'[w] \notin Storing
         /\ \A v \in Workers \ {w} : pc'[v] = pc[v] /\ job'[v] = job[v]
         /\ \/ pc'[w] = "idle"
            \/ pc[w] # "idle" /\ job'[w] = job[w]
            \/ KnownJob(w)'
<1>1. CASE LoadPrevious(w) \/ CompareLat(w) \/ KeyLat(w) \/ FromLat(w)
  BY <1>1 DEF TypeOK, LoadPrevious, CompareLat, KeyLat, FromLat, LoadLat, Goto, history, ghosts,
     Known, Storing
<1>2. CASE CompareLng(w) \/ KeyLng(w)
  BY <1>2 DEF TypeOK, CompareLng, KeyLng, Finish, Goto, history, ghosts, Known, Storing
<1>3. CASE FindFences(w) \/ FromLng(w) \/ Fire(w)
  BY <1>3 DEF TypeOK, FindFences, FromLng, Fire, Goto, history, ghosts, Known, Storing
<1>4. CASE SeedRoute(w) \/ DeleteOld(w) \/ InsertNew(w) \/ Account(w)
  BY <1>4 DEF TypeOK, SeedRoute, DeleteOld, InsertNew, Account, Finish, Goto, history, ghosts,
     Known, Storing
<1>5. ASSUME NEW e \in Entities, NEW p \in Points, Arrive(w, e, p)
      PROVE  /\ prevPtr' = prevPtr /\ heap' = heap
             /\ \A d \in Entities : Known(d) \subseteq Known(d)'
             /\ pc[w] \notin Storing /\ pc'[w] \notin Storing
             /\ \A v \in Workers \ {w} : pc'[v] = pc[v] /\ job'[v] = job[v]
             /\ pc'[w] = "idle" \/ KnownJob(w)'
  <2>1. CASE UNCHANGED <<pc, job, reported>>
    BY <1>5, <2>1 DEF TypeOK, Arrive, history, Known, Storing
  <2>2. CASE /\ Goto(w, "load") /\ job' = [job EXCEPT ![w] = [id |-> e, coord |-> p]]
             /\ reported' = [reported EXCEPT ![e] = @ \cup {p}]
    <3>1. KnownJob(w)'
      BY <1>5, <2>2 DEF TypeOK, KnownJob, Known
    <3>2. QED  BY <1>5, <2>2, <3>1 DEF TypeOK, Arrive, Goto, history, Known, Storing
  <2>3. QED  BY <1>5, <2>1, <2>2 DEF Arrive
<1>6. QED  BY <1>1, <1>2, <1>3, <1>4, <1>5 DEF Away

LEMMA AwayStep ==
  ASSUME HInv, TypeOK', NEW w \in Workers, Away(w)
  PROVE  HInv'
<1>a. /\ prevPtr' = prevPtr /\ heap' = heap
      /\ \A e \in Entities : Known(e) \subseteq Known(e)'
      /\ pc[w] \notin Storing /\ pc'[w] \notin Storing
      /\ \A v \in Workers \ {w} : pc'[v] = pc[v] /\ job'[v] = job[v]
  BY AwayFrame DEF HInv
<1>b. \/ pc'[w] = "idle" \/ (pc[w] # "idle" /\ job'[w] = job[w])
      \/ KnownJob(w)'
  BY AwayFrame DEF HInv
<1>c. \A v \in Workers : pc[v] # "idle" => job[v].id \in Entities
  BY BusyJob DEF HInv
<1>1. JobKnown'
  BY <1>a, <1>b, <1>c DEF HInv, JobKnown, KnownJob, Known
<1>2. OwnObject'
  BY <1>a DEF HInv, OwnObject
<1>3. OneStorer'
  BY <1>a DEF HInv, OneStorer, Storing
<1>4. HalfStored'
  BY <1>a DEF HInv, HalfStored, Storing
<1>5. NoTornHistory'
  <2> SUFFICES ASSUME NEW e \in Entities, prevPtr[e] # Nil, ~Locked(e)'
               PROVE  heap[prevPtr[e]] \in Known(e)'
    BY <1>a DEF NoTornHistory, Known
  <2>1. ~Locked(e)
    BY <1>a DEF Locked, InFlight, Storing
  <2>2. QED  BY <1>a, <2>1 DEF HInv, NoTornHistory, Known
<1>6. QED  BY <1>1, <1>2, <1>3, <1>4, <1>5 DEF HInv

\* An object that is stored under the lock for the first time is whole, and
\* nobody else's.
LEMMA FreshStep ==
  ASSUME HInv, TypeOK', NEW w \in Workers, NEW e \in Entities, NEW p \in Points, NEW r \in FreeRefs,
         prevPtr' = [prevPtr EXCEPT ![e] = r], heap' = [heap EXCEPT ![r] = p],
         \A v \in Workers : pc[v] \in Storing => job[v].id # e,
         p \in Known(e)', \A d \in Entities : Known(d) \subseteq Known(d)',
         pc[w] \notin Storing, pc'[w] \notin Storing,
         pc'[w] # "idle" => KnownJob(w)',
         \A v \in Workers \ {w} : pc'[v] = pc[v] /\ job'[v] = job[v]
  PROVE  HInv'
<1>a. r \in Refs /\ \A d \in Entities : prevPtr[d] # r
  BY DEF FreeRefs
<1>b. \A d \in Entities : /\ prevPtr'[d] = IF d = e THEN r ELSE prevPtr[d]
                          /\ d # e /\ prevPtr[d] # Nil => heap'[prevPtr'[d]] = heap[prevPtr[d]]
  BY <1>a DEF HInv, TypeOK
<1>c. \A v \in Workers : pc[v] # "idle" => job[v].id \in Entities
  BY BusyJob DEF HInv
<1>1. JobKnown'
  BY <1>c DEF HInv, JobKnown, KnownJob, Known
<1>2. OwnObject'
  BY <1>a, <1>b DEF HInv, OwnObject
<1>3. OneStorer'
  BY DEF HInv, OneStorer, Storing
<1>4. HalfStored'
  <2> SUFFICES ASSUME NEW v \in Workers, pc'[v] \in Storing
               PROVE  /\ pc'[v] = "storeLng" => heap'[prevPtr'[job'[v].id]].lat = job'[v].coord.lat
                      /\ pc'[v] = "storeLat" => heap'[prevPtr'[job'[v].id]].lng = job'[v].coord.lng
    BY DEF HalfStored, Storing
  <2>1. pc[v] \in Storing /\ pc'[v] = pc[v] /\ job'[v] = job[v] /\ job[v].id # e
    OBVIOUS
  <2>2. job[v].id \in Entities /\ prevPtr[job[v].id] # Nil
    BY <2>1, <1>c DEF HInv, TypeOK, LocalOK, Storing
  <2>3. heap'[prevPtr'[job[v].id]] = heap[prevPtr[job[v].id]]
    BY <2>1, <2>2, <1>b
  <2>4. QED  BY <2>1, <2>3 DEF HInv, HalfStored
<1>5. NoTornHistory'
  <2> SUFFICES ASSUME NEW d \in Entities, prevPtr'[d] # Nil, ~Locked(d)'
               PROVE  heap'[prevPtr'[d]] \in Known(d)'
    BY DEF NoTornHistory, Known
  <2>1. CASE d = e
    BY <2>1, <1>a, <1>b DEF HInv, TypeOK
  <2>2. CASE d # e
    <3>1. ~Locked(d)
      BY DEF Locked, InFlight, Storing
    <3>2. heap[prevPtr[d]] \in Known(d) /\ heap'[prevPtr'[d]] = heap[prevPtr[d]]
      BY <2>2, <3>1, <1>b DEF HInv, NoTornHistory, Known
    <3>3. QED  BY <3>2
  <2>3. QED  BY <2>1, <2>2
<1>6. QED  BY <1>1, <1>2, <1>3, <1>4, <1>5 DEF HInv

LEMMA SeedStep ==
  ASSUME HInv, TypeOK', NEW w \in Workers, NEW e \in Entities, NEW p \in Points, Seed(w, e, p)
  PROVE  HInv'
<1>1. PICK r \in FreeRefs : prevPtr' = [prevPtr EXCEPT ![e] = r] /\ heap' = [heap EXCEPT ![r] = p]
  BY DEF Seed
<1>2. \A v \in Workers : pc[v] \in Storing => job[v].id # e
  BY LockedIff DEF Seed
<1>3. /\ pc[w] \notin Storing /\ pc'[w] \notin Storing /\ job'[w] = [id |-> e, coord |-> p]
      /\ \A v \in Workers \ {w} : pc'[v] = pc[v] /\ job'[v] = job[v]
  BY DEF Seed, Goto, HInv, TypeOK, Storing
<1>4. p \in Known(e)' /\ \A d \in Entities : Known(d) \subseteq Known(d)'
  BY DEF Seed, HInv, TypeOK, Known
<1>5. KnownJob(w)'
  BY <1>3, <1>4 DEF KnownJob, Known, HInv, TypeOK
<1>6. QED  BY <1>1, <1>2, <1>3, <1>4, <1>5, FreshStep

LEMMA StoreFirstStep ==
  ASSUME HInv, TypeOK', NEW w \in Workers, StoreFirst(w)
  PROVE  HInv'
<1>1. PICK r \in FreeRefs : /\ prevPtr' = [prevPtr EXCEPT ![job[w].id] = r]
                            /\ heap' = [heap EXCEPT ![r] = job[w].coord]
  BY DEF StoreFirst
<1>2. job[w].id \in Entities /\ job[w].coord \in Points
  BY BusyJob DEF StoreFirst, HInv
<1>3. \A v \in Workers : pc[v] \in Storing => job[v].id # job[w].id
  BY DEF StoreFirst, HInv, TypeOK, LocalOK
<1>4. /\ pc[w] \notin Storing /\ pc'[w] \notin Storing /\ job'[w] = job[w]
      /\ \A v \in Workers \ {w} : pc'[v] = pc[v] /\ job'[v] = job[v]
  BY DEF StoreFirst, Goto, HInv, TypeOK, Storing
<1>5. \A d \in Entities : Known(d)' = Known(d)
  BY DEF StoreFirst, ghosts, Known
<1>6. job[w].coord \in Known(job[w].id)
  BY DEF StoreFirst, HInv, JobKnown, KnownJob
<1>7. KnownJob(w)'
  BY <1>4, <1>6 DEF StoreFirst, ghosts, KnownJob, Known
<1>8. \A e \in Entities, p \in Points :
        (e = job[w].id /\ p = job[w].coord) =>
          /\ prevPtr' = [prevPtr EXCEPT ![e] = r] /\ heap' = [heap EXCEPT ![r] = p]
          /\ \A v \in Workers : pc[v] \in Storing => job[v].id # e
          /\ p \in Known(e)'
  BY <1>1, <1>3, <1>5, <1>6
<1>9. \A e \in Entities, p \in Points : (e = job[w].id /\ p = job[w].coord) => HInv'
  BY <1>4, <1>5, <1>7, <1>8, FreshStep
<1>10. QED  BY <1>2, <1>9

\* What the two halves of a store have in common.
LEMMA StoringFrame ==
  ASSUME HInv, NEW w \in Workers, StoreHalf(w) \/ StoreRest(w)
  PROVE  /\ job[w].id \in Entities /\ job[w].coord \in Points
         /\ prevPtr[job[w].id] \in Refs /\ heap[prevPtr[job[w].id]] \in Points
         /\ prevPtr' = prevPtr /\ job' = job /\ reported' = reported /\ seeded' = seeded
         /\ \A v \in Workers \ {w} : pc'[v] = pc[v]
         /\ \A r \in Refs : r # prevPtr[job[w].id] => heap'[r] = heap[r]
         /\ \A v \in Workers \ {w} : pc[v] \in Storing => job[v].id # job[w].id
<1>1. pc[w] # "idle" /\ prevPtr[job[w].id] # Nil
  BY DEF StoreHalf, StoreRest, HInv, TypeOK, LocalOK, Storing
<1>2. job[w].id \in Entities /\ job[w].coord \in Points
  BY <1>1, BusyJob DEF HInv
<1>3. prevPtr[job[w].id] \in Refs /\ heap[prevPtr[job[w].id]] \in Points
  BY <1>1, <1>2 DEF HInv, TypeOK
<1>4. /\ prevPtr' = prevPtr /\ job' = job /\ reported' = reported /\ seeded' = seeded
      /\ \A v \in Workers \ {w} : pc'[v] = pc[v]
  BY DEF StoreHalf, StoreRest, Goto, ghosts, HInv, TypeOK
<1>5. \A r \in Refs : r # prevPtr[job[w].id] => heap'[r] = heap[r]
  BY DEF StoreHalf, StoreRest, HInv, TypeOK
<1>6. CASE StoreHalf(w)
  BY <1>6, <1>2, <1>3, <1>4, <1>5, LockedIff DEF StoreHalf
<1>7. CASE StoreRest(w)
  BY <1>7, <1>2, <1>3, <1>4, <1>5 DEF StoreRest, HInv, OneStorer, Storing
<1>8. QED  BY <1>6, <1>7

\* What a write to one object leaves to the entities and workers elsewhere.
LEMMA StoringOthers ==
  ASSUME HInv, NEW w \in Workers, StoreHalf(w) \/ StoreRest(w)
  PROVE  /\ JobKnown' /\ OwnObject'
         /\ \A v \in Workers \ {w} : pc'[v] \in Storing =>
              /\ pc'[v] = "storeLng" => heap'[prevPtr'[job'[v].id]].lat = job'[v].coord.lat
              /\ pc'[v] = "storeLat" => heap'[prevPtr'[job'[v].id]].lng = job'[v].coord.lng
         /\ \A d \in Entities : (d # job[w].id /\ prevPtr[d] # Nil /\ ~Locked(d)') =>
              heap'[prevPtr[d]] \in Known(d)
<1>a. /\ job[w].id \in Entities /\ prevPtr' = prevPtr /\ job' = job
      /\ reported' = reported /\ seeded' = seeded
      /\ \A v \in Workers \ {w} : pc'[v] = pc[v]
      /\ \A r \in Refs : r # prevPtr[job[w].id] => heap'[r] = heap[r]
      /\ \A v \in Workers \ {w} : pc[v] \in Storing => job[v].id # job[w].id
  BY StoringFrame
<1>b. \A d \in Entities : (d # job[w].id /\ prevPtr[d] # Nil) => heap'[prevPtr[d]] = heap[prevPtr[d]]
  BY <1>a DEF HInv, OwnObject, TypeOK
<1>1. JobKnown'
  <2>1. pc[w] # "idle"
    BY DEF StoreHalf, StoreRest
  <2>2. QED  BY <2>1, <1>a DEF HInv, JobKnown, KnownJob, Known
<1>2. OwnObject'
  BY <1>a DEF HInv, OwnObject
<1>3. ASSUME NEW v \in Workers \ {w}, pc'[v] \in Storing
      PROVE  /\ pc'[v] = "storeLng" => heap'[prevPtr'[job'[v].id]].lat = job'[v].coord.lat
             /\ pc'[v] = "storeLat" => heap'[prevPtr'[job'[v].id]].lng = job'[v].coord.lng
  <2>1. pc[v] \in Storing /\ job[v].id # job[w].id /\ pc[v] # "idle"
    BY <1>3, <1>a DEF Storing
  <2>2. job[v].id \in Entities /\ prevPtr[job[v].id] # Nil
    BY <2>1, BusyJob DEF HInv, TypeOK, LocalOK
  <2>3. heap'[prevPtr[job[v].id]] = heap[prevPtr[job[v].id]]
    BY <2>1, <2>2, <1>b
  <2>4. QED  BY <1>a, <2>3 DEF HInv, HalfStored
<1>4. ASSUME NEW d \in Entities, d # job[w].id, prevPtr[d] # Nil, ~Locked(d)'
      PROVE  heap'[prevPtr[d]] \in Known(d)
  <2>1. ~Locked(d)
    <3>1. \A v \in Workers : (pc[v] \in Storing /\ job[v].id = d) => pc'[v] \in Storing /\ job'[v].id = d
      BY <1>a, <1>4
    <3>2. QED  BY <1>4, <3>1 DEF Locked, InFlight, Storing
  <2>2. QED  BY <1>4, <2>1, <1>b DEF HInv, NoTornHistory, Known
<1>5. QED  BY <1>1, <1>2, <1>3, <1>4

LEMMA StoreHalfStep ==
  ASSUME HInv, TypeOK', NEW w \in Workers, StoreHalf(w)
  PROVE  HInv'
<1>a. /\ job[w].id \in Entities /\ job[w].coord \in Points /\ prevPtr[job[w].id] \in Refs
      /\ heap[prevPtr[job[w].id]] \in Points /\ prevPtr' = prevPtr /\ job' = job
      /\ reported' = reported /\ seeded' = seeded
      /\ \A v \in Workers \ {w} : pc'[v] = pc[v]
      /\ \A v \in Workers \ {w} : pc[v] \in Storing => job[v].id # job[w].id
  BY StoringFrame
<1>1. JobKnown' /\ OwnObject'
  BY StoringOthers
<1>2. pc'[w] \in Storing
  BY DEF StoreHalf, Goto, HInv, TypeOK, Storing
<1>3. OneStorer'
  BY <1>a DEF HInv, OneStorer
<1>4. HalfStored'
  <2>1. /\ pc'[w] = "storeLng" => heap'[prevPtr[job[w].id]].lat = job[w].coord.lat
        /\ pc'[w] = "storeLat" => heap'[prevPtr[job[w].id]].lng = job[w].coord.lng
    BY <1>a DEF StoreHalf, Goto, HInv, TypeOK, Points
  <2>2. \A v \in Workers \ {w} :
          /\ pc'[v] = "storeLng" => heap'[prevPtr'[job'[v].id]].lat = job'[v].coord.lat
          /\ pc'[v] = "storeLat" => heap'[prevPtr'[job'[v].id]].lng = job'[v].coord.lng
    BY StoringOthers DEF Storing
  <2>3. QED  BY <1>a, <2>1, <2>2 DEF HalfStored
<1>5. NoTornHistory'
  <2>1. \A e \in Entities : e = job[w].id => Locked(e)'
    BY <1>a, <1>2 DEF Locked, InFlight, Storing
  <2>2. \A d \in Entities : (d # job[w].id /\ prevPtr[d] # Nil /\ ~Locked(d)') =>
          heap'[prevPtr[d]] \in Known(d)
    BY StoringOthers
  <2>3. QED  BY <1>a, <2>1, <2>2 DEF NoTornHistory, Known
<1>6. QED  BY <1>1, <1>3, <1>4, <1>5 DEF HInv

\* The second half makes the object whole.
LEMMA StoreWhole ==
  ASSUME HInv, NEW w \in Workers, StoreRest(w)
  PROVE  heap'[prevPtr[job[w].id]] = job[w].coord
<1>a. /\ job[w].coord \in Points /\ prevPtr[job[w].id] \in Refs
      /\ heap[prevPtr[job[w].id]] \in Points
  BY StoringFrame
<1>b. pc[w] \in Storing
  BY DEF StoreRest, Storing
<1>1. \A p, q \in Points : (p.lat = q.lat /\ p.lng = q.lng) => p = q
  BY DEF Points
<1>2. CASE pc[w] = "storeLng"
  <2>1. heap'[prevPtr[job[w].id]] = [heap[prevPtr[job[w].id]] EXCEPT !.lng = job[w].coord.lng]
    BY <1>a, <1>2 DEF StoreRest, HInv, TypeOK
  <2>2. heap[prevPtr[job[w].id]].lat = job[w].coord.lat
    BY <1>2 DEF HInv, HalfStored
  <2>3. QED  BY <1>a, <2>1, <2>2 DEF Points
<1>3. CASE pc[w] = "storeLat"
  <2>1. heap'[prevPtr[job[w].id]] = [heap[prevPtr[job[w].id]] EXCEPT !.lat = job[w].coord.lat]
    BY <1>a, <1>3 DEF StoreRest, HInv, TypeOK
  <2>2. heap[prevPtr[job[w].id]].lng = job[w].coord.lng
    BY <1>3 DEF HInv, HalfStored
  <2>3. QED  BY <1>a, <2>1, <2>2 DEF Points
<1>4. QED  BY <1>b, <1>2, <1>3 DEF Storing

LEMMA StoreRestStep ==
  ASSUME HInv, TypeOK', NEW w \in Workers, StoreRest(w)
  PROVE  HInv'
<1>a. /\ job[w].id \in Entities /\ job[w].coord \in Points /\ prevPtr[job[w].id] \in Refs
      /\ heap[prevPtr[job[w].id]] \in Points /\ prevPtr' = prevPtr /\ job' = job
      /\ reported' = reported /\ seeded' = seeded
      /\ \A v \in Workers \ {w} : pc'[v] = pc[v]
  BY StoringFrame
<1>b. pc[w] \in Storing /\ pc'[w] = "count"
  BY DEF StoreRest, Goto, HInv, TypeOK, Storing
<1>1. JobKnown' /\ OwnObject'
  BY StoringOthers
<1>2. OneStorer'
  BY <1>a, <1>b DEF HInv, OneStorer, Storing
<1>3. HalfStored'
  <2>1. \A v \in Workers \ {w} :
          /\ pc'[v] = "storeLng" => heap'[prevPtr'[job'[v].id]].lat = job'[v].coord.lat
          /\ pc'[v] = "storeLat" => heap'[prevPtr'[job'[v].id]].lng = job'[v].coord.lng
    BY StoringOthers DEF Storing
  <2>2. QED  BY <1>b, <2>1 DEF HalfStored
<1>4. heap'[prevPtr[job[w].id]] = job[w].coord
  BY StoreWhole
<1>5. NoTornHistory'
  <2>1. job[w].coord \in Known(job[w].id)
    BY <1>b DEF HInv, JobKnown, KnownJob, Storing
  <2>2. \A d \in Entities : (d # job[w].id /\ prevPtr[d] # Nil /\ ~Locked(d)') =>
          heap'[prevPtr[d]] \in Known(d)
    BY StoringOthers
  <2>3. QED  BY <1>a, <1>4, <2>1, <2>2 DEF NoTornHistory, Known
<1>6. QED  BY <1>1, <1>2, <1>3, <1>5 DEF HInv

LEMMA HistoryStep == HInv /\ [Next]_vars => HInv'
<1> SUFFICES ASSUME HInv, [Next]_vars PROVE HInv'
  OBVIOUS
<1>1. TypeOK'
  BY StepType DEF HInv
<1>2. ASSUME NEW w \in Workers, Process(w) \/ SeedRoute(w)
             \/ \E e \in Entities, p \in Points : Arrive(w, e, p)
      PROVE  HInv'
  BY <1>1, <1>2, AwayStep, StoreFirstStep, StoreHalfStep, StoreRestStep DEF Process, Away
<1>3. CASE UNCHANGED vars \/ Tick \/ \E f \in Fences : AddFence(f)
  <2>1. UNCHANGED <<prevPtr, heap, pc, job, reported, seeded>>
    BY <1>3 DEF vars, Tick, AddFence, history, locals, ghosts
  <2>2. QED
    BY <1>1, <2>1 DEF HInv, JobKnown, KnownJob, Known, OwnObject, OneStorer, HalfStored,
       NoTornHistory, Locked, InFlight
<1>4. QED  BY <1>1, <1>2, <1>3, SeedStep DEF Next

\* NoTornHistory, for any number of workers: *p = coord in ProcessPacket is
\* whole once the shard lock is released.
THEOREM NoTornHistoryHolds == Spec => []NoTornHistory
<1>1. Init => HInv
  BY InitType DEF Init, HInv, JobKnown, OwnObject, OneStorer, HalfStored, NoTornHistory, Storing
<1>2. HInv => NoTornHistory
  BY DEF HInv
<1>3. QED  BY <1>1, <1>2, HistoryStep, PTL DEF Spec
=============================================================================
