----------------------- MODULE PipelineSerial_proofs ------------------------
(***************************************************************************)
(* What the pipeline promises while packets of one entity are serial and   *)
(* setup comes first: grid and history agree, a repeated position is not   *)
(* processed, and the application knows which fences an entity is in.      *)
(*                                                                         *)
(* The invariant follows the one worker that handles an entity through     *)
(* ProcessPacket (Agrees, Tells); the workers of other entities touch      *)
(* neither its entries nor its object (Alone, Aside).                      *)
(***************************************************************************)
EXTENDS Pipeline_proofs, Geometry_proofs

-----------------------------------------------------------------------------
(* One worker per entity, and what it has left undone. *)

\* The position the history holds, if any.
Last == [e \in Entities |-> IF prevPtr[e] = Nil THEN {} ELSE {heap[prevPtr[e]]}]

\* The steps up to the delete, those that hold *prev, those that have found
\* the packet to be new, and those with one coordinate of *prev loaded.
Unrouted == {"load", "dupLat", "dupLng", "keyLat", "keyLng", "delete"}
Evaluating == {"near", "fences", "fromLng", "fire", "commit"}
Holding == (Unrouted \ {"load"}) \cup {"insert"} \cup Evaluating
Novel == {"keyLat", "keyLng", "delete", "insert"} \cup Evaluating
Loaded == {"dupLng", "keyLng", "fromLng"}

Agrees(w) ==
  /\ pc[w] = "seed" => grid[job[w].id] = {} /\ Last[job[w].id] = {job[w].coord}
  /\ pc[w] \in Unrouted => grid[job[w].id] = Last[job[w].id]
  /\ pc[w] \in Holding => ptr[w] = prevPtr[job[w].id]
  /\ pc[w] \in Loaded => \A p \in Last[job[w].id] : p.lat = lat[w]
  /\ pc[w] \in Novel => job[w].coord \notin Last[job[w].id]
  /\ pc[w] = "delete" => \A q \in grid[job[w].id] : ShardKey(q) = oldKey[w]
  /\ pc[w] = "insert" => \A q \in grid[job[w].id] : ShardKey(q) = ShardKey(job[w].coord)
  /\ pc[w] \in Placed => grid[job[w].id] = {job[w].coord}
  /\ pc[w] = "count" => Last[job[w].id] = {job[w].coord}

OneAtATime ==
  \A v, w \in Workers :
    (pc[v] # "idle" /\ pc[w] # "idle" /\ job[v].id = job[w].id) => v = w

\* Before the first packet there are only seeds.
OnlySeeds ==
  taken = 0 => /\ \A w \in Workers : pc[w] \in {"idle", "seed"}
               /\ \A e \in Entities : reported[e] = {}

GInv ==
  /\ Serial /\ SetupFirst
  /\ HInv /\ OneAtATime /\ OnlySeeds /\ GridMatchesHistory
  /\ \A w \in Workers : pc[w] # "idle" => Agrees(w)

\* A step of worker w on behalf of entity d leaves the rest alone.
Alone(w, d) ==
  /\ \A v \in Workers \ {w} : /\ pc'[v] = pc[v] /\ job'[v] = job[v] /\ ptr'[v] = ptr[v]
                              /\ lat'[v] = lat[v] /\ oldKey'[v] = oldKey[v]
  /\ \A e \in Entities \ {d} : grid'[e] = grid[e] /\ prevPtr'[e] = prevPtr[e] /\ Last'[e] = Last[e]
  /\ pc[w] # "idle" => job[w].id = d
  /\ pc'[w] # "idle" => job'[w].id = d
  /\ pc[w] = "idle" => AtRest(d)

\* What then is left to show about w and d.
OwnPart(w, d) ==
  /\ pc'[w] # "idle" => Agrees(w)'
  /\ pc'[w] = "idle" => grid'[d] = Last'[d]

LEMMA OnlyOwnPart ==
  ASSUME GInv, NEW w \in Workers, NEW d \in Entities, Alone(w, d), OwnPart(w, d)
  PROVE  /\ OneAtATime' /\ GridMatchesHistory'
         /\ \A v \in Workers : pc'[v] # "idle" => Agrees(v)'
<1>1. \A v \in Workers \ {w} : pc[v] # "idle" => job[v].id \in Entities \ {d}
  <2>1. \A v \in Workers \ {w} : pc[v] # "idle" => job[v].id # d
    BY DEF GInv, OneAtATime, Alone, AtRest, InFlight
  <2>2. QED  BY <2>1, BusyJob DEF GInv, HInv
<1>2. OneAtATime'
  BY <1>1 DEF GInv, OneAtATime, Alone
<1>3. ASSUME NEW v \in Workers \ {w}, pc'[v] # "idle" PROVE Agrees(v)'
  <2>1. Agrees(v) /\ job[v].id \in Entities \ {d}
    BY <1>1, <1>3 DEF GInv, Alone
  <2>2. \A e \in Entities \ {d} :
          grid'[e] = grid[e] /\ prevPtr'[e] = prevPtr[e] /\ Last'[e] = Last[e]
    BY DEF Alone
  <2>3. /\ pc'[v] = pc[v] /\ job'[v] = job[v] /\ ptr'[v] = ptr[v]
        /\ lat'[v] = lat[v] /\ oldKey'[v] = oldKey[v]
    BY DEF Alone
  <2>4. QED  BY <2>1, <2>2, <2>3 DEF Agrees
<1>4. ASSUME NEW e \in Entities, AtRest(e)' PROVE grid'[e] = Last'[e]
  <2>1. CASE e = d
    <3>1. pc'[w] = "idle"
      BY <1>4, <2>1 DEF AtRest, InFlight, Alone
    <3>2. QED  BY <2>1, <3>1 DEF OwnPart
  <2>2. CASE e # d
    <3>1. AtRest(e)
      BY <1>4, <2>2 DEF AtRest, InFlight, Alone
    <3>2. QED  BY <2>2, <3>1 DEF Alone, GInv, GridMatchesHistory, Last
  <2>3. QED  BY <2>1, <2>2
<1>5. QED
  BY <1>2, <1>3, <1>4 DEF OwnPart, GridMatchesHistory, Last

LEMMA Mine ==
  ASSUME GInv, NEW w \in Workers, pc[w] # "idle"
  PROVE  /\ Agrees(w) /\ TypeOK /\ job[w].id \in Entities /\ job[w].coord \in Points
         /\ (pc[w] \in Holding /\ ptr[w] # Nil) =>
              Last[job[w].id] = {heap[ptr[w]]} /\ heap[ptr[w]] \in Points
  BY BusyJob, HeldPosition DEF GInv, HInv, Agrees, Last

-----------------------------------------------------------------------------
(* Steps that write neither the grid nor the history. *)

Calm(w) ==
  \/ LoadPrevious(w) \/ CompareLat(w) \/ CompareLng(w) \/ KeyLat(w) \/ KeyLng(w)
  \/ FindFences(w) \/ FromLat(w) \/ FromLng(w) \/ Fire(w) \/ Account(w)

LEMMA CalmFrame ==
  ASSUME GInv, NEW w \in Workers, Calm(w)
  PROVE  /\ grid' = grid /\ prevPtr' = prevPtr /\ heap' = heap /\ Last' = Last
         /\ pc[w] # "idle" /\ (pc'[w] = "idle" \/ job'[w] = job[w])
         /\ \A v \in Workers \ {w} : /\ pc'[v] = pc[v] /\ job'[v] = job[v] /\ ptr'[v] = ptr[v]
                                     /\ lat'[v] = lat[v] /\ oldKey'[v] = oldKey[v]
<1>a. TypeOK
  BY DEF GInv, HInv
<1>1. CASE LoadPrevious(w) \/ CompareLat(w) \/ KeyLat(w) \/ FromLat(w)
  BY <1>a, <1>1 DEF TypeOK, LoadPrevious, CompareLat, KeyLat, FromLat, LoadLat, Goto, history, Last
<1>2. CASE CompareLng(w) \/ KeyLng(w)
  BY <1>a, <1>2 DEF TypeOK, CompareLng, KeyLng, Finish, Goto, history, Last
<1>3. CASE FindFences(w) \/ FromLng(w) \/ Fire(w)
  BY <1>a, <1>3 DEF TypeOK, FindFences, FromLng, Fire, Goto, history, Last
<1>4. CASE Account(w)
  BY <1>a, <1>4 DEF TypeOK, Account, Finish, Goto, history, Last
<1>5. QED  BY <1>1, <1>2, <1>3, <1>4 DEF Calm

\* A packet is a duplicate exactly if it repeats what the history holds: both
\* loads of the comparison see the same position.
LEMMA CompareOwn ==
  ASSUME GInv, NEW w \in Workers, LoadPrevious(w) \/ CompareLat(w) \/ CompareLng(w)
  PROVE  OwnPart(w, job[w].id)
<1>a. /\ grid' = grid /\ prevPtr' = prevPtr /\ heap' = heap /\ Last' = Last
      /\ pc[w] # "idle" /\ (pc'[w] = "idle" \/ job'[w] = job[w])
  BY CalmFrame DEF Calm
<1>b. /\ Agrees(w) /\ TypeOK /\ job[w].id \in Entities /\ job[w].coord \in Points
      /\ (pc[w] \in Holding /\ ptr[w] # Nil) =>
           Last[job[w].id] = {heap[ptr[w]]} /\ heap[ptr[w]] \in Points
  BY <1>a, Mine
<1>1. CASE LoadPrevious(w)
  <2>1. /\ pc[w] = "load" /\ ptr'[w] = prevPtr[job[w].id]
        /\ \/ prevPtr[job[w].id] = Nil /\ pc'[w] = "insert"
           \/ prevPtr[job[w].id] # Nil /\ pc'[w] = "dupLat"
    BY <1>1, <1>b DEF TypeOK, LoadPrevious, Goto
  <2>2. prevPtr[job[w].id] = Nil => Last[job[w].id] = {}
    BY <1>b DEF Last
  <2>3. QED
    BY <2>1, <2>2, <1>a, <1>b DEF OwnPart, Agrees, Unrouted, Holding, Novel, Loaded, Evaluating, Placed
<1>2. CASE CompareLat(w)
  <2>1. /\ pc[w] = "dupLat" /\ ptr' = ptr
        /\ \/ pc'[w] = "dupLng" /\ lat'[w] = heap[ptr[w]].lat
           \/ pc'[w] = "keyLat" /\ heap[ptr[w]].lat # job[w].coord.lat
    BY <1>2, <1>b DEF TypeOK, CompareLat, LoadLat, Goto
  <2>2. Last[job[w].id] = {heap[ptr[w]]}
    BY <2>1, <1>b DEF TypeOK, LocalOK, Holding, Unrouted
  <2>3. QED
    BY <2>1, <2>2, <1>a, <1>b DEF OwnPart, Agrees, Unrouted, Holding, Novel, Loaded, Evaluating, Placed
<1>3. CASE CompareLng(w)
  <2>1. pc[w] = "dupLng" /\ ptr[w] # Nil
    BY <1>3, <1>b DEF TypeOK, LocalOK, CompareLng
  <2>2. Last[job[w].id] = {heap[ptr[w]]} /\ heap[ptr[w]] \in Points /\ lat[w] = heap[ptr[w]].lat
    BY <2>1, <1>b DEF Holding, Unrouted, Agrees, Loaded
  <2>3. Seen(w) = heap[ptr[w]]
    BY <2>2 DEF Seen, Points
  <2>4. CASE Seen(w) = job[w].coord /\ Finish(w)
    <3>1. pc'[w] = "idle"
      BY <2>4, <1>b DEF TypeOK, Finish, Goto
    <3>2. QED  BY <2>1, <3>1, <1>a, <1>b DEF OwnPart, Agrees, Unrouted
  <2>5. CASE Seen(w) # job[w].coord /\ Goto(w, "keyLat") /\ ptr' = ptr
    <3>1. pc'[w] = "keyLat"
      BY <2>5, <1>b DEF TypeOK, Goto
    <3>2. QED
      BY <2>1, <2>2, <2>3, <2>5, <3>1, <1>a, <1>b
      DEF OwnPart, Agrees, Unrouted, Holding, Novel, Loaded, Evaluating, Placed
  <2>6. QED  BY <1>3, <2>4, <2>5 DEF CompareLng
<1>4. QED  BY <1>1, <1>2, <1>3

\* The cell the old entry is deleted from is the one it is in.
LEMMA KeyOwn ==
  ASSUME GInv, NEW w \in Workers, KeyLat(w) \/ KeyLng(w)
  PROVE  OwnPart(w, job[w].id)
<1>a. /\ grid' = grid /\ prevPtr' = prevPtr /\ heap' = heap /\ Last' = Last
      /\ pc[w] # "idle" /\ (pc'[w] = "idle" \/ job'[w] = job[w])
  BY CalmFrame DEF Calm
<1>b. /\ Agrees(w) /\ TypeOK /\ job[w].id \in Entities /\ job[w].coord \in Points
      /\ (pc[w] \in Holding /\ ptr[w] # Nil) =>
           Last[job[w].id] = {heap[ptr[w]]} /\ heap[ptr[w]] \in Points
  BY <1>a, Mine
<1>1. pc[w] \in {"keyLat", "keyLng"} /\ ptr[w] # Nil
  BY <1>b DEF KeyLat, KeyLng, TypeOK, LocalOK
<1>2. Last[job[w].id] = {heap[ptr[w]]} /\ heap[ptr[w]] \in Points
  BY <1>1, <1>b DEF Holding, Unrouted
<1>3. CASE KeyLat(w)
  <2>1. pc[w] = "keyLat" /\ pc'[w] = "keyLng" /\ ptr' = ptr /\ lat'[w] = heap[ptr[w]].lat
    BY <1>3, <1>b DEF TypeOK, KeyLat, LoadLat, Goto
  <2>2. QED
    BY <2>1, <1>2, <1>a, <1>b DEF OwnPart, Agrees, Unrouted, Holding, Novel, Loaded, Evaluating, Placed
<1>4. CASE KeyLng(w)
  <2>1. pc[w] = "keyLng" /\ ptr' = ptr /\ lat[w] = heap[ptr[w]].lat
    BY <1>4, <1>2, <1>b DEF KeyLng, Agrees, Loaded
  <2>2. Seen(w) = heap[ptr[w]]
    BY <2>1, <1>2 DEF Seen, Points
  <2>3. \/ pc'[w] = "insert" /\ ShardKey(heap[ptr[w]]) = ShardKey(job[w].coord)
        \/ pc'[w] = "delete" /\ oldKey'[w] = ShardKey(heap[ptr[w]])
    BY <1>4, <2>2, <1>b DEF TypeOK, KeyLng, Goto
  <2>4. QED
    BY <2>1, <2>3, <1>2, <1>a, <1>b
    DEF OwnPart, Agrees, Unrouted, Holding, Novel, Loaded, Evaluating, Placed
<1>5. QED  BY <1>3, <1>4

LEMMA EvaluateOwn ==
  ASSUME GInv, NEW w \in Workers,
         FindFences(w) \/ FromLat(w) \/ FromLng(w) \/ Fire(w) \/ Account(w)
  PROVE  OwnPart(w, job[w].id)
<1>a. /\ grid' = grid /\ prevPtr' = prevPtr /\ heap' = heap /\ Last' = Last
      /\ pc[w] # "idle" /\ (pc'[w] = "idle" \/ job'[w] = job[w])
  BY CalmFrame DEF Calm
<1>b. /\ Agrees(w) /\ TypeOK /\ job[w].id \in Entities /\ job[w].coord \in Points
      /\ (pc[w] \in Holding /\ ptr[w] # Nil) =>
           Last[job[w].id] = {heap[ptr[w]]} /\ heap[ptr[w]] \in Points
  BY <1>a, Mine
<1>1. CASE FindFences(w) \/ FromLng(w) \/ Fire(w)
  <2>1. pc[w] \in Evaluating /\ pc'[w] \in Evaluating \ {"fromLng"} /\ ptr' = ptr
    BY <1>1, <1>b DEF TypeOK, FindFences, FromLng, Fire, Goto, Evaluating
  <2>2. QED
    BY <2>1, <1>a, <1>b DEF OwnPart, Agrees, Unrouted, Holding, Novel, Loaded, Evaluating, Placed
<1>2. CASE FromLat(w)
  <2>1. pc[w] = "fences" /\ ptr' = ptr /\ ptr[w] # Nil
        /\ (pc'[w] = "fire" \/ (pc'[w] = "fromLng" /\ lat'[w] = heap[ptr[w]].lat))
    BY <1>2, <1>b DEF TypeOK, LocalOK, FromLat, LoadLat, Goto
  <2>2. Last[job[w].id] = {heap[ptr[w]]}
    BY <2>1, <1>b DEF Holding, Evaluating
  <2>3. QED
    BY <2>1, <2>2, <1>a, <1>b DEF OwnPart, Agrees, Unrouted, Holding, Novel, Loaded, Evaluating, Placed
<1>3. CASE Account(w)
  <2>1. pc[w] = "count" /\ pc'[w] = "idle"
    BY <1>3, <1>b DEF TypeOK, Account, Finish, Goto
  <2>2. QED  BY <2>1, <1>a, <1>b DEF OwnPart, Agrees, Placed
<1>4. QED  BY <1>1, <1>2, <1>3

LEMMA CalmStep ==
  ASSUME GInv, NEW w \in Workers, Calm(w)
  PROVE  Alone(w, job[w].id) /\ OwnPart(w, job[w].id)
<1>1. OwnPart(w, job[w].id)
  BY CompareOwn, KeyOwn, EvaluateOwn DEF Calm
<1>2. Alone(w, job[w].id)
  BY CalmFrame DEF Alone
<1>3. QED  BY <1>1, <1>2

-----------------------------------------------------------------------------
(* Steps that write the grid or the history. *)

LEMMA RouteStep ==
  ASSUME GInv, NEW w \in Workers, DeleteOld(w) \/ InsertNew(w) \/ SeedRoute(w)
  PROVE  Alone(w, job[w].id) /\ OwnPart(w, job[w].id)
<1>a. pc[w] # "idle" /\ prevPtr' = prevPtr /\ heap' = heap /\ Last' = Last
  BY DEF DeleteOld, InsertNew, SeedRoute, history, Last
<1>b. Agrees(w) /\ TypeOK /\ job[w].id \in Entities /\ job[w].coord \in Points
  BY <1>a, Mine
<1>c. \A v \in Workers \ {w} : /\ pc'[v] = pc[v] /\ job'[v] = job[v] /\ ptr'[v] = ptr[v]
                               /\ lat'[v] = lat[v] /\ oldKey'[v] = oldKey[v]
  BY <1>b DEF TypeOK, DeleteOld, InsertNew, SeedRoute, Finish, Goto
<1>d. \A e \in Entities \ {job[w].id} : grid'[e] = grid[e]
  BY <1>b DEF TypeOK, GridTypeOK, DeleteOld, InsertNew, SeedRoute, DeleteEntry, Route
<1>1. CASE DeleteOld(w)
  <2>1. pc[w] = "delete" /\ pc'[w] = "insert" /\ job' = job /\ ptr' = ptr
    BY <1>1, <1>b DEF TypeOK, DeleteOld, Goto
  <2>2. grid'[job[w].id] = {}
    <3>1. \A q \in grid[job[w].id] : ShardKey(q) = oldKey[w]
      BY <2>1, <1>b DEF Agrees
    <3>2. QED  BY <1>1, <1>b, <3>1 DEF TypeOK, GridTypeOK, DeleteOld, DeleteEntry, Without
  <2>3. OwnPart(w, job[w].id)
    BY <2>1, <2>2, <1>a, <1>b DEF OwnPart, Agrees, Unrouted, Holding, Novel, Loaded, Evaluating, Placed
  <2>4. QED  BY <2>1, <2>3, <1>a, <1>c, <1>d DEF Alone
<1>2. CASE InsertNew(w)
  <2>1. pc[w] = "insert" /\ pc'[w] = "near" /\ job' = job /\ ptr' = ptr
    BY <1>2, <1>b DEF TypeOK, InsertNew, Goto
  <2>2. grid'[job[w].id] = {job[w].coord}
    <3>1. \A q \in grid[job[w].id] : ShardKey(q) = ShardKey(job[w].coord)
      BY <2>1, <1>b DEF Agrees
    <3>2. QED  BY <1>2, <1>b, <3>1 DEF TypeOK, GridTypeOK, InsertNew, Route, Without
  <2>3. OwnPart(w, job[w].id)
    BY <2>1, <2>2, <1>a, <1>b DEF OwnPart, Agrees, Unrouted, Holding, Novel, Loaded, Evaluating, Placed
  <2>4. QED  BY <2>1, <2>3, <1>a, <1>c, <1>d DEF Alone
<1>3. CASE SeedRoute(w)
  <2>1. pc[w] = "seed" /\ pc'[w] = "idle"
    BY <1>3, <1>b DEF TypeOK, SeedRoute, Finish, Goto
  <2>2. grid'[job[w].id] = {job[w].coord}
    <3>1. grid[job[w].id] = {}
      BY <2>1, <1>b DEF Agrees
    <3>2. QED  BY <1>3, <1>b, <3>1 DEF TypeOK, GridTypeOK, SeedRoute, Route, Without
  <2>3. OwnPart(w, job[w].id)
    BY <2>1, <2>2, <1>a, <1>b DEF OwnPart, Agrees
  <2>4. QED  BY <2>1, <2>3, <1>a, <1>c, <1>d DEF Alone
<1>4. QED  BY <1>1, <1>2, <1>3

\* A fresh object is nobody else's.
LEMMA FreshLast ==
  ASSUME TypeOK, NEW d \in Entities, NEW p \in Points, NEW r \in FreeRefs,
         prevPtr' = [prevPtr EXCEPT ![d] = r], heap' = [heap EXCEPT ![r] = p]
  PROVE  /\ Last'[d] = {p}
         /\ \A e \in Entities \ {d} : prevPtr'[e] = prevPtr[e] /\ Last'[e] = Last[e]
<1>1. r \in Refs /\ r # Nil /\ \A e \in Entities : prevPtr[e] # r
  BY NilAssumption DEF FreeRefs
<1>2. prevPtr'[d] = r /\ heap'[r] = p
  BY <1>1 DEF TypeOK
<1>3. \A e \in Entities \ {d} : prevPtr'[e] = prevPtr[e] /\ (prevPtr[e] # Nil => heap'[prevPtr[e]] = heap[prevPtr[e]])
  BY <1>1 DEF TypeOK
<1>4. QED  BY <1>1, <1>2, <1>3 DEF Last

LEMMA StoresStep ==
  ASSUME GInv, NEW w \in Workers, StoreFirst(w) \/ StoreHalf(w) \/ StoreRest(w)
  PROVE  Alone(w, job[w].id) /\ OwnPart(w, job[w].id)
<1>a. pc[w] # "idle" /\ pc[w] \in {"commit", "storeLat", "storeLng"}
  BY DEF StoreFirst, StoreHalf, StoreRest
<1>b. Agrees(w) /\ TypeOK /\ HInv /\ job[w].id \in Entities /\ job[w].coord \in Points
  BY <1>a, Mine DEF GInv
<1>c. /\ grid' = grid /\ job' = job /\ ptr' = ptr /\ lat' = lat /\ oldKey' = oldKey
      /\ \A v \in Workers \ {w} : pc'[v] = pc[v]
  BY <1>b DEF TypeOK, StoreFirst, StoreHalf, StoreRest, Goto
<1>d. grid[job[w].id] = {job[w].coord}
  BY <1>a, <1>b DEF Agrees, Placed
<1>1. CASE StoreFirst(w)
  <2>1. pc'[w] = "count"
    BY <1>1, <1>b DEF TypeOK, StoreFirst, Goto
  <2>2. PICK r \in FreeRefs : /\ prevPtr' = [prevPtr EXCEPT ![job[w].id] = r]
                              /\ heap' = [heap EXCEPT ![r] = job[w].coord]
    BY <1>1 DEF StoreFirst
  <2>3. \A d \in Entities, p \in Points : (d = job[w].id /\ p = job[w].coord) =>
          /\ Last'[d] = {p}
          /\ \A e \in Entities \ {d} : prevPtr'[e] = prevPtr[e] /\ Last'[e] = Last[e]
    BY <2>2, <1>b, FreshLast
  <2>4. OwnPart(w, job[w].id)
    BY <2>1, <2>3, <1>b, <1>c, <1>d DEF OwnPart, Agrees, Unrouted, Holding, Novel, Loaded, Evaluating
  <2>5. QED  BY <2>3, <2>4, <1>a, <1>b, <1>c DEF Alone
<1>2. CASE StoreHalf(w) \/ StoreRest(w)
  <2>1. /\ prevPtr' = prevPtr /\ prevPtr[job[w].id] \in Refs
        /\ \A r \in Refs : r # prevPtr[job[w].id] => heap'[r] = heap[r]
    BY <1>2, <1>b, StoringFrame
  <2>2. \A e \in Entities \ {job[w].id} : prevPtr'[e] = prevPtr[e] /\ Last'[e] = Last[e]
    BY <2>1, <1>b DEF HInv, OwnObject, TypeOK, Last
  <2>3. CASE StoreHalf(w)
    <3>1. pc'[w] \in Storing
      BY <2>3, <1>b DEF TypeOK, StoreHalf, Goto, Storing
    <3>2. OwnPart(w, job[w].id)
      BY <3>1, <1>c, <1>d
      DEF OwnPart, Agrees, Storing, Unrouted, Holding, Novel, Loaded, Evaluating
    <3>3. QED  BY <3>2, <2>2, <1>a, <1>c DEF Alone
  <2>4. CASE StoreRest(w)
    <3>1. pc'[w] = "count"
      BY <2>4, <1>b DEF TypeOK, StoreRest, Goto
    <3>2. Last'[job[w].id] = {job[w].coord}
      <4>1. heap'[prevPtr[job[w].id]] = job[w].coord
        BY <2>4, <1>b, StoreWhole
      <4>2. QED  BY <4>1, <2>1, <1>b, NilAssumption DEF Last
    <3>3. OwnPart(w, job[w].id)
      BY <3>1, <3>2, <1>c, <1>d DEF OwnPart, Agrees, Unrouted, Holding, Novel, Loaded, Evaluating
    <3>4. QED  BY <3>3, <2>2, <1>a, <1>c DEF Alone
  <2>5. QED  BY <1>2, <2>3, <2>4
<1>3. QED  BY <1>1, <1>2

\* With setup first, what is seeded has no history yet.
LEMMA SeedOwn ==
  ASSUME GInv, NEW w \in Workers, NEW e \in Entities, NEW p \in Points, Seed(w, e, p)
  PROVE  Alone(w, e) /\ OwnPart(w, e)
<1>1. TypeOK /\ AtRest(e) /\ taken = 0 /\ seeded[e] = {} /\ reported[e] = {} /\ ~Locked(e)
  BY DEF GInv, HInv, Seed, OnlySeeds
<1>2. Last[e] = {} /\ grid[e] = {}
  BY <1>1 DEF GInv, HInv, NoTornHistory, GridMatchesHistory, Last
<1>3. /\ pc[w] = "idle" /\ pc'[w] = "seed" /\ job'[w] = [id |-> e, coord |-> p] /\ grid' = grid
      /\ \A v \in Workers \ {w} : /\ pc'[v] = pc[v] /\ job'[v] = job[v] /\ ptr'[v] = ptr[v]
                                  /\ lat'[v] = lat[v] /\ oldKey'[v] = oldKey[v]
  BY <1>1 DEF TypeOK, Seed, Goto
<1>4. /\ Last'[e] = {p}
      /\ \A d \in Entities \ {e} : prevPtr'[d] = prevPtr[d] /\ Last'[d] = Last[d]
  BY <1>1, FreshLast DEF Seed
<1>5. OwnPart(w, e)
  BY <1>2, <1>3, <1>4 DEF OwnPart, Agrees, Unrouted, Holding, Novel, Loaded, Evaluating, Placed
<1>6. QED  BY <1>1, <1>3, <1>4, <1>5 DEF Alone

LEMMA ArriveOwn ==
  ASSUME GInv, NEW w \in Workers, NEW e \in Entities, NEW p \in Points, Arrive(w, e, p)
  PROVE  Alone(w, e) /\ OwnPart(w, e)
<1>1. TypeOK /\ AtRest(e) /\ grid[e] = Last[e] /\ pc[w] = "idle"
  BY DEF GInv, HInv, Arrive, GridMatchesHistory, Last
<1>2. /\ grid' = grid /\ prevPtr' = prevPtr /\ heap' = heap /\ Last' = Last
      /\ \/ pc'[w] = "idle"
         \/ pc'[w] = "load" /\ job'[w] = [id |-> e, coord |-> p]
      /\ \A v \in Workers \ {w} : /\ pc'[v] = pc[v] /\ job'[v] = job[v] /\ ptr'[v] = ptr[v]
                                  /\ lat'[v] = lat[v] /\ oldKey'[v] = oldKey[v]
  BY <1>1 DEF TypeOK, Arrive, Goto, history, Last
<1>3. OwnPart(w, e)
  BY <1>1, <1>2 DEF OwnPart, Agrees, Unrouted, Holding, Novel, Loaded, Evaluating, Placed
<1>4. QED  BY <1>1, <1>2, <1>3 DEF Alone

LEMMA OnlySeedsStep ==
  ASSUME TypeOK, OnlySeeds, [Next]_vars
  PROVE  OnlySeeds'
<1>1. ASSUME NEW w \in Workers, NEW e \in Entities, NEW p \in Points, Arrive(w, e, p)
      PROVE  taken' # 0
  BY <1>1 DEF TypeOK, Arrive
<1>2. ASSUME NEW w \in Workers, Process(w) PROVE taken' # 0
  <2>1. pc[w] \notin {"idle", "seed"} /\ taken' = taken
    BY <1>2 DEF Process, LoadPrevious, CompareLat, CompareLng, KeyLat, KeyLng, DeleteOld,
       InsertNew, FindFences, FromLat, FromLng, Fire, StoreFirst, StoreHalf, StoreRest, Account,
       Storing, ghosts
  <2>2. QED  BY <2>1 DEF OnlySeeds
<1>3. ASSUME NEW w \in Workers, SeedRoute(w) \/ \E e \in Entities, p \in Points : Seed(w, e, p)
      PROVE  OnlySeeds'
  BY <1>3 DEF TypeOK, OnlySeeds, SeedRoute, Seed, Finish, Goto, ghosts
<1>4. CASE UNCHANGED vars \/ Tick \/ \E f \in Fences : AddFence(f)
  BY <1>4 DEF OnlySeeds, vars, Tick, AddFence, locals, ghosts
<1>5. QED  BY <1>1, <1>2, <1>3, <1>4 DEF Next, OnlySeeds

LEMMA SerialStep == GInv /\ [Next]_vars => GInv'
<1> SUFFICES ASSUME GInv, [Next]_vars PROVE GInv'
  OBVIOUS
<1>1. HInv' /\ OnlySeeds' /\ Serial' /\ SetupFirst'
  BY HistoryStep, OnlySeedsStep DEF GInv, HInv
<1>2. ASSUME NEW w \in Workers, NEW d \in Entities, Alone(w, d), OwnPart(w, d) PROVE GInv'
  BY <1>1, <1>2, OnlyOwnPart DEF GInv
<1>3. ASSUME NEW w \in Workers, Process(w) \/ SeedRoute(w) PROVE GInv'
  <2>1. Alone(w, job[w].id) /\ OwnPart(w, job[w].id)
    BY <1>3, CalmStep, RouteStep, StoresStep DEF Process, Calm
  <2>2. pc[w] # "idle"
    BY <1>3 DEF Process, SeedRoute, LoadPrevious, CompareLat, CompareLng, KeyLat, KeyLng, DeleteOld,
       InsertNew, FindFences, FromLat, FromLng, Fire, StoreFirst, StoreHalf, StoreRest, Account,
       Storing
  <2>3. QED  BY <2>1, <2>2, <1>2, Mine
<1>4. ASSUME NEW w \in Workers, NEW e \in Entities, NEW p \in Points,
             Seed(w, e, p) \/ Arrive(w, e, p)
      PROVE  GInv'
  BY <1>4, <1>2, SeedOwn, ArriveOwn
<1>5. CASE UNCHANGED vars \/ Tick \/ \E f \in Fences : AddFence(f)
  <2>1. UNCHANGED <<grid, prevPtr, heap, pc, job, ptr, lat, oldKey>>
    BY <1>5 DEF vars, Tick, AddFence, history, locals
  <2>2. UNCHANGED Last
    BY <2>1 DEF Last
  <2>3. \A w \in Workers : pc'[w] # "idle" => Agrees(w)'
    BY <2>1, <2>2 DEF GInv, Agrees
  <2>4. OneAtATime'
    BY <2>1 DEF GInv, OneAtATime
  <2>5. GridMatchesHistory'
    BY <2>1 DEF GInv, GridMatchesHistory, AtRest, InFlight
  <2>6. QED  BY <1>1, <2>3, <2>4, <2>5 DEF GInv
<1>6. QED  BY <1>3, <1>4, <1>5 DEF Next

LEMMA SerialInit == Init /\ Serial /\ SetupFirst => GInv
  BY InitType
  DEF Init, GInv, HInv, JobKnown, OwnObject, OneStorer, HalfStored, NoTornHistory, Storing,
      OneAtATime, OnlySeeds, GridMatchesHistory, GridInit

\* While packets of an entity are serial, the grid shows it where the history
\* has it, in that cell alone (pipeline.go:40-64).
THEOREM GridMatchesHistoryHolds == Spec /\ Serial /\ SetupFirst => []GridMatchesHistory
<1>1. GInv => GridMatchesHistory
  BY DEF GInv
<1>2. QED  BY <1>1, SerialInit, SerialStep, PTL DEF Spec

\* While packets of an entity are serial, one that repeats its position stops
\* at the comparison (pipeline.go:47-50).
THEOREM NoDuplicateCommittedHolds == Spec /\ Serial /\ SetupFirst => []NoDuplicateCommitted
<1>1. GInv => NoDuplicateCommitted
  <2> SUFFICES ASSUME GInv, NEW w \in Workers, pc[w] = "commit", prevPtr[job[w].id] # Nil
               PROVE  heap[prevPtr[job[w].id]] # job[w].coord
    BY DEF NoDuplicateCommitted
  <2>1. job[w].coord \notin Last[job[w].id] /\ job[w].id \in Entities
    BY Mine DEF Agrees, Novel, Evaluating
  <2>2. QED  BY <2>1 DEF Last
<1>2. QED  BY <1>1, SerialInit, SerialStep, PTL DEF Spec

-----------------------------------------------------------------------------
(* What the application was told about the fences. It matches the last     *)
(* position until the worker fires the events of the packet, and the       *)
(* packet's own position from then on.                                     *)

Within(f, S) == \E p \in S : p \in Contains[f]

\* The fences that are, or may still be, registered before the first packet.
Watched == IF taken = 0 THEN Fences ELSE registered

\* A fence that is indexed in every cell it reaches into. What lies outside
\* its box, or at longitude 180, may lie outside every listed cell.
Covered(f) == 180 \notin Lngs /\ BoxHolds[f]

\* The balance n of an application whose entity is where S says; W are the
\* fences that are watched.
Told(n, S, W) ==
  \A f \in Fences :
    /\ Covered(f) => n[f] >= 0
    /\ (Covered(f) /\ f \in W /\ Within(f, S)) => n[f] >= 1
    /\ (IndexedEverywhere(f) /\ f \in W) => n[f] = IF Within(f, S) THEN 1 ELSE 0

\* What moving from S to c raises for f.
Due(f, S, c) ==
  { ev \in Events : /\ ev.fence = f
                    /\ \/ ev.type = "enter" /\ ~Within(f, S) /\ c \in Contains[f]
                       \/ ev.type = "exit" /\ Within(f, S) /\ c \notin Contains[f] }

DueOf(F, S, c) == UNION { Due(f, S, c) : f \in F }

BeforeFire == Unrouted \cup {"insert", "near", "fences", "fromLng", "fire"}
AfterFire == {"seed", "commit", "storeLat", "storeLng", "count"}

Tells(w) ==
  /\ pc[w] \in BeforeFire => Told(view[job[w].id], Last[job[w].id], Watched)
  /\ pc[w] \in AfterFire => Told(view[job[w].id], {job[w].coord}, Watched)
  /\ pc[w] \in {"fences", "fromLng"} => near[w] \subseteq FencesNear(job[w].coord)
  /\ pc[w] \in {"fences", "fromLng", "fire"} =>
       events[w] = DueOf(FencesNear(job[w].coord) \ near[w], Last[job[w].id], job[w].coord)

NothingGathered ==
  \A w \in Workers :
    /\ pc[w] \notin {"fences", "fromLng"} => near[w] = {}
    /\ pc[w] \notin {"fences", "fromLng", "fire"} => events[w] = {}

RestTold == \A e \in Entities : AtRest(e) => Told(view[e], Last[e], Watched)

TInv ==
  /\ GInv /\ NothingGathered /\ RestTold
  /\ \A w \in Workers : pc[w] # "idle" => Tells(w)

\* What a step of w leaves alone besides.
Aside(w, d) ==
  /\ registered' = registered /\ Watched' \subseteq Watched
  /\ \A v \in Workers \ {w} : near'[v] = near[v] /\ events'[v] = events[v]
  /\ \A e \in Entities \ {d} : view'[e] = view[e]

OwnTold(w, d) ==
  /\ pc'[w] # "idle" => Tells(w)'
  /\ pc'[w] = "idle" => Told(view'[d], Last'[d], Watched')
  /\ pc'[w] \notin {"fences", "fromLng"} => near'[w] = {}
  /\ pc'[w] \notin {"fences", "fromLng", "fire"} => events'[w] = {}

LEMMA ToldFewer ==
  ASSUME NEW n, NEW S, NEW W, NEW V, V \subseteq W, Told(n, S, W)
  PROVE  Told(n, S, V)
  BY DEF Told

LEMMA OnlyOwnTold ==
  ASSUME TInv, GInv', NEW w \in Workers, NEW d \in Entities,
         Alone(w, d), Aside(w, d), OwnTold(w, d)
  PROVE  TInv'
<1>1. \A v \in Workers \ {w} : pc[v] # "idle" => job[v].id \in Entities \ {d}
  <2>1. \A v \in Workers \ {w} : pc[v] # "idle" => job[v].id # d
    BY DEF TInv, GInv, OneAtATime, Alone, AtRest, InFlight
  <2>2. QED  BY <2>1, BusyJob DEF TInv, GInv, HInv
<1>2. NothingGathered'
  BY DEF TInv, NothingGathered, Alone, Aside, OwnTold
<1>3. ASSUME NEW v \in Workers \ {w}, pc'[v] # "idle" PROVE Tells(v)'
  <2>1. Tells(v) /\ job[v].id \in Entities \ {d}
    BY <1>1, <1>3 DEF TInv, Alone
  <2>2. /\ pc'[v] = pc[v] /\ job'[v] = job[v] /\ near'[v] = near[v] /\ events'[v] = events[v]
        /\ view'[job[v].id] = view[job[v].id] /\ Last'[job[v].id] = Last[job[v].id]
    BY <2>1 DEF Alone, Aside
  <2>3. FencesNear(job[v].coord)' = FencesNear(job[v].coord)
    BY <2>2 DEF FencesNear, Aside
  <2>4. \A S : Told(view[job[v].id], S, Watched) => Told(view[job[v].id], S, Watched')
    BY ToldFewer DEF Aside
  <2>5. QED  BY <2>1, <2>2, <2>3, <2>4 DEF Tells
<1>4. RestTold'
  <2> SUFFICES ASSUME NEW e \in Entities, AtRest(e)' PROVE Told(view'[e], Last'[e], Watched')
    BY DEF RestTold
  <2>1. CASE e = d
    <3>1. pc'[w] = "idle"
      BY <2>1 DEF AtRest, InFlight, Alone
    <3>2. QED  BY <2>1, <3>1 DEF OwnTold
  <2>2. CASE e # d
    <3>1. AtRest(e)
      BY <2>2 DEF AtRest, InFlight, Alone
    <3>2. Told(view[e], Last[e], Watched) /\ view'[e] = view[e] /\ Last'[e] = Last[e]
      BY <2>2, <3>1 DEF TInv, RestTold, Alone, Aside
    <3>3. QED  BY <3>2, ToldFewer DEF Aside
  <2>3. QED  BY <2>1, <2>2
<1>5. QED
  BY <1>2, <1>3, <1>4 DEF TInv, OwnTold

-----------------------------------------------------------------------------
(* Steps that tell the application nothing and gather no event. *)

Silent(w) ==
  \/ LoadPrevious(w) \/ CompareLat(w) \/ CompareLng(w) \/ KeyLat(w) \/ KeyLng(w)
  \/ DeleteOld(w) \/ InsertNew(w) \/ StoreFirst(w) \/ StoreHalf(w) \/ StoreRest(w)
  \/ Account(w) \/ SeedRoute(w)

LEMMA SilentFrame ==
  ASSUME NEW w \in Workers, Silent(w)
  PROVE  UNCHANGED <<registered, near, events, view, taken, Watched>> /\ pc[w] # "idle"
  BY DEF Silent, LoadPrevious, CompareLat, CompareLng, KeyLat, KeyLng, DeleteOld, InsertNew,
     StoreFirst, StoreHalf, StoreRest, Account, SeedRoute, ghosts, Watched, Storing

\* Where a silent step leads, and which position the history has before.
LEMMA SilentCases ==
  ASSUME GInv, NEW w \in Workers, Silent(w)
  PROVE  \/ /\ pc[w] \in Unrouted \cup {"insert"}
            /\ pc'[w] \in Unrouted \cup {"insert", "near", "idle"} /\ Last' = Last
            /\ pc'[w] # "idle" => job'[w] = job[w]
         \/ pc[w] \in AfterFire /\ pc'[w] \in AfterFire \ {"seed"} /\ job'[w] = job[w]
         \/ /\ pc[w] \in AfterFire /\ pc'[w] = "idle" /\ Last' = Last
            /\ Last[job[w].id] = {job[w].coord}
<1>a. TypeOK
  BY DEF GInv, HInv
<1>1. CASE LoadPrevious(w) \/ CompareLat(w) \/ KeyLat(w)
  BY <1>a, <1>1 DEF TypeOK, LoadPrevious, CompareLat, KeyLat, LoadLat, Goto, history, Last, Unrouted
<1>2. CASE CompareLng(w) \/ KeyLng(w)
  BY <1>a, <1>2 DEF TypeOK, CompareLng, KeyLng, Finish, Goto, history, Last, Unrouted
<1>3. CASE DeleteOld(w) \/ InsertNew(w)
  BY <1>a, <1>3 DEF TypeOK, DeleteOld, InsertNew, Goto, history, Last, Unrouted
<1>4. CASE StoreFirst(w) \/ StoreHalf(w) \/ StoreRest(w)
  BY <1>a, <1>4 DEF TypeOK, StoreFirst, StoreHalf, StoreRest, Goto, AfterFire
<1>5. CASE Account(w) \/ SeedRoute(w)
  <2>1. pc[w] \in {"count", "seed"} /\ pc'[w] = "idle" /\ Last' = Last
    BY <1>a, <1>5 DEF TypeOK, Account, SeedRoute, Finish, Goto, history, Last
  <2>2. Last[job[w].id] = {job[w].coord}
    BY <2>1, Mine DEF Agrees
  <2>3. QED  BY <2>1, <2>2 DEF AfterFire
<1>6. QED  BY <1>1, <1>2, <1>3, <1>4, <1>5 DEF Silent

LEMMA SilentTold ==
  ASSUME TInv, NEW w \in Workers, Silent(w)
  PROVE  Aside(w, job[w].id) /\ OwnTold(w, job[w].id)
<1>a. UNCHANGED <<registered, near, events, view, taken, Watched>> /\ pc[w] # "idle"
  BY SilentFrame
<1>b. GInv /\ Tells(w)
  BY <1>a DEF TInv
<1>c. pc[w] \notin {"fences", "fromLng", "fire"} => near[w] = {} /\ events[w] = {}
  BY DEF TInv, NothingGathered
<1>1. CASE /\ pc[w] \in Unrouted \cup {"insert"}
           /\ pc'[w] \in Unrouted \cup {"insert", "near", "idle"} /\ Last' = Last
           /\ pc'[w] # "idle" => job'[w] = job[w]
  BY <1>a, <1>b, <1>c, <1>1 DEF OwnTold, Tells, Unrouted, BeforeFire, AfterFire, Aside
<1>2. CASE pc[w] \in AfterFire /\ pc'[w] \in AfterFire \ {"seed"} /\ job'[w] = job[w]
  BY <1>a, <1>b, <1>c, <1>2 DEF OwnTold, Tells, Unrouted, BeforeFire, AfterFire, Aside
<1>3. CASE /\ pc[w] \in AfterFire /\ pc'[w] = "idle" /\ Last' = Last
           /\ Last[job[w].id] = {job[w].coord}
  BY <1>a, <1>b, <1>c, <1>3 DEF OwnTold, Tells, AfterFire, Aside
<1>4. QED  BY <1>b, <1>1, <1>2, <1>3, SilentCases

-----------------------------------------------------------------------------
(* EvaluateMove gathers what the move is due, and the callbacks tell it. *)

LEMMA GatherFrame ==
  ASSUME GInv, NEW w \in Workers, FindFences(w) \/ FromLat(w) \/ FromLng(w) \/ Fire(w)
  PROVE  /\ UNCHANGED <<registered, taken, Watched, Last>> /\ job' = job
         /\ pc[w] \in {"near", "fences", "fromLng", "fire"} /\ taken # 0
         /\ \A c : FencesNear(c)' = FencesNear(c)
         /\ \A v \in Workers \ {w} : near'[v] = near[v] /\ events'[v] = events[v]
<1>1. TypeOK /\ OnlySeeds
  BY DEF GInv, HInv
<1>2. UNCHANGED <<registered, taken, prevPtr, heap>> /\ job' = job
  BY DEF FindFences, FromLat, FromLng, Fire, history, ghosts
<1>3. pc[w] \in {"near", "fences", "fromLng", "fire"}
  BY DEF FindFences, FromLat, FromLng, Fire
<1>4. \A v \in Workers \ {w} : near'[v] = near[v] /\ events'[v] = events[v]
  BY <1>1 DEF TypeOK, FindFences, FromLat, FromLng, Fire
<1>5. QED
  BY <1>1, <1>2, <1>3, <1>4 DEF OnlySeeds, Watched, Last, FencesNear

LEMMA FirstSightDue ==
  ASSUME NEW F \in SUBSET Fences, NEW c \in Points
  PROVE  FirstSightEvents(F, c) = DueOf(F \ {}, {}, c)
  BY DEF FirstSightEvents, DueOf, Due, Events, Within

LEMMA MoveDue ==
  ASSUME NEW f \in Fences, NEW p \in Points, NEW c \in Points
  PROVE  MoveEvents(f, p, c) = Due(f, {p}, c)
  BY DEF MoveEvents, Due, Events, Within

LEMMA GatherTold ==
  ASSUME TInv, NEW w \in Workers, FindFences(w) \/ FromLat(w) \/ FromLng(w)
  PROVE  Aside(w, job[w].id) /\ OwnTold(w, job[w].id)
<1>a. /\ UNCHANGED <<registered, taken, Watched, Last>> /\ job' = job
      /\ pc[w] \in {"near", "fences", "fromLng", "fire"} /\ GInv
      /\ \A v \in Workers \ {w} : near'[v] = near[v] /\ events'[v] = events[v]
  BY GatherFrame DEF TInv
<1>b. FencesNear(job[w].coord)' = FencesNear(job[w].coord)
  BY <1>a DEF FencesNear
<1>c. /\ Agrees(w) /\ TypeOK /\ job[w].id \in Entities /\ job[w].coord \in Points
      /\ ptr[w] # Nil => Last[job[w].id] = {heap[ptr[w]]} /\ heap[ptr[w]] \in Points
      /\ ptr[w] = Nil => Last[job[w].id] = {}
  <2>1. Agrees(w) /\ TypeOK /\ job[w].id \in Entities /\ job[w].coord \in Points
        /\ (ptr[w] # Nil => Last[job[w].id] = {heap[ptr[w]]} /\ heap[ptr[w]] \in Points)
    BY <1>a, Mine DEF Holding, Evaluating
  <2>2. ptr[w] = prevPtr[job[w].id]
    BY <1>a, <2>1 DEF Agrees, Holding, Evaluating
  <2>3. QED  BY <2>1, <2>2 DEF Last
<1>d. view' = view
  BY DEF FindFences, FromLat, FromLng
<1>e. Aside(w, job[w].id)
  BY <1>a, <1>d DEF Aside
<1>f. /\ Told(view[job[w].id], Last[job[w].id], Watched) /\ Tells(w)
      /\ pc[w] \notin {"fences", "fromLng"} => near[w] = {}
      /\ pc[w] \notin {"fences", "fromLng", "fire"} => events[w] = {}
  BY <1>a DEF TInv, Tells, BeforeFire, NothingGathered
<1>g. FencesNear(job[w].coord) \in SUBSET Fences
  BY <1>c DEF TypeOK, FenceTypeOK, FencesNear
<1>1. ASSUME pc'[w] \in {"fences", "fromLng", "fire"},
             pc'[w] # "fire" => near'[w] \subseteq FencesNear(job[w].coord),
             pc'[w] = "fire" => near'[w] = {},
             events'[w] = DueOf(FencesNear(job[w].coord) \ near'[w], Last[job[w].id], job[w].coord)
      PROVE  OwnTold(w, job[w].id)
  BY <1>1, <1>a, <1>b, <1>d, <1>f DEF OwnTold, Tells, BeforeFire, AfterFire, Unrouted
<1>2. CASE FindFences(w)
  <2>1. CASE ptr[w] = Nil
    <3>1. pc'[w] = "fire" /\ near' = near /\ near[w] = {}
          /\ events'[w] = FirstSightEvents(FencesNear(job[w].coord), job[w].coord)
      BY <1>2, <2>1, <1>c, <1>f DEF TypeOK, FindFences, Goto
    <3>2. events'[w] = DueOf(FencesNear(job[w].coord) \ {}, {}, job[w].coord)
      BY <3>1, <1>c, <1>g, FirstSightDue
    <3>3. QED  BY <2>1, <3>1, <3>2, <1>c, <1>e, <1>1
  <2>2. CASE ptr[w] # Nil
    <3>1. pc'[w] = "fences" /\ near'[w] = FencesNear(job[w].coord)
          /\ events' = events /\ events[w] = {}
      BY <1>2, <2>2, <1>c, <1>f DEF TypeOK, FindFences, Goto
    <3>2. DueOf(FencesNear(job[w].coord) \ near'[w], Last[job[w].id], job[w].coord) = {}
      BY <3>1 DEF DueOf
    <3>3. QED  BY <3>1, <3>2, <1>e, <1>1
  <2>3. QED  BY <2>1, <2>2
<1>3. CASE FromLat(w)
  <2>1. /\ pc[w] = "fences" /\ near' = near /\ events' = events
        /\ pc'[w] = "fromLng" \/ (pc'[w] = "fire" /\ near[w] = {})
    BY <1>3, <1>c DEF TypeOK, FromLat, LoadLat, Goto
  <2>2. /\ near[w] \subseteq FencesNear(job[w].coord)
        /\ events[w] = DueOf(FencesNear(job[w].coord) \ near[w], Last[job[w].id], job[w].coord)
    BY <2>1, <1>f DEF Tells
  <2>3. QED  BY <2>1, <2>2, <1>e, <1>1
<1>4. CASE FromLng(w)
  <2>1. pc[w] = "fromLng" /\ near[w] # {} /\ ptr[w] # Nil
    BY <1>4, <1>c DEF TypeOK, LocalOK, FromLng
  <2>2. /\ near[w] \subseteq FencesNear(job[w].coord)
        /\ events[w] = DueOf(FencesNear(job[w].coord) \ near[w], Last[job[w].id], job[w].coord)
    BY <2>1, <1>f DEF Tells
  <2>3. Last[job[w].id] = {heap[ptr[w]]} /\ heap[ptr[w]] \in Points /\ lat[w] = heap[ptr[w]].lat
    BY <2>1, <1>c DEF Agrees, Loaded
  <2>4. Seen(w) = heap[ptr[w]]
    BY <2>3 DEF Seen, Points
  <2>5. PICK f \in near[w] :
          /\ pc'[w] = "fences" /\ near'[w] = near[w] \ {f}
          /\ events'[w] = events[w] \cup MoveEvents(f, Seen(w), job[w].coord)
    <3>1. (CHOOSE g \in near[w] : TRUE) \in near[w]
      BY <2>1
    <3>2. QED  BY <1>4, <3>1, <1>c DEF TypeOK, FromLng, Goto
  <2>6. MoveEvents(f, Seen(w), job[w].coord) = Due(f, Last[job[w].id], job[w].coord)
    BY <2>2, <2>3, <2>4, <1>c, <1>g, MoveDue
  <2>7. FencesNear(job[w].coord) \ near'[w] = (FencesNear(job[w].coord) \ near[w]) \cup {f}
    BY <2>2, <2>5
  <2>8. \A F, S, c : DueOf(F \cup {f}, S, c) = DueOf(F, S, c) \cup Due(f, S, c)
    BY DEF DueOf
  <2>9. events'[w] = DueOf(FencesNear(job[w].coord) \ near'[w], Last[job[w].id], job[w].coord)
    BY <2>2, <2>5, <2>6, <2>7, <2>8
  <2>10. QED  BY <2>2, <2>5, <2>9, <1>e, <1>1
<1>5. QED  BY <1>2, <1>3, <1>4

\* A fence is found where it contains a position, if its box holds it, and
\* everywhere, if it is indexed everywhere.
LEMMA FoundNear ==
  ASSUME TypeOK, NEW f \in registered, NEW c \in Points,
         IndexedEverywhere(f) \/ (Covered(f) /\ c \in Contains[f])
  PROVE  f \in FencesNear(c)
<1>1. f \in Fences
  BY DEF TypeOK, FenceTypeOK
<1>2. CASE IndexedEverywhere(f)
  BY <1>2 DEF IndexedEverywhere, FencesNear
<1>3. CASE Covered(f) /\ c \in Contains[f]
  <2>1. c \in [lat : -90 .. 90, lng : -180 .. 179]
    <3>0. c.lat \in Lats /\ c.lng \in Lngs
      BY DEF Points
    <3>1. \A y \in Lats : y \in -90 .. 90
      BY GridAssumption
    <3>2. \A x \in Lngs : x \in -180 .. 180
      BY GridAssumption
    <3>3. c.lng # 180
      BY <3>0, <1>3, Zenon DEF Covered
    <3>4. c.lng \in -180 .. 179
      BY <3>0, <3>2, <3>3
    <3>5. QED  BY <3>0, <3>1, <3>4 DEF Points
  <2>2. FenceBox[f] \in [lat : -90 .. 90, lng : -180 .. 180, dLat : Nat \ {0}, dLng : Nat]
    BY <1>1, FenceAssumption
  <2>3. WithinBox(FenceBox[f], c)
    <3>1. BoxHolds[f]
      BY <1>3 DEF Covered
    <3>2. BoxHolds[f] = \A p \in Contains[f] : WithinBox(FenceBox[f], p)
      BY <1>1, Zenon DEF BoxHolds
    <3>3. QED  BY <3>1, <3>2, <1>3
  <2>4. ShardKey(c) \in ShardsForRadius(FenceBox[f])
    BY <2>1, <2>2, <2>3, Coverage
  <2>5. IndexCells[f] = ShardsForRadius(FenceBox[f])
    BY <1>1 DEF IndexCells
  <2>6. QED  BY <2>4, <2>5 DEF FencesNear
<1>4. QED  BY <1>2, <1>3

\* The balance of the due events takes what was told of S to c.
LEMMA BalanceDue ==
  ASSUME NEW F \in SUBSET Fences, NEW f \in Fences, NEW S \in SUBSET Points, NEW c \in Points
  PROVE  Balance(f, DueOf(F, S, c)) =
           IF f \notin F THEN 0
           ELSE IF ~Within(f, S) /\ c \in Contains[f] THEN 1
           ELSE IF Within(f, S) /\ c \notin Contains[f] THEN -1 ELSE 0
<1>1. [fence |-> f, type |-> "enter"] \in DueOf(F, S, c)
        <=> f \in F /\ ~Within(f, S) /\ c \in Contains[f]
  BY DEF DueOf, Due, Events
<1>2. [fence |-> f, type |-> "exit"] \in DueOf(F, S, c)
        <=> f \in F /\ Within(f, S) /\ c \notin Contains[f]
  BY DEF DueOf, Due, Events
<1>3. QED  BY <1>1, <1>2 DEF Balance

LEMMA FireTold ==
  ASSUME TInv, NEW w \in Workers, Fire(w)
  PROVE  Aside(w, job[w].id) /\ OwnTold(w, job[w].id)
<1>a. /\ UNCHANGED <<registered, taken, Watched, Last>> /\ job' = job /\ GInv /\ taken # 0
      /\ pc[w] = "fire" /\ \A v \in Workers \ {w} : near'[v] = near[v] /\ events'[v] = events[v]
  BY GatherFrame DEF TInv, Fire
<1>b. TypeOK /\ job[w].id \in Entities /\ job[w].coord \in Points
  BY <1>a, Mine
<1>1. /\ pc'[w] = "commit" /\ near' = near /\ near[w] = {} /\ events'[w] = {}
      /\ \A e \in Entities \ {job[w].id} : view'[e] = view[e]
      /\ \A f \in Fences : view'[job[w].id][f] = view[job[w].id][f] + Balance(f, events[w])
  BY <1>a, <1>b DEF TypeOK, Fire, Goto, TInv, NothingGathered
<1>2. /\ Told(view[job[w].id], Last[job[w].id], Watched)
      /\ events[w] = DueOf(FencesNear(job[w].coord), Last[job[w].id], job[w].coord)
  BY <1>a, <1>1 DEF TInv, Tells, BeforeFire
<1>3. Watched = registered /\ registered \in SUBSET Fences
  BY <1>a, <1>b DEF Watched, TypeOK, FenceTypeOK
<1>4. FencesNear(job[w].coord) \in SUBSET registered
  BY DEF FencesNear
<1>5. Last[job[w].id] \in SUBSET Points
  BY <1>b DEF Last, TypeOK
<1>6. Told(view'[job[w].id], {job[w].coord}, Watched)
  <2> SUFFICES ASSUME NEW f \in Fences
               PROVE  /\ Covered(f) => view'[job[w].id][f] >= 0
                      /\ (Covered(f) /\ f \in registered /\ job[w].coord \in Contains[f])
                           => view'[job[w].id][f] >= 1
                      /\ (IndexedEverywhere(f) /\ f \in registered)
                           => view'[job[w].id][f] = IF job[w].coord \in Contains[f] THEN 1 ELSE 0
    BY <1>3 DEF Told, Within
  <2>1. view[job[w].id][f] \in Int
    BY <1>b DEF TypeOK
  <2>2. view'[job[w].id][f] = view[job[w].id][f] +
          IF f \notin FencesNear(job[w].coord) THEN 0
          ELSE IF ~Within(f, Last[job[w].id]) /\ job[w].coord \in Contains[f] THEN 1
          ELSE IF Within(f, Last[job[w].id]) /\ job[w].coord \notin Contains[f] THEN -1 ELSE 0
    <3>1. FencesNear(job[w].coord) \in SUBSET Fences
      BY <1>3, <1>4
    <3>2. QED  BY <1>1, <1>2, <1>5, <1>b, <3>1, BalanceDue
  <2>3. /\ Covered(f) => view[job[w].id][f] >= 0
        /\ (Covered(f) /\ f \in registered /\ Within(f, Last[job[w].id]))
             => view[job[w].id][f] >= 1
        /\ (IndexedEverywhere(f) /\ f \in registered)
             => view[job[w].id][f] = IF Within(f, Last[job[w].id]) THEN 1 ELSE 0
    BY <1>2, <1>3 DEF Told
  <2>4. f \in FencesNear(job[w].coord) => f \in registered
    BY <1>4
  <2>5. (f \in registered /\ (IndexedEverywhere(f) \/ (Covered(f) /\ job[w].coord \in Contains[f])))
          => f \in FencesNear(job[w].coord)
    BY <1>b, FoundNear
  <2>6. QED  BY <2>1, <2>2, <2>3, <2>4, <2>5
<1>7. OwnTold(w, job[w].id)
  BY <1>a, <1>1, <1>6 DEF OwnTold, Tells, BeforeFire, AfterFire, Unrouted
<1>8. Aside(w, job[w].id)
  BY <1>a, <1>1 DEF Aside
<1>9. QED  BY <1>7, <1>8

-----------------------------------------------------------------------------
(* Seeds and arrivals. *)

\* The application seeds what it knows.
LEMMA SeedTold ==
  ASSUME TInv, NEW w \in Workers, NEW e \in Entities, NEW p \in Points, Seed(w, e, p)
  PROVE  Aside(w, e) /\ OwnTold(w, e)
<1>1. TypeOK /\ pc[w] = "idle"
  BY DEF TInv, GInv, HInv, Seed
<1>2. /\ UNCHANGED <<registered, near, events, taken, Watched>> /\ pc'[w] = "seed"
      /\ job'[w] = [id |-> e, coord |-> p] /\ near[w] = {} /\ events[w] = {}
      /\ \A d \in Entities \ {e} : view'[d] = view[d]
  BY <1>1 DEF TypeOK, Seed, Goto, Watched, TInv, NothingGathered
<1>3. Told(view'[e], {p}, Watched)
  <2>1. \A f \in Fences : view'[e][f] = IF p \in Contains[f] THEN 1 ELSE 0
    BY <1>1 DEF TypeOK, Seed
  <2>2. QED  BY <2>1 DEF Told, Within
<1>4. QED
  BY <1>2, <1>3 DEF Aside, OwnTold, Tells, BeforeFire, AfterFire, Unrouted

LEMMA ArriveTold ==
  ASSUME TInv, NEW w \in Workers, NEW e \in Entities, NEW p \in Points, Arrive(w, e, p)
  PROVE  Aside(w, e) /\ OwnTold(w, e)
<1>1. TypeOK /\ pc[w] = "idle" /\ AtRest(e)
  BY DEF TInv, GInv, HInv, Arrive
<1>2. /\ UNCHANGED <<registered, near, events, view, prevPtr, heap>> /\ near[w] = {} /\ events[w] = {}
      /\ pc'[w] = "idle" \/ (pc'[w] = "load" /\ job'[w] = [id |-> e, coord |-> p])
  BY <1>1 DEF TypeOK, Arrive, Goto, history, TInv, NothingGathered
<1>3. Last' = Last /\ Watched' \subseteq Watched
  BY <1>1, <1>2 DEF Last, Watched, Arrive, TypeOK, FenceTypeOK
<1>4. Told(view[e], Last[e], Watched')
  BY <1>1, <1>3, ToldFewer DEF TInv, RestTold
<1>5. QED
  BY <1>2, <1>3, <1>4 DEF Aside, OwnTold, Tells, BeforeFire, AfterFire, Unrouted

LEMMA ToldStep == TInv /\ [Next]_vars => TInv'
<1> SUFFICES ASSUME TInv, [Next]_vars PROVE TInv'
  OBVIOUS
<1>1. GInv /\ GInv' /\ TypeOK
  BY SerialStep DEF TInv, GInv, HInv
<1>2. ASSUME NEW w \in Workers, Process(w) \/ SeedRoute(w) PROVE TInv'
  <2>1. Alone(w, job[w].id) /\ pc[w] # "idle"
    <3>1. Calm(w) \/ DeleteOld(w) \/ InsertNew(w) \/ SeedRoute(w)
            \/ StoreFirst(w) \/ StoreHalf(w) \/ StoreRest(w)
      BY <1>2 DEF Process, Calm
    <3>2. Calm(w) => pc[w] # "idle"
      BY <1>1, CalmFrame
    <3>3. QED
      BY <1>1, <3>1, <3>2, CalmStep, RouteStep, StoresStep
      DEF DeleteOld, InsertNew, SeedRoute, StoreFirst, StoreHalf, StoreRest
  <2>2. Aside(w, job[w].id) /\ OwnTold(w, job[w].id)
    BY <1>2, SilentTold, GatherTold, FireTold DEF Process, Silent
  <2>3. job[w].id \in Entities
    BY <1>1, <2>1, Mine
  <2>4. QED  BY <1>1, <2>1, <2>2, <2>3, OnlyOwnTold
<1>3. ASSUME NEW w \in Workers, NEW e \in Entities, NEW p \in Points,
             Seed(w, e, p) \/ Arrive(w, e, p)
      PROVE  TInv'
  BY <1>1, <1>3, SeedOwn, ArriveOwn, SeedTold, ArriveTold, OnlyOwnTold
<1>4. CASE UNCHANGED vars \/ Tick \/ \E f \in Fences : AddFence(f)
  <2>1. UNCHANGED <<prevPtr, heap, pc, job, near, events, view, Last>>
    BY <1>4 DEF vars, Tick, AddFence, history, locals, Last
  <2>2. Watched' = Watched
    BY <1>1, <1>4 DEF vars, Tick, AddFence, Register, Watched, GInv, ghosts
  <2>3. ASSUME NEW w \in Workers, pc[w] \in {"fences", "fromLng", "fire"}
        PROVE  FencesNear(job[w].coord)' = FencesNear(job[w].coord)
    <3>1. taken # 0
      BY <1>1, <2>3 DEF GInv, OnlySeeds
    <3>2. registered' = registered
      BY <1>1, <1>4, <3>1 DEF vars, Tick, AddFence, GInv
    <3>3. QED  BY <2>1, <3>2 DEF FencesNear
  <2>4. \A w \in Workers : pc'[w] # "idle" => Tells(w)'
    BY <2>1, <2>2, <2>3 DEF TInv, Tells
  <2>5. NothingGathered' /\ RestTold'
    BY <2>1, <2>2 DEF TInv, NothingGathered, RestTold, AtRest, InFlight
  <2>6. QED  BY <1>1, <2>4, <2>5 DEF TInv
<1>5. QED  BY <1>2, <1>3, <1>4 DEF Next

LEMMA ToldInit == Init /\ Serial /\ SetupFirst => TInv
<1> SUFFICES ASSUME Init, Serial, SetupFirst PROVE TInv
  OBVIOUS
<1>1. RestTold
  <2>1. \A e \in Entities : Last[e] = {} /\ \A f \in Fences : view[e][f] = 0
    BY DEF Init, Last
  <2>2. QED  BY <2>1 DEF RestTold, Told, Within
<1>2. NothingGathered
  BY DEF Init, NothingGathered
<1>3. QED  BY <1>1, <1>2, SerialInit DEF TInv, Init

\* What the application knows of an entity at rest.
LEMMA RestKnows ==
  ASSUME TInv, NEW e \in Entities, NEW f \in registered, AtRest(e)
  PROVE  /\ Covered(f) /\ (\E p \in grid[e] : p \in Contains[f]) => view[e][f] >= 1
         /\ IndexedEverywhere(f) =>
              view[e][f] = IF \E p \in grid[e] : p \in Contains[f] THEN 1 ELSE 0
<1>1. grid[e] = Last[e]
  BY DEF TInv, GInv, GridMatchesHistory, Last
<1>2. f \in Fences /\ f \in Watched
  BY DEF TInv, GInv, HInv, TypeOK, FenceTypeOK, Watched
<1>3. Told(view[e], Last[e], Watched)
  BY DEF TInv, RestTold
<1>4. QED  BY <1>1, <1>2, <1>3 DEF Told, Within

\* No enter of a fence its box holds is missed: it is indexed in every cell it
\* reaches into, so EvaluateMove finds it in the cell of the position
\* (evaluate.go:30-105). Longitude 180 may be missed by any box (hash.go:14).
THEOREM EnterNeverMissedHolds ==
  ASSUME 180 \notin Lngs
  PROVE  Spec /\ Serial /\ SetupFirst => []EnterNeverMissed
<1>1. TInv => EnterNeverMissed
  BY RestKnows DEF EnterNeverMissed, Inside, Covered
<1>2. QED  BY <1>1, ToldInit, ToldStep, PTL DEF Spec

\* No exit of a fence its box holds is announced before its enter, at any
\* moment: an exit is raised by a packet that finds the entity inside, where
\* it was announced (evaluate.go:44-82).
THEOREM NoExitWithoutEnterHolds ==
  ASSUME 180 \notin Lngs
  PROVE  Spec /\ Serial /\ SetupFirst => []NoExitWithoutEnter
<1>1. TInv => NoExitWithoutEnter
  <2> SUFFICES ASSUME TInv, NEW e \in Entities, NEW f \in Fences, BoxHolds[f]
               PROVE  view[e][f] >= 0
    BY DEF NoExitWithoutEnter
  <2>1. CASE AtRest(e)
    <3>1. Told(view[e], Last[e], Watched)
      BY <2>1 DEF TInv, RestTold
    <3>2. QED  BY <3>1 DEF Told, Covered
  <2>2. CASE ~AtRest(e)
    <3>1. PICK w \in Workers : pc[w] # "idle" /\ job[w].id = e
      BY <2>2 DEF AtRest, InFlight
    <3>2. Tells(w) /\ pc[w] \in Steps
      BY <3>1 DEF TInv, GInv, HInv, TypeOK
    <3>3. pc[w] \in BeforeFire \/ pc[w] \in AfterFire
      BY <3>1, <3>2 DEF Steps, BeforeFire, AfterFire, Unrouted
    <3>4. \E S : Told(view[e], S, Watched)
      BY <3>1, <3>2, <3>3 DEF Tells
    <3>5. QED  BY <3>4 DEF Told, Covered
  <2>3. QED  BY <2>1, <2>2
<1>2. QED  BY <1>1, ToldInit, ToldStep, PTL DEF Spec

\* Where a fence is indexed in every cell that occurs, its events alternate,
\* whatever path the entities take (evaluate.go:61-82).
THEOREM EventsAlternateHolds == Spec /\ Serial /\ SetupFirst => []EventsAlternate
<1>1. TInv => EventsAlternate
  BY RestKnows DEF EventsAlternate
<1>2. QED  BY <1>1, ToldInit, ToldStep, PTL DEF Spec

-----------------------------------------------------------------------------
(* What two of the documents state, and when it is so: the one is broken by *)
(* packets of an entity that are not serial, the other by borders of cells. *)

\* While packets of an entity are serial and setup comes first, Count counts
\* every entity at rest once at most (grid.go:145).
THEOREM CountedOnceHolds == Spec /\ Serial /\ SetupFirst => []CountedOnce
<1>1. GInv => CountedOnce
  <2> SUFFICES ASSUME GInv, NEW e \in Entities, AtRest(e)
               PROVE  Cardinality(CellsHolding(e)) <= 1
    BY DEF CountedOnce
  <2>1. grid[e] = Last[e]
    BY DEF GInv, GridMatchesHistory, Last
  <2>2. CASE prevPtr[e] = Nil
    <3>1. CellsHolding(e) = {}
      BY <2>1, <2>2 DEF CellsHolding, Last
    <3>2. QED  BY <3>1, FS_EmptySet
  <2>3. CASE prevPtr[e] # Nil
    <3>1. CellsHolding(e) = {ShardKey(heap[prevPtr[e]])}
      BY <2>1, <2>3 DEF CellsHolding, Last
    <3>2. Cardinality({ShardKey(heap[prevPtr[e]])}) = 1
      BY FS_Singleton
    <3>3. QED  BY <3>1, <3>2
  <2>4. QED  BY <2>2, <2>3
<1>2. QED  BY <1>1, SerialInit, SerialStep, PTL DEF Spec

\* If every fence is indexed in all the cells that occur, no exit is missed:
\* what EvaluateMove gets wrong it gets wrong at the border of the indexed
\* cells alone (evaluate.go:35).
THEOREM ExitNeverMissedWithin ==
  ASSUME \A f \in Fences : IndexedEverywhere(f)
  PROVE  Spec /\ Serial /\ SetupFirst => []ExitNeverMissed
<1>1. TInv => ExitNeverMissed
  <2> SUFFICES ASSUME TInv, NEW e \in Entities, NEW f \in registered, AtRest(e),
                      \A p \in grid[e] : p \notin Contains[f]
               PROVE  view[e][f] = 0
    BY DEF ExitNeverMissed
  <2>1. registered \subseteq Fences
    <3>1. TypeOK  BY DEF TInv, GInv, HInv
    <3>2. QED  BY <3>1 DEF TypeOK, FenceTypeOK
  <2>2. IndexedEverywhere(f)
    BY <2>1
  <2>3. QED  BY <2>2, RestKnows
<1>2. QED  BY <1>1, ToldInit, ToldStep, PTL DEF Spec
=============================================================================
