# Aerocast in TLA+

A formal model of Aerocast, the in-memory engine that takes positions of moving
entities over UDP, tracks them in a grid, raises geofence events and broadcasts
the positions to websocket subscribers. The modules are translated from the Go
source (paths below are relative to the repository); TLC checks them on small
instances, and TLAPS proves the theorems in the `*_proofs` modules for every
value of the constants. `PROJECT.json` lists components, runs, the source lines
behind every definition, the hazards and the findings.

## The system

| Component | State | Operations | Module |
|---|---|---|---|
| Cell hashing `pkg/spatial/hash.go` | none | `ShardKey`, `ShardsForRadius` | `SpatialHash` |
| Grid `pkg/spatial/grid.go` | per cell and stripe: mutex, map entity -> position | `Route`, `RouteWithPrevious`, `Remove`, `Get`, `QueryCircle`, `Count`, `ShardStats`, `EgressRecords` | `SpatialGrid`, `GridScan`, `Delivery` |
| Geofences `pkg/geofence` | fence list and cell index, callbacks | `Register`, `FencesNear`, `EvaluateMove`, `Contains` | `Geofence`, `FenceShapes` |
| Rate limiter `pkg/engine/cms.go` | 4 x 1024 counters, mutex | `addAndEstimate`, `reset` | `CountMinSketch`, `RateLimiter`, `EntityLimiter` |
| Unique entities `pkg/engine/hll.go` | 64 registers per cell, mutex | `Add`, `Estimate` | `HyperLogLog`, `Analytics` |
| Pipeline `pkg/engine/pipeline.go`, `callbacks.go` | history (map entity -> pointer, lock per shard), counters | `ProcessPacket`, `SeedPosition`, `Publish` | `Pipeline` |
| Fan-out `pkg/fanout` | subscriptions and cell index (one lock), channels (another) | `Subscribe`, `Unsubscribe`, `Follow`, `Unfollow`, `Broadcast`, `Create`, `Get`, `Remove` | `Fanout`, `Delivery` |
| Websocket server `pkg/transport/ws` | connection table, two goroutines per connection | `handleWS`, `readLoop`, `writeLoop`, `Run` | `WsServer`, `EngineRun` |
| UDP listener `pkg/transport/udp` | bounded packet channel, WaitGroup | `Run`, `readAndProcessBatch`, `processPacket`, `Close` | `EngineRun` |
| Lifecycle `pkg/engine/engine.go` | context, WaitGroup | `Run` | `EngineRun` |
| Daemon `cmd/aerocastd`, `pkg/config`, `pkg/engine/stats.go` | configuration, last statistics, exported counters, exit status | `Load`, `NewEngine`, `Stats`, metrics loop, signals | `Daemon` |

A datagram goes from the listener through the bounded channel to one of the
pipeline workers. `ProcessPacket` counts it in the sketch, compares it with the
last position, moves the entity in the grid, evaluates the fences, calls the
application back, and writes history and analytics. Independently a tick
clears the sketch and visits every cell; where there are subscribers and
records it copies the subscriptions, filters the records for each and sends a
frame to its channel without waiting. A writer goroutine per connection takes
frames out of the channel and writes them to the socket; the reader only waits
for the connection to end. The daemon loads a configuration, makes the engine,
exports its counters every five seconds and cancels its context on a signal.

What is hard about it:

* workers handle packets of one entity at the same time, and read the previous
  position through a pointer after its lock is released;
* moves between cells and scans of the grid take many locks one after the other,
  and the tick makes frames out of such scans;
* a bounded channel drops frames of a slow client, always those of the later
  cells first;
* fences are looked up by the destination cell alone;
* channels are looked up under a lock and used, or closed, outside it;
* clients vanish without closing; nothing but a failing write notices;
* shutdown crosses two WaitGroups, a closed channel and a cancelled context;
* statistics are read counter by counter while they grow, and exported as
  differences of such readings.

## Modules

`SpatialTypes`, `SpatialHash`, `SpatialGrid`, `Geofence`, `FenceShapes`,
`CountMinSketch` and `HyperLogLog` are libraries of operators (with the state
variable of the component where there is one). `Pipeline`, `RateLimiter` and
`Analytics` on top of it, `GridScan`, `Delivery`, `WsServer` (with `Fanout`) and
`Daemon` (with `EngineRun`) are complete specifications. `EntityLimiter` and
`PositionFeed` are abstract ones, which `RateLimiter` and `Delivery` implement.
`MC*` modules give the constants their values. The operators marked "Mutant"
are deliberately wrong variants of the definition that follows them. Nothing
refers to them; put in the place of that definition each breaks a property,
which shows that the property depends on the code.

**SpatialHash.** Coordinates are whole degrees, and a radius in metres appears
as the half-widths of the box `ShardsForRadius` derives from it. At that
resolution the code's floating point is exact at every cell border that occurs
(the header explains why). Rows and columns wrap in `ShardsForRadius` and are
clamped in `ShardKey`, as in the code. The box does not bound the circle, and
nothing assumes that it does: `r / cos(lat)` is its width at the latitude of the
centre, but a circle is widest nearer to the pole, where it reaches
`asin(sin r / cos lat)`. With 1000 km at latitude 75 that is 37.2 degrees instead
of 34.7, with 20 degrees at latitude 60 it is 43.2 instead of 40, and a circle
that holds a pole reaches all longitudes. (A degree taken for 111320 m instead
of `HaversineM`'s 111195 makes the box another 0.1% smaller.) `BoxHolds` and
`WithinBox` say in the properties where a box does hold what it is made for.

**Geofence** and **FenceShapes.** To the store and the evaluator a fence is the
set of positions it contains and the box of its centre and bounding radius,
two things the model does not relate, because the code does not either.
`InPolygon` is `Polygon.Contains` with the division multiplied out; the runs of
`Pipeline` take their fences from it, and check two facts about it over every
quadrilateral with corners in a small lattice: rectangles are half open, so
neighbours neither overlap nor leave a gap, and a diagonal divides a polygon's
positions between the two parts. Both are also proved, for every lattice and any
number of vertices. `Circle` compares a great-circle distance.

**Pipeline.** One action per critical section or unlocked access of
`ProcessPacket`. The history is `prevPtr` (the map) and `heap` (what the
pointers point to): an unlocked read of a `CoordPacket` takes a step per field,
and so does the write `*p = coord` under the lock. `ptr`, `lat`, `oldKey`,
`near` and `events` are a worker's locals, `view` is what the callbacks have
told the application, and the variables called history in their comment only
serve the properties. `Serial` says that packets of one entity do not overlap
(one worker, or one publisher per entity, as `examples/basic_web`); with the
default of four workers fed by UDP they do. A restart loses all state, and what
the application does then, register fences and seed positions before it
publishes, is where a behaviour with `SetupFirst` begins.

**RateLimiter** and **Analytics.** A packet and the tick's reset are one step
each, under the sketch's mutex. `Analytics` adds the HyperLogLog of the cell a
packet is routed to, with the code's hash, and the sum of estimates that
`Stats` reports, as exact integers: `MaxRank`, the greatest rank (27), scales the
sum of `1 / (1 << rank)` and its numerator alike. A run takes a smaller one, for
TLC's integers, and ids whose ranks stay below it.

**GridScan.** A scan visits slots, a stripe of a cell each. A query goes by the
list of `ShardsForRadius`, from the first row and column of its box and around
(`ListPlace`): across the antimeridian column 15 comes before column 0. The other
scans go by the keys of the cells. A move is a delete and an insert; packets of
one entity are serial. The set of positions in `grid[e]` stands for
the map entries of `e`: the key of an entry is always the cell of its position.

**Delivery** and **PositionFeed.** From a move to the client: the delete and the
insert of `RouteWithPrevious`, the two passes of `EgressRecords` over the stripes
of a cell, the frame made for each subscriber, the bounded channel, the client
that overlays what it shows. A position is its cell and its number among the
positions of its entity, so that "older" can be said. `PositionFeed` says that
nobody is taken back to an older position or shown one that was not reported.

**Fanout** and **WsServer.** `table` is what `Engine.mu` guards; `writing` is
set while `Follow` holds it in the middle of a map write. `chan` and `qlen` are
the channels: closing one leaves its frames receivable. `tick` follows
`broadcastTick` and `Broadcast`, with lookup and send as two steps. `handler`
and `writer` are the two goroutines of a connection. `crashed` records the two
ways the Go runtime may end the process here; nothing happens after.
`Following` starts as a nil map, represented by `NoMap`, which unlike the empty
one wants every entity.

**EngineRun** and **Daemon.** Packets are numbers only. The listener, its
deferred calls, the workers, the tick loop, the server and `Run` are steps
between channel, context and WaitGroup operations; `listening` is the
listener's own WaitGroup. `Daemon` adds `main`: a configuration in which each
number is negative, zero or positive, its defaults and checks, the panics a
wrong number leads to, the loop that reads `Stats` counter by counter and
exports differences, and the exit status. A signal before the engine is built
ends the process at once and has no step of its own.

## Runs and what they show

| Run | Expect | Question |
|---|---|---|
| `MCPipelineSerial` | pass | While packets of an entity are serial: grid and history agree; whoever rests in a fence that its box holds was announced; enters and exits alternate for a fence indexed in every cell; no exit of a fence its box holds comes without an enter; no repeated position is processed |
| `MCPipelineRace` | pass | With overlapping packets: no entity is lost, no history torn, analytics and counters are complete |
| `MCPipelineExit` | violation | Leaving a fence for a cell it is not indexed in raises no exit |
| `MCPipelineNorth` | violation | Entering a circle of 1000 km at latitude 75, beyond the box it is indexed by, raises no enter |
| `MCPipelineGhost` | violation | An entity can stay in two cells |
| `MCAnalytics` | pass | The limit holds, the sketch is bounded, exact with a private column, and implements `EntityLimiter`; a cell's HyperLogLog depends on who came alone |
| `MCGridScan` | pass | While packets of an entity are serial: scans are exact for entities at rest, a query for those in its circle and its box; further sightings are owed to moves |
| `MCDelivery` | pass | While packets of an entity are serial: no client is taken back in time (`PositionFeed`); a tick makes exactly one frame with an entity at rest for each of its subscribers; what stays in a client's cells is shown in the end |
| `MCWsServer` | pass | Table, index, channels and connections agree; nothing is left behind; a vanished client is released, and no client holds up a tick |
| `MCWsServerClose` | violation | A disconnect can make the broadcast send on a closed channel |
| `MCWsServerFollow` | violation | `Follow` writes a map the broadcast is reading |
| `MCDaemon` | pass | Datagrams are accounted for; `Run` returns only when all is quiet; exported counters neither run ahead nor lose anything; only a negative setting can panic; a cancelled engine ends; the queue of a failed listener is drained |

The violations are findings: the code does not do what a document or comment
of the repository says; `PROJECT.json` quotes it for each. The models show
more behaviour of this kind that has no run of its own: two workers can process
the same position twice, because the duplicate check and the write of the
history are two critical sections (`pipeline.go:47, 57`); ids that are equal
modulo 1024 share every column of the sketch and are limited together
(`cms.go:27`); `Count` can miss an entity that moves meanwhile, or count it
twice (`grid.go:145`); an engine nobody has sent anything to reports 11520 unique
entities, 45 for each of 256 empty sketches (`hll.go:37`), and as nothing calls
`Reset` it goes on counting every entity it ever saw, while the metric's help
speaks of an "analytics window" (`hll.go:41`, `UniqueNeverFallsHolds`); frames
dropped for slow clients are exported as dropped UDP packets (`stats.go:30`); and
`main` reports
an orderly shutdown as a failure, because `Run` returns `ctx.Err()`
(`main.go:168`).

### Bounds

* `MaxPackets`, `MaxSeeds` (Pipeline): three packets and a seed. Each race needs
  two packets of one entity in flight on top of a stored position; the third
  makes the history something other than the first packet's. The race runs
  have three addresses, so a worker can hold a pointer that has been replaced.
  `MCPipelineNorth` needs one worker, one entity and one packet.
  The symmetry sets permute workers and addresses, which nothing tells apart.
* Positions: latitudes 0 and 5 share a row of cells, 40 does not; two longitudes
  in different columns make torn positions lie in cells of their own. The two
  fences are the two cases that matter, indexed in some cells and in all, and
  both lie in their boxes; the circle of `MCPipelineNorth` does not.
* `MaxOffered` (RateLimiter): six packets between ticks against a limit of
  two, so two ids exceed it together. The four ids are chosen so that they share
  one, some and all of the columns, and two of them a register; columns and
  registers are computed as the code does. Two cells have a sketch in use.
* `MaxMoves` (GridScan): two moves of an entity during one scan, which is what a
  miss and a double count take. Two entities share a stripe. The circle has a
  radius of 15 degrees of latitude around a place on the equator, where the two
  half-widths are equal, and crosses the antimeridian.
* `MaxVersion` (Delivery): two positions of an entity, enough for an older one
  to follow a newer one; two entities in different stripes and two cells, so
  that a scan can be overtaken in both of its passes and between cells.
  `ChanCap` 2 holds one frame of each cell, the least with which a client that
  keeps up is shown everything: `Fresh` fails with less.
* `ChanCap` 2, `MaxDropped` 1 (Fanout): full, empty and closed channels occur.
  `MaxDropped` only stops a counter. `Followers` restricts `Follow` to one id.
  One connection, through its whole life, against the tick and the application:
  connections meet in the table and the index only, and the theorems about
  these are for any number of them.
* `ChannelSize` 1, `BatchSize` 2, `MaxPackets` 2 (Daemon): a batch of two fills
  the channel and drops, and packets are queued at shutdown. `Setups`: the two
  transports meet only in what `Run` waits for, so each is enabled without the
  other. `MaxFrames` is the number of frames ticks drop.

### Fairness

* Goroutines run: weak fairness of a worker, the listener, the metrics loop, and
  a writer whose client reads.
* A mutex that is free again and again is obtained: strong fairness of handlers
  and the tick. Go's `RWMutex` queues its waiters.
* A select takes a case that stays ready: weak fairness of the tick loop's end
  as a step of its own. Go picks at random among the ready cases.
* A write to a client that is gone fails in the end: weak fairness of
  `WriteFails` while the socket is not merely stalled. Each write has a deadline
  (`ws.go:183, 191`), and pings are written even if there are no frames.
* `KeepUp` (Delivery): again and again a tick finds the channels empty. That is
  a client which reads as fast as frames are sent; of a slower one nothing is
  promised, because the tick serves the cells in the order of their keys and
  the frames of the last ones are the ones that are dropped.
* Application callbacks return, and `Shutdown` returns (it is given 5 seconds).

Nothing is assumed of clients otherwise, of the arrival of packets or signals.
`CountersSettle` is about traffic that ends, which in the run it does at the
bounds.

## Theorems

* `Analytics_proofs`: `SketchBoundsHold`, `RateBoundHolds`, `PrivateLimitHolds`
  and `Refinement`. The inductive invariant relates each counter to the packets
  of the ids that share it: `passed` never exceeds the limit because an entity's
  counters are at least what it sent. `Refinement` needs both sides: a packet is
  refused only if a counter, and hence the total, exceeds the limit.
  `LimitPerResidue` says what this comes to with the code's hash: ids equal
  modulo 1024 share one limit, and four rows are worth one. `LimiterInside`
  carries all of it over to the module with the sketches, whose steps are the
  limiter's. There, `AnalyticsTypeCorrect`, `SketchOfWhoCameHolds` (a register is
  the greatest rank of the ids that came to the cell), `OrderLeavesNoTrace` and
  `RegistersNeverFall`; `UniqueNeverFallsHolds`, that the gauge
  covers the life of the process and no window, adds two inductions over numbers,
  along the registers `Estimate` sums and along the cells `Stats` sums, with
  the truncating division between them. `CodeHashes` shows that the code's hashes
  meet what is assumed of them.
* `Pipeline_proofs`, for any number of workers and any interleaving:
  `TypeCorrect`, types, and that the pointer a worker is about to dereference is
  never nil. The invariant is `TypeOK` itself: its last parts (`LocalOK`) make it
  inductive. `AccountingHolds` counts the workers that hold a packet
  (`Handling`), for which their number has to be finite. `NeverLostHolds`, an
  entity with a history is in the grid or about to be inserted: a delete is
  always followed by the same worker's insert, so the invariant has to cover the
  workers that have inserted but not yet stored. `AnalyticsCompleteHolds`: a cell
  the grid shows an entity in is in the analytics or owed to them by a worker
  past its insert (`Owed`). `NoTornHistoryHolds`: the history is a reported or
  seeded position when its lock is free. The invariant says what the half-written
  object holds: the one field is the storing worker's, and at most one worker is
  storing.
* `PipelineSerial_proofs`, under `Serial` and `SetupFirst`:
  `GridMatchesHistoryHolds`, `NoDuplicateCommittedHolds`, `EnterNeverMissedHolds`,
  `NoExitWithoutEnterHolds` and `EventsAlternateHolds`. The invariant follows the
  one worker that handles an entity: step by step, how grid and history differ
  (`Agrees`), and which events are gathered and which position the application
  has been told of (`Tells`). Fences may be registered until the first packet, so
  it speaks of all of them until then (`Watched`). That no enter is missed and no
  exit comes first rests on `Coverage`: both are about the fences their boxes
  hold (`BoxHolds`, a hypothesis on each fence and no assumption about all), and
  about positions at other longitudes than 180. `MCPipelineNorth` shows what
  happens to the other fences. Two properties that findings break are proved
  where they do hold: `CountedOnceHolds`, with serial packets, and
  `ExitNeverMissedWithin`, for fences indexed in every cell.
* `Geometry_proofs`: `Coverage`, a position in a box lies in a cell that
  `ShardsForRadius` lists, by cases on wrapping. Longitude 180 is excluded
  (`ShardKey` clamps it into the last column where a box may wrap to the first),
  and so is a box without height. For polygons of any number of vertices, by the
  parity of the edges crossed: `InsideBounds` and `PolygonInBox`, by which a
  polygon's box holds it if it holds its vertices (the code's may not, see
  **SpatialHash**); `RectangleHalfOpen`, `VertexOrder`, `DiagonalDivides`.
* `GridScan_proofs`: `SightingsOwedHolds`, and `StillEntitiesHold`, of a query for
  what lies in its circle and in its box, where longitude 180 does not occur and
  the box has a height, which is where it rests on `Coverage`. The invariant
  counts: what a scan has found of an entity and what is pending is paid for by
  the moves so far (`Paid`), and of an entity that did not move it is one or
  none, by whether its slot has been visited (`Still`). It uses no more of the
  order of visits than that each is to a slot yet to be visited.
* `Delivery_proofs`: `TypeCorrect` and `Refinement`, that every step of the
  delivery is one of `PositionFeed` or none. The invariant orders everything
  between the grid and the client: what is shown is at most what the frames in
  the channel hold, these are sorted, and what the tick has copied is no older
  than any of them, because an entity has at most one entry, its latest.
  `OneFrameEachHolds` has an invariant of its own (`FrameInv`): an entity that
  rests during the tick is counted and copied in its own stripe only, and framed
  for exactly the subscribers that have been served.
* `WsServer_proofs`: `TypeCorrect`, `IndexMatchesTableHolds`,
  `ChannelLifetimeHolds`, `ServedWhileUpHolds`, `ReleasedWhenDoneHolds`. Where a
  handler is tells what it has left in table, channels and connections
  (`Placed`), and whether its writer may have given up (`Serving`). How far the
  two findings reach: `PanicOnlyAfterRemoval`, a tick never panics over a
  connection that is being served, and `NoRaceWithoutFollow`.
* `Daemon_proofs`: `TypeCorrect`, `PacketsConservedHolds`,
  `QuietAfterReturnHolds`, `NoWorkerAbandonsQueueHolds`,
  `NeverOverReportedHolds`, `NoPanicWithoutNegativeHolds`. The engine's part is an
  invariant of its own steps, with `Lifecycle`, which ties WaitGroup, closed
  channel and queue to the place of the listener. The counters never run ahead
  because what the loop has summed up so far lies between what it exported
  last and what the engine has counted by now (`MetricsInv`). From the same
  invariant `ExportsTheReading`: what is exported is what `Stats` returned last,
  and never falls.

Assumptions are the named `ASSUME`s of the modules, which TLC evaluates in the
runs; a theorem that needs more says so in its own statement. Every invariant of the
passing runs and both refinements are proved.
Model-checked only is liveness (`Fresh`, `GoneClientReleased`,
`TickNeverBlocks`, `CountersSettle`, `StopsAfterCancel`,
`DrainsAfterFailure`): fairness and `ENABLED` are out of the prover's reach. What
the findings break has no unconditional theorem.

## Hazards no property covers

The shutdown status (`main.go:168`) and the last interval that is not exported
(`main.go:129`); the same position processed twice (`pipeline.go:47`); longitude
180 (`hash.go:14`) and radii at a pole (`hash.go:72`); callbacks that call back
into evaluator or engine (`evaluate.go:92`) and callbacks set after `New`
(`engine.go:52`); what an empty sketch estimates (`hll.go:37`), sketches that are
never reset (`hll.go:41`) and frames counted as packets (`stats.go:30`); negative settings
and a `Config` without defaults (`loader.go:150`);
connections that outlive `Run` (`ws.go:97`); frames lost before a new
subscriber's channel exists (`fanout/engine.go:51`); entities that leave a
client's cells and stay on its map (`fanout/engine.go:98`). `PROJECT.json` says
why for each.

## Not modelled

* The byte formats and the buffer pool of `pkg/binary`: layout without state
  across calls. `Broadcast` copies out of the pooled buffer before it returns it.
* The Bloom filter, `BroadcastMulti`, `inBoundingBox`, `HyperLogLog.Reset`,
  `readBatch` and `processBatch`: nothing calls them.
* Great-circle arithmetic: floating point without state.
* The HTTP upgrade, query parsing, health and metrics endpoints, flags and log;
  addresses and settings nothing reads.
* Connections after `Shutdown`: hijacked connections are not waited for and end
  with their clients or the process.
* Load test and examples: clients of the engine. How they call it decides
  `SetupFirst` and `Serial`; of the page of `basic_web` the map it keeps by entity
  is in `Delivery` (`Overlay`).
