----------------------------- MODULE Analytics ------------------------------
(***************************************************************************)
(* What ProcessPacket counts of an entity: the packet in the rate limiter, *)
(* and, if it passes and is no repetition, the entity in the HyperLogLog   *)
(* sketch of its cell (pipeline.go:66-67). Stats adds up the estimates of  *)
(* all cells. Where the packet goes meanwhile is modelled in Pipeline.     *)
(***************************************************************************)
EXTENDS RateLimiter, HyperLogLog

CONSTANT BusyCells   \* the cells entities are in; the other sketches stay empty

ASSUME HashAssumption ==
  /\ Hash \in [Entities -> [register : Registers, rank : 1 .. MaxRank]]
  /\ BusyCells \subseteq 0 .. 255

VARIABLES
  shardHLL,  \* the sketch of each of these cells
  counted    \* history: the entities added to it

analyticsVars == <<vars, shardHLL, counted>>

AnalyticsTypeOK ==
  /\ TypeOK
  /\ shardHLL \in [BusyCells -> Sketches]
  /\ counted \in [BusyCells -> SUBSET Entities]

AnalyticsInit ==
  /\ Init
  /\ shardHLL = [c \in BusyCells |-> EmptySketch]
  /\ counted = [c \in BusyCells |-> {}]

\* Over the limit, or at the position it was at already.
NotRouted(e) == Packet(e) /\ UNCHANGED <<shardHLL, counted>>

Routed(e, c) ==
  /\ Packet(e) /\ passed' # passed
  /\ shardHLL' = [shardHLL EXCEPT ![c] = Add(@, e)]
  /\ counted' = [counted EXCEPT ![c] = @ \cup {e}]

\* The tick clears the limiter and nothing else: Reset has no caller.
AnalyticsTick == Tick /\ UNCHANGED <<shardHLL, counted>>

AnalyticsNext ==
  \/ AnalyticsTick
  \/ \E e \in Entities : NotRouted(e) \/ \E c \in BusyCells : Routed(e, c)

AnalyticsSpec == AnalyticsInit /\ [][AnalyticsNext]_analyticsVars

UniqueEntities ==
  SumFunction([c \in BusyCells |-> Estimate(shardHLL[c])])
    + (256 - Cardinality(BusyCells)) * Estimate(EmptySketch)

-----------------------------------------------------------------------------
\* The sketch depends on who was routed to the cell alone: the order of the
\* packets, their number and the workers that handle them leave no trace in
\* it (hll.go:21).
SketchOfWhoCame ==
  \A c \in BusyCells :
    /\ \A e \in counted[c] : shardHLL[c][Hash[e].register] >= Hash[e].rank
    /\ \A i \in Registers : shardHLL[c][i] # 0 =>
         \E e \in counted[c] : Hash[e] = [register |-> i, rank |-> shardHLL[c][i]]

\* The gauge "over analytics window" (metrics.go:78) never falls: Reset, which
\* would begin a window, has no caller (hll.go:41). Proved, not run, as what
\* the code does and not what it should do.
UniqueNeverFalls == [][UniqueEntities' >= UniqueEntities]_analyticsVars
=============================================================================
