---------------------------- MODULE RateLimiter -----------------------------
(***************************************************************************)
(* The rate limit of ProcessPacket (pipeline.go:35-38) on its own: packets *)
(* counted by the sketch, and the tick that clears it (pipeline.go:83).    *)
(* Both run under the sketch's mutex, so each is one step.                 *)
(***************************************************************************)
EXTENDS CountMinSketch

CONSTANT MaxOffered   \* bound: packets between two ticks

ASSUME OfferedAssumption == MaxOffered \in Nat

VARIABLES
  table,    \* the sketch
  sent,     \* history: packets of each entity since the last tick
  passed,   \* history: those that were not dropped
  offered   \* history: packets of all entities since the last tick

vars == <<table, sent, passed, offered>>

TypeOK ==
  /\ table \in Tables
  /\ sent \in [Entities -> Nat]
  /\ passed \in [Entities -> Nat]
  /\ offered \in Nat

Init ==
  /\ table = EmptyTable
  /\ sent = [e \in Entities |-> 0]
  /\ passed = [e \in Entities |-> 0]
  /\ offered = 0

Packet(e) ==
  /\ offered < MaxOffered
  /\ table' = Bump(table, e)
  /\ sent' = [sent EXCEPT ![e] = @ + 1]
  /\ offered' = offered + 1
  /\ \/ OverLimit(table', e) /\ UNCHANGED passed
     \/ ~OverLimit(table', e) /\ passed' = [passed EXCEPT ![e] = @ + 1]

Tick ==
  /\ table' = EmptyTable
  /\ sent' = [e \in Entities |-> 0]
  /\ passed' = [e \in Entities |-> 0]
  /\ offered' = 0

Next == Tick \/ \E e \in Entities : Packet(e)

Spec == Init /\ [][Next]_vars

-----------------------------------------------------------------------------
\* A sketch overestimates, and never beyond the traffic of the tick
\* (addAndEstimate): each of an entity's cells counts at least its packets.
SketchBounds ==
  \A e \in Entities, r \in CmsRows :
    sent[e] <= table[r][Column[e][r]] /\ table[r][Column[e][r]] <= offered

\* However ids collide, no entity gets more than the limit through per tick.
RateBound == \A e \in Entities : passed[e] <= RateLimit

\* A row in which no other entity hashes to e's column.
PrivateRow(e, r) == \A d \in Entities \ {e} : Column[d][r] # Column[e][r]

\* An entity that collides with nobody in some row is limited on its own
\* traffic alone, whatever the others send.
PrivateLimit ==
  \A e \in Entities : (\E r \in CmsRows : PrivateRow(e, r)) =>
    passed[e] = (IF sent[e] <= RateLimit THEN sent[e] ELSE RateLimit)

\* The sketch implements the per-entity limiter.
Limiter == INSTANCE EntityLimiter WITH
  Clients <- Entities, Limit <- RateLimit, admitted <- passed

LimiterSpec == Limiter!Spec
=============================================================================
