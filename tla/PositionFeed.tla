---------------------------- MODULE PositionFeed ----------------------------
(***************************************************************************)
(* What a subscription promises: each client sees the positions of an      *)
(* entity in the order they were reported. It may miss some and learn of   *)
(* others late, but is never taken back to an older one, and never sees    *)
(* one that was not reported. A position is its number among those of its  *)
(* entity. Delivery implements this.                                       *)
(***************************************************************************)
EXTENDS Naturals

CONSTANTS Sources, Viewers

VARIABLES
  current,  \* the number of the last position each source reported
  shown     \* shown[v][s]: that of the last one v was shown, 0 for none

Init ==
  /\ current = [s \in Sources |-> 0]
  /\ shown = [v \in Viewers |-> [s \in Sources |-> 0]]

Report(s) ==
  /\ current' = [current EXCEPT ![s] = @ + 1]
  /\ UNCHANGED shown

\* One frame may bring a viewer forward on several sources.
Refresh(v) ==
  /\ \A s \in Sources : shown[v][s] <= shown'[v][s] /\ shown'[v][s] <= current[s]
  /\ \A w \in Viewers \ {v} : shown'[w] = shown[w]
  /\ UNCHANGED current

Next == (\E s \in Sources : Report(s)) \/ (\E v \in Viewers : Refresh(v))

Spec == Init /\ [][Next]_<<current, shown>>
=============================================================================
