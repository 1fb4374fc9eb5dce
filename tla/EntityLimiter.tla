--------------------------- MODULE EntityLimiter ----------------------------
(***************************************************************************)
(* What a per-entity rate limiter promises: between two ticks at most      *)
(* Limit packets of an entity pass, and none is refused before Limit       *)
(* packets have been offered by anyone.                                    *)
(***************************************************************************)
EXTENDS Naturals

CONSTANTS Clients, Limit

VARIABLES
  admitted,  \* per client, the packets let through since the last tick
  offered    \* all packets since the last tick

Init == admitted = [c \in Clients |-> 0] /\ offered = 0

Admit(c) ==
  /\ admitted[c] < Limit
  /\ admitted' = [admitted EXCEPT ![c] = @ + 1]
  /\ offered' = offered + 1

Refuse(c) ==
  /\ offered >= Limit
  /\ offered' = offered + 1
  /\ UNCHANGED admitted

NewTick == admitted' = [c \in Clients |-> 0] /\ offered' = 0

Next == NewTick \/ \E c \in Clients : Admit(c) \/ Refuse(c)

Spec == Init /\ [][Next]_<<admitted, offered>>
=============================================================================
