----------------------------- MODULE MCDelivery -----------------------------
(***************************************************************************)
(* An instance of Delivery: two entities in stripes of their own, and a    *)
(* subscriber of both cells that wants everything. Subscribers share       *)
(* nothing but the tick; Delivery_proofs is about any number of them.      *)
(***************************************************************************)
EXTENDS Delivery

MCCellsOf == [s \in Subs |-> TickCells]
MCWanted == [s \in Subs |-> Entities]
=============================================================================
