---------------------------- MODULE MCWsServer ------------------------------
(***************************************************************************)
(* Small instances of WsServer: the first subscriber covers both cells,    *)
(* any other one only the second.                                          *)
(***************************************************************************)
EXTENDS WsServer

MCCellsOf == [s \in Subs |-> IF s = 1 THEN {3, 4} ELSE {4}]
=============================================================================
