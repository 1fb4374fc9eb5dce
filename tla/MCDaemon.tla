------------------------------ MODULE MCDaemon ------------------------------
(***************************************************************************)
(* The instance of Daemon. The transports only meet in what Run waits for, *)
(* so each is enabled without the other.                                   *)
(***************************************************************************)
EXTENDS Daemon

MCSetups == {{"udp"}, {"ws"}}
=============================================================================
