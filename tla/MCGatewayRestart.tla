-------------------------- MODULE MCGatewayRestart --------------------------
(* GatewayRestart on a small instance. *)
EXTENDS GatewayRestart

=============================================================================
