-------------------------- MODULE MCGatewayClients --------------------------
(* A finite instance of GatewayClients for TLC.                            *)
EXTENDS GatewayClients
=============================================================================
