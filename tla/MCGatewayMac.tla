---------------------------- MODULE MCGatewayMac ----------------------------
(* Instances of GatewayMac for TLC. *)
EXTENDS GatewayMac, TLC
CONSTANTS g1, g2, other
\* Two ranges behind the same gateway, or behind one each.
SomeGateways == {(1 :> g1) @@ (2 :> g1), (1 :> g1) @@ (2 :> g2)}
===============================================================================
