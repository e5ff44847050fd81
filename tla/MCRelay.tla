------------------------------- MODULE MCRelay -------------------------------
(* Relay for TLC: caller c, and identity B with the devices x and y.       *)
EXTENDS Relay

CONSTANTS c, x, y, B, relay

MCIdentityOf == [p \in Party |-> IF p \in {x, y} THEN B ELSE p]
=============================================================================
