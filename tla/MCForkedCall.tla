----------------------------- MODULE MCForkedCall -----------------------------
(* ForkedCall for TLC: caller c; identity B with the devices x and y.      *)
EXTENDS ForkedCall

CONSTANTS c, x, y, B, relay

MCIdentityOf == [p \in Party |-> IF p \in {x, y} THEN B ELSE p]
=============================================================================
