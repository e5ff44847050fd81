------------------------------ MODULE MCEndpoint ------------------------------
(* Endpoint for TLC: device a facing the identity B and its device b.      *)
EXTENDS Endpoint

CONSTANTS a, B, b

MCIdentityOf == [p \in Party |-> IF p = a THEN a ELSE B]
=============================================================================
