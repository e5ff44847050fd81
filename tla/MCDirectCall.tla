----------------------------- MODULE MCDirectCall -----------------------------
(* DirectCall for TLC: device a of identity A and device b of identity B.  *)
EXTENDS DirectCall

CONSTANTS a, b, A, B

MCParty == {a, b, A, B}
MCIdentityOf == [p \in MCParty |-> IF p \in {a, A} THEN A ELSE B]
\* Odd ids are drawn by a, even ones by b.
MCOwner == [i \in Sid |-> IF i % 2 = 1 THEN a ELSE b]
MCUpdateOwner == [u \in UpdateId |-> IF u \in {1, 4} THEN a ELSE b]
=============================================================================
