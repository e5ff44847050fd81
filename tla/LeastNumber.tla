----------------------------- MODULE LeastNumber -----------------------------
(***************************************************************************)
(* The least and the greatest member of a set of numbers.  The proofs use  *)
(* them in place of induction: a least counterexample does not exist.      *)
(***************************************************************************)
EXTENDS Integers, WellFoundedInduction, TLAPS

LEMMA Least == ASSUME NEW T, T \subseteq Nat, T # {} PROVE \E n \in T : \A m \in T : n <= m
<1>1. IsWellFoundedOn(OpToRel(<, Nat), Nat)
  BY Zenon, NatLessThanWellFounded
<1>2. PICK n \in T : \A m \in T : ~(<<m, n>> \in OpToRel(<, Nat))
  BY Zenon, <1>1, WFMin
<1>3. ASSUME NEW m \in T PROVE n <= m
  <2>1. ~(<<m, n>> \in {p \in Nat \X Nat : p[1] < p[2]})
    BY <1>2 DEF OpToRel
  <2>2. m \in Nat /\ n \in Nat
    OBVIOUS
  <2> QED BY <2>1, <2>2
<1> QED BY <1>3

LEMMA Greatest ==
  ASSUME NEW T, T \subseteq Nat, T # {}, NEW N \in Nat, \A m \in T : m <= N
  PROVE  \E n \in T : \A m \in T : m <= n
<1> DEFINE Below == {k \in Nat : \E n \in T : n + k = N}
<1>1. Below # {}
  <2>1. PICK n \in T : TRUE
    OBVIOUS
  <2>2. N - n \in Below
    BY <2>1
  <2> QED BY <2>2
<1>2. PICK k \in Below : \A j \in Below : k <= j
  <2>1. Below \subseteq Nat
    OBVIOUS
  <2> HIDE DEF Below
  <2> QED BY <1>1, <2>1, Least
<1>3. PICK n \in T : n + k = N
  BY <1>2
<1>4. ASSUME NEW m \in T PROVE m <= n
  <2>1. N - m \in Below /\ m \in Nat
    OBVIOUS
  <2> QED BY <1>2, <1>3, <2>1
<1> QED BY <1>4
=============================================================================
