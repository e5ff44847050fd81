------------------------------ MODULE Successors ------------------------------
(***************************************************************************)
(* Devices of a group whose hub is gone settle on one successor group:     *)
(* class SuccessorTracker of impl/tools/dsipvec/messaging.py, with         *)
(* select_successor.  Each device may create a successor before it knows   *)
(* of another one; every creator welcomes all the others, and the lowest   *)
(* group id wins.  Welcomes arrive in any order.  That a welcome is from a *)
(* member and for the known roster (check_successor) is taken for granted, *)
(* as the others are a new conversation and no candidate.                  *)
(***************************************************************************)
EXTENDS Integers, FiniteSets

CONSTANT Heir,       \* the devices, which were all members
         MaxGroupId  \* bound: the ids of successor groups

ASSUME SuccessorAssumption == MaxGroupId \in Nat

Undecided == 0

VARIABLES winner,     \* device -> the successor it keeps
          candidates, \* device -> the successors it knows of
          creating,   \* the devices that were told to create one and have not yet
          memberOf,   \* device -> the successor groups it is in
          welcomed    \* <<device, group>>: welcomes under way

successorVars == <<winner, candidates, creating, memberOf, welcomed>>

SuccessorInit ==
  /\ winner = [d \in Heir |-> Undecided]
  /\ candidates = [d \in Heir |-> {}]
  /\ creating = {}
  /\ memberOf = [d \in Heir |-> {}]
  /\ welcomed = {}

Created == UNION {candidates[d] : d \in Heir}

\* Mutant: the successor a device hears of first wins.
First(known, new) == IF known = {} THEN new ELSE CHOOSE g \in known : \A h \in known : g <= h

\* select_successor: the lowest id.
Selected(known, new) == CHOOSE g \in known \cup {new} : \A h \in known \cup {new} : g <= h

\* _candidate: g is kept, and one that was kept is left, or g is left or declined.
Candidate(d, g) ==
  LET best == Selected(candidates[d], g) IN
  /\ candidates' = [candidates EXCEPT ![d] = @ \cup {g}]
  /\ IF best = g
     THEN /\ winner' = [winner EXCEPT ![d] = g]
          /\ memberOf' = [memberOf EXCEPT ![d] = (@ \ {winner[d]}) \cup {g}]
     ELSE /\ memberOf' = [memberOf EXCEPT ![d] = @ \ {g}]
          /\ UNCHANGED winner

\* A device that knows a successor uses it; another one is told to create one.
Create(d) ==
  /\ winner[d] = Undecided
  /\ d \notin creating
  /\ creating' = creating \cup {d}
  /\ UNCHANGED <<winner, candidates, memberOf, welcomed>>

\* The group is there, with a new id, and the others are welcomed.
GroupCreated(d, g) ==
  /\ d \in creating
  /\ g \notin Created
  /\ creating' = creating \ {d}
  /\ Candidate(d, g)
  /\ welcomed' = welcomed \cup {<<e, g>> : e \in Heir \ {d}}

WelcomeArrives(d, g) ==
  /\ <<d, g>> \in welcomed
  /\ welcomed' = welcomed \ {<<d, g>>}
  /\ Candidate(d, g)
  /\ UNCHANGED creating

SuccessorNext ==
  \E d \in Heir :
     \/ Create(d)
     \/ \E g \in 1 .. MaxGroupId : GroupCreated(d, g) \/ WelcomeArrives(d, g)

SuccessorSpec == SuccessorInit /\ [][SuccessorNext]_successorVars

-----------------------------------------------------------------------------
\* Once the welcomes have arrived all devices are in the same successor and in no
\* other, whoever created how many and in whatever order they were heard of.
OneSuccessorAtRest ==
  welcomed = {} => \A d, e \in Heir : memberOf[d] = memberOf[e] /\ memberOf[d] \subseteq {winner[e]}
=============================================================================
