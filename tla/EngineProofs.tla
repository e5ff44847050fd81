------------------------------ MODULE EngineProofs ------------------------------
(***************************************************************************)
(* Proofs about the engines that are small and keep to themselves:         *)
(* Successors, CommitRetry, Waker, Alarms, Subscriptions, Gateway and      *)
(* Gaps, each for any value of its constants.  A chapter has the invariant *)
(* of one engine, the lemmas about its steps and its theorems.             *)
(***************************************************************************)
EXTENDS Successors, CommitRetry, Waker, Alarms, Subscriptions, Gateway, Gaps, LeastNumber,
        SequenceTheorems, FiniteSetTheorems, TLAPS

-----------------------------------------------------------------------------
(* Selecting a successor (Successors)                                      *)

IsLeast(g, S) == g \in S /\ \A h \in S : g <= h

SuccessorTypes ==
  /\ winner \in [Heir -> Nat]
  /\ candidates \in [Heir -> SUBSET (1 .. MaxGroupId)]
  /\ memberOf \in [Heir -> SUBSET Nat]

\* A device is in the least successor it knows of and in no other.
KeepsTheLeast ==
  \A d \in Heir :
     IF candidates[d] = {} THEN winner[d] = Undecided /\ memberOf[d] = {}
     ELSE IsLeast(winner[d], candidates[d]) /\ memberOf[d] = {winner[d]}

\* A successor that one device knows the others know or will hear of, and no
\* welcome is for a group nobody has created.
WelcomesReachAll ==
  /\ \A g \in Created, d \in Heir : g \in candidates[d] \/ <<d, g>> \in welcomed
  /\ \A w \in welcomed : w[2] \in Created

SuccessorInv == SuccessorTypes /\ KeepsTheLeast /\ WelcomesReachAll

-----------------------------------------------------------------------------
\* select_successor finds the least of what is known and what is new.
LEMMA SelectedIsLeast ==
  ASSUME NEW known \in SUBSET Nat, NEW new \in Nat,
         NEW w, known # {} => IsLeast(w, known)
  PROVE  IsLeast(Selected(known, new), known \cup {new})
<1>1. \E g \in known \cup {new} : \A h \in known \cup {new} : g <= h
  <2>1. CASE known = {}
    BY <2>1
  <2>2. CASE known # {}
    <3>1. w \in known /\ w \in Nat /\ \A h \in known : w <= h /\ h \in Nat
      BY <2>2 DEF IsLeast
    <3>2. CASE new <= w
      BY <3>1, <3>2
    <3>3. CASE w <= new
      BY <3>1, <3>3
    <3> QED BY <3>1, <3>2, <3>3
  <2> QED BY <2>1, <2>2
<1> QED BY <1>1 DEF Selected, IsLeast

\* A device that hears of a successor goes on keeping the least one.
LEMMA CandidateKeepsTheLeast ==
  ASSUME SuccessorTypes, KeepsTheLeast, NEW d \in Heir, NEW g \in 1 .. MaxGroupId, Candidate(d, g)
  PROVE  /\ SuccessorTypes' /\ KeepsTheLeast'
         /\ candidates' = [candidates EXCEPT ![d] = @ \cup {g}]
<1> DEFINE best == Selected(candidates[d], g)
<1>1. /\ MaxGroupId \in Nat /\ g \in Nat
      /\ candidates[d] \in SUBSET Nat /\ candidates[d] \in SUBSET (1 .. MaxGroupId)
      /\ candidates[d] # {} => IsLeast(winner[d], candidates[d])
  BY SuccessorAssumption DEF SuccessorTypes, KeepsTheLeast
<1>2. IsLeast(best, candidates[d] \cup {g})
  BY <1>1, SelectedIsLeast
<1>3. candidates' = [candidates EXCEPT ![d] = @ \cup {g}]
  BY DEF Candidate
<1>4. CASE best = g
  <2>1. /\ winner' = [winner EXCEPT ![d] = g]
        /\ memberOf' = [memberOf EXCEPT ![d] = (@ \ {winner[d]}) \cup {g}]
    BY <1>4 DEF Candidate
  <2>2. memberOf[d] \ {winner[d]} = {}
    BY DEF KeepsTheLeast
  <2>3. SuccessorTypes'
    BY <1>1, <1>3, <2>1, <2>2 DEF SuccessorTypes
  <2>4. candidates'[d] = candidates[d] \cup {g} /\ winner'[d] = g /\ memberOf'[d] = {g}
    BY <1>3, <2>1, <2>2 DEF SuccessorTypes
  <2>5. \A e \in Heir \ {d} : /\ candidates'[e] = candidates[e] /\ winner'[e] = winner[e]
                              /\ memberOf'[e] = memberOf[e]
    BY <1>3, <2>1 DEF SuccessorTypes
  <2> QED
    BY <1>2, <1>3, <1>4, <2>3, <2>4, <2>5 DEF KeepsTheLeast
<1>5. CASE best # g
  <2>1. winner' = winner /\ memberOf' = [memberOf EXCEPT ![d] = @ \ {g}]
    BY <1>5 DEF Candidate
  <2>2. SuccessorTypes'
    BY <1>1, <1>3, <2>1 DEF SuccessorTypes
  <2>3. candidates[d] # {} /\ IsLeast(winner[d], candidates[d]) /\ memberOf[d] = {winner[d]}
    BY <1>2, <1>5 DEF KeepsTheLeast, IsLeast
  <2>4. winner[d] = best /\ winner[d] # g
    BY <1>1, <1>2, <1>5, <2>3 DEF IsLeast
  <2>5. candidates'[d] = candidates[d] \cup {g} /\ memberOf'[d] = {winner[d]}
    BY <1>3, <2>1, <2>3, <2>4 DEF SuccessorTypes
  <2>6. \A e \in Heir \ {d} : candidates'[e] = candidates[e] /\ memberOf'[e] = memberOf[e]
    BY <1>3, <2>1 DEF SuccessorTypes
  <2> QED
    BY <1>2, <1>3, <2>1, <2>2, <2>4, <2>5, <2>6 DEF KeepsTheLeast
<1> QED BY <1>4, <1>5

LEMMA SuccessorInitInv == SuccessorInit => SuccessorInv
  BY SuccessorAssumption DEF SuccessorInit, SuccessorInv, SuccessorTypes, KeepsTheLeast,
     WelcomesReachAll, Created, Undecided

LEMMA SuccessorNextInv ==
  ASSUME SuccessorInv, [SuccessorNext]_successorVars PROVE SuccessorInv'
<1>1. ASSUME NEW d \in Heir, Create(d) PROVE SuccessorInv'
  BY <1>1 DEF Create, SuccessorInv, SuccessorTypes, KeepsTheLeast, WelcomesReachAll, Created
<1>2. ASSUME NEW d \in Heir, NEW g \in 1 .. MaxGroupId, GroupCreated(d, g) PROVE SuccessorInv'
  <2>1. /\ SuccessorTypes' /\ KeepsTheLeast'
        /\ candidates' = [candidates EXCEPT ![d] = @ \cup {g}]
        /\ welcomed' = welcomed \cup {<<e, g>> : e \in Heir \ {d}}
    BY <1>2, CandidateKeepsTheLeast DEF GroupCreated, SuccessorInv
  <2>2. Created' = Created \cup {g}
    BY <2>1 DEF Created, SuccessorInv, SuccessorTypes
  <2>3. \A e \in Heir : candidates[e] \subseteq candidates'[e]
    BY <2>1 DEF SuccessorInv, SuccessorTypes
  <2>4. \A e \in Heir : g \in candidates'[e] \/ <<e, g>> \in welcomed'
    BY <2>1 DEF SuccessorInv, SuccessorTypes
  <2>5. WelcomesReachAll'
    BY <2>1, <2>2, <2>3, <2>4 DEF WelcomesReachAll, SuccessorInv
  <2> QED BY <2>1, <2>5 DEF SuccessorInv
<1>3. ASSUME NEW d \in Heir, NEW g \in 1 .. MaxGroupId, WelcomeArrives(d, g) PROVE SuccessorInv'
  <2>1. /\ SuccessorTypes' /\ KeepsTheLeast'
        /\ candidates' = [candidates EXCEPT ![d] = @ \cup {g}]
        /\ welcomed' = welcomed \ {<<d, g>>}
    BY <1>3, CandidateKeepsTheLeast DEF WelcomeArrives, SuccessorInv
  <2>2. g \in Created
    BY <1>3 DEF WelcomeArrives, SuccessorInv, WelcomesReachAll
  <2>3. Created' = Created
    BY <2>1, <2>2 DEF Created, SuccessorInv, SuccessorTypes
  <2>4. \A e \in Heir : candidates[e] \subseteq candidates'[e]
    BY <2>1 DEF SuccessorInv, SuccessorTypes
  <2>5. g \in candidates'[d]
    BY <2>1 DEF SuccessorInv, SuccessorTypes
  <2>6. WelcomesReachAll'
    BY <2>1, <2>3, <2>4, <2>5 DEF WelcomesReachAll, SuccessorInv
  <2> QED BY <2>1, <2>6 DEF SuccessorInv
<1>4. CASE UNCHANGED successorVars
  BY <1>4 DEF successorVars, SuccessorInv, SuccessorTypes, KeepsTheLeast, WelcomesReachAll, Created
<1> QED BY <1>1, <1>2, <1>3, <1>4 DEF SuccessorNext

\* Once the welcomes have arrived every device is in the same successor, for any
\* number of devices that create any number of them (SuccessorTracker).
THEOREM SettledOnOne == SuccessorSpec => []OneSuccessorAtRest
<1>1. SuccessorInv => OneSuccessorAtRest
  <2> SUFFICES ASSUME SuccessorInv, welcomed = {}, NEW d \in Heir, NEW e \in Heir
               PROVE  memberOf[d] = memberOf[e] /\ memberOf[d] \subseteq {winner[e]}
    BY DEF OneSuccessorAtRest
  <2>1. candidates[d] = Created /\ candidates[e] = Created
    BY DEF SuccessorInv, WelcomesReachAll, Created
  <2>2. CASE Created = {}
    BY <2>1, <2>2 DEF SuccessorInv, KeepsTheLeast
  <2>3. CASE Created # {}
    <3>1. /\ IsLeast(winner[d], Created) /\ memberOf[d] = {winner[d]}
          /\ IsLeast(winner[e], Created) /\ memberOf[e] = {winner[e]}
      BY <2>1, <2>3 DEF SuccessorInv, KeepsTheLeast
    <3>2. winner[d] = winner[e]
      BY <3>1 DEF IsLeast, SuccessorInv, SuccessorTypes
    <3> QED BY <3>1, <3>2
  <2> QED BY <2>2, <2>3
<1> QED
  BY <1>1, SuccessorInitInv, SuccessorNextInv, PTL DEF SuccessorSpec

-----------------------------------------------------------------------------
(* The retry of a commit (CommitRetry)                                     *)

RetryTypes ==
  /\ wanted \in [Committer -> Operation]
  /\ base \in [Committer -> Nat]
  /\ attempt \in [Committer -> Nat]
  /\ commit \in [Committer -> {"none", "pending", "syncing", "merged", "done", "surfaced"}]
  /\ commits \in Seq(Committer)

\* What a committer proposes was still needed in the epoch it commits from.
NeededWhenProposed ==
  \A c \in Committer : /\ base[c] <= Len(commits)
                       /\ commit[c] = "pending" => wanted[c] \notin AppliedBy(base[c])

RetryInv == RetryTypes /\ NeededWhenProposed /\ AppliedOnce

-----------------------------------------------------------------------------
LEMMA RetryInitInv == RetryInit => RetryInv
  BY DEF RetryInit, RetryInv, RetryTypes, NeededWhenProposed, AppliedOnce

\* A step that accepts no commit preserves the invariant if what it leaves
\* pending is still needed.
LEMMA NothingAccepted ==
  ASSUME RetryInv, RetryTypes', UNCHANGED <<wanted, commits>>,
         \A c \in Committer :
            \/ base'[c] = base[c] /\ (commit'[c] = "pending" => commit[c] = "pending")
            \/ /\ base'[c] <= Len(commits)
               /\ commit'[c] = "pending" => wanted[c] \notin AppliedBy(base'[c])
  PROVE  RetryInv'
  BY DEF RetryInv, NeededWhenProposed, AppliedOnce, AppliedBy

\* The hub accepts a commit made in its epoch.
LEMMA MergedInv == ASSUME RetryInv, NEW c \in Committer, Merged(c) PROVE RetryInv'
<1>1. /\ commits \in Seq(Committer) /\ Len(commits) \in Nat
      /\ commits' = Append(commits, c)
      /\ base' = base /\ wanted' = wanted /\ attempt' = attempt
      /\ commit' = [commit EXCEPT ![c] = "merged"]
  BY DEF Merged, RetryInv, RetryTypes, Enters
<1>2. /\ Len(commits') = Len(commits) + 1
      /\ commits'[Len(commits) + 1] = c
      /\ \A e \in 1 .. Len(commits) : commits'[e] = commits[e]
  BY <1>1
<1>3. RetryTypes'
  BY <1>1 DEF RetryInv, RetryTypes
<1>4. NeededWhenProposed'
  <2> SUFFICES ASSUME NEW x \in Committer
               PROVE  /\ base[x] <= Len(commits')
                      /\ commit'[x] = "pending" => wanted[x] \notin AppliedBy(base[x])'
    BY <1>1 DEF NeededWhenProposed, AppliedBy
  <2>1. base[x] \in Nat /\ base[x] <= Len(commits)
    BY DEF RetryInv, RetryTypes, NeededWhenProposed
  <2>2. commit'[x] = "pending" => commit[x] = "pending"
    BY <1>1 DEF RetryInv, RetryTypes
  <2>3. \A e \in 1 .. base[x] : e \in 1 .. Len(commits) /\ commits'[e] = commits[e]
    BY <1>1, <1>2, <2>1
  <2>4. AppliedBy(base[x])' = AppliedBy(base[x])
    BY <1>1, <2>3 DEF AppliedBy
  <2> QED BY <1>1, <1>2, <2>1, <2>2, <2>4 DEF RetryInv, NeededWhenProposed
<1>5. \A e \in 1 .. Len(commits) : wanted[commits[e]] # wanted[c]
  BY DEF Merged, RetryInv, NeededWhenProposed, AppliedBy
<1>6. AppliedOnce'
  <2> SUFFICES ASSUME NEW d \in 1 .. Len(commits) + 1, NEW e \in 1 .. Len(commits) + 1,
                      wanted[commits'[d]] = wanted[commits'[e]]
               PROVE  d = e
    BY <1>1, <1>2 DEF AppliedOnce
  <2>1. CASE d \in 1 .. Len(commits) /\ e \in 1 .. Len(commits)
    BY <1>2, <2>1 DEF RetryInv, AppliedOnce
  <2>2. CASE d = Len(commits) + 1 /\ e \in 1 .. Len(commits)
    BY <1>2, <1>5, <2>2
  <2>3. CASE e = Len(commits) + 1 /\ d \in 1 .. Len(commits)
    BY <1>2, <1>5, <2>3
  <2> QED BY <1>1, <2>1, <2>2, <2>3
<1> QED BY <1>3, <1>4, <1>6 DEF RetryInv

LEMMA RetryNextInv == ASSUME RetryInv, [RetryNext]_retryVars PROVE RetryInv'
<1>1. ASSUME NEW c \in Committer, Propose(c) PROVE RetryInv'
  <2>1. PICK epoch \in 0 .. Len(commits) : /\ wanted[c] \notin AppliedBy(epoch)
                                           /\ base' = [base EXCEPT ![c] = epoch]
    BY <1>1 DEF Propose
  <2>2. RetryTypes' /\ UNCHANGED <<wanted, commits>>
    BY <1>1, <2>1 DEF Propose, Enters, RetryInv, RetryTypes
  <2>3. /\ base'[c] = epoch /\ epoch <= Len(commits)
        /\ \A x \in Committer \ {c} : base'[x] = base[x] /\ commit'[x] = commit[x]
    BY <1>1, <2>1 DEF Propose, Enters, RetryInv, RetryTypes
  <2> QED BY <2>1, <2>2, <2>3, NothingAccepted
<1>2. ASSUME NEW c \in Committer, NEW why, CommitLost(c, why) \/ RefusedCommit(c, why)
      PROVE  RetryInv'
  <2>1. RetryTypes' /\ UNCHANGED <<wanted, commits, base>>
    BY <1>2 DEF CommitLost, RefusedCommit, Enters, RetryInv, RetryTypes
  <2>2. \A x \in Committer : commit'[x] = "pending" => commit[x] = "pending"
    BY <1>2 DEF CommitLost, RefusedCommit, Enters, RetryInv, RetryTypes
  <2> QED BY <2>1, <2>2, NothingAccepted
<1>3. ASSUME NEW c \in Committer, Synced(c) PROVE RetryInv'
  <2>1. PICK epoch \in base[c] .. Len(commits) :
           /\ base' = [base EXCEPT ![c] = epoch]
           /\ \/ commit' = [commit EXCEPT ![c] = "surfaced"] /\ attempt' = attempt
              \/ commit' = [commit EXCEPT ![c] = "done"] /\ attempt' = attempt
              \/ /\ commit' = [commit EXCEPT ![c] = "pending"]
                 /\ attempt' = [attempt EXCEPT ![c] = @ + 1]
                 /\ wanted[c] \notin AppliedBy(epoch)
    BY <1>3 DEF Synced, Enters, StillNeeded
  <2>2. epoch \in Nat /\ epoch <= Len(commits)
    BY DEF RetryInv, RetryTypes
  <2>3. /\ commit' \in [Committer -> {"none", "pending", "syncing", "merged", "done", "surfaced"}]
        /\ UNCHANGED <<wanted, commits>>
    BY <1>3, <2>1 DEF Synced, RetryInv, RetryTypes
  <2>4. base' \in [Committer -> Nat] /\ attempt' \in [Committer -> Nat]
    <3>1. attempt \in [Committer -> Nat] /\ base \in [Committer -> Nat]
      BY DEF RetryInv, RetryTypes
    <3>2. attempt' = attempt \/ attempt' = [attempt EXCEPT ![c] = @ + 1]
      BY <2>1
    <3>3. base' = [base EXCEPT ![c] = epoch]
      BY <2>1
    <3> QED BY <2>2, <3>1, <3>2, <3>3
  <2>5. RetryTypes'
    BY <2>3, <2>4 DEF RetryInv, RetryTypes
  <2>6. /\ base'[c] = epoch
        /\ commit'[c] = "pending" => wanted[c] \notin AppliedBy(epoch)
        /\ \A x \in Committer \ {c} : base'[x] = base[x] /\ commit'[x] = commit[x]
    BY <2>1 DEF RetryInv, RetryTypes
  <2> QED BY <2>2, <2>3, <2>5, <2>6, NothingAccepted
<1>4. CASE UNCHANGED retryVars
  BY <1>4 DEF retryVars, RetryInv, RetryTypes, NeededWhenProposed, AppliedOnce, AppliedBy
<1> QED BY <1>1, <1>2, <1>3, <1>4, MergedInv DEF RetryNext

\* However many devices want the same done and race for it, it is committed once
\* (CommitRetry's still_needed and the hub's epoch check together).
THEOREM CommittedOnce == RetrySpec => []AppliedOnce
<1>1. RetryInv => AppliedOnce
  BY DEF RetryInv
<1> QED
  BY <1>1, RetryInitInv, RetryNextInv, PTL DEF RetrySpec

-----------------------------------------------------------------------------
(* How often a committer has tried.                                        *)

\* The retry that shows no lost race.
Excused(c) == IF c \in unknownUsed THEN 1 ELSE 0

\* Every proposal after the first is made further on than the one before it,
\* but for the excused one.
TriesOf(c) ==
  /\ attempt[c] <= MaxAttempts
  /\ commit[c] = "pending" => attempt[c] <= base[c] + 1 + Excused(c)
  /\ commit[c] = "syncing" =>
       /\ attempt[c] < MaxAttempts
       /\ attempt[c] <= base[c] + 1 + Excused(c)
       /\ \/ reason[c] \in {"conflict", "unknown-group"}
          \/ reason[c] = "unregistered" /\ attempt[c] <= base[c] + Excused(c)
  /\ commit[c] = "surfaced" /\ reason[c] = "conflict" =>
       /\ attempt[c] = MaxAttempts
       /\ attempt[c] <= base[c] + 1 + Excused(c)
       /\ base[c] < Len(commits)
  /\ commit[c] # "merged" => \A e \in 1 .. Len(commits) : commits[e] # c

TriesInv ==
  /\ RetryInv
  /\ reason \in [Committer -> {"none", "accepted", "conflict", "unknown-group", "unregistered", "final"}]
  /\ \A c \in Committer : TriesOf(c)

LEMMA TriesInitInv == RetryInit => TriesInv
<1> SUFFICES ASSUME RetryInit PROVE TriesInv
  OBVIOUS
<1>1. RetryInv
  BY RetryInitInv
<1> QED
  BY <1>1, RetryAssumption DEF RetryInit, TriesInv, TriesOf

\* A committer a step does not concern.
LEMMA Bystander ==
  ASSUME NEW x \in Committer, TriesOf(x), UNCHANGED commits,
         attempt'[x] = attempt[x], base'[x] = base[x], commit'[x] = commit[x],
         reason'[x] = reason[x], (x \in unknownUsed') <=> (x \in unknownUsed)
  PROVE  TriesOf(x)'
  BY DEF TriesOf, Excused

LEMMA ProposeTries == ASSUME TriesInv, RetryInv', NEW c \in Committer, Propose(c) PROVE TriesInv'
<1>1. PICK epoch \in 0 .. Len(commits) : base' = [base EXCEPT ![c] = epoch]
  BY DEF Propose
<1>2. /\ RetryTypes /\ epoch \in Nat
      /\ attempt' = [attempt EXCEPT ![c] = 1] /\ commit' = [commit EXCEPT ![c] = "pending"]
      /\ UNCHANGED <<reason, unknownUsed, commits>>
  BY DEF Propose, Enters, TriesInv, RetryInv
<1>3. TriesOf(c)'
  <2>1. /\ attempt'[c] = 1 /\ base'[c] = epoch /\ commit'[c] = "pending"
        /\ MaxAttempts \in Nat \ {0} /\ Excused(c)' \in {0, 1}
    BY <1>1, <1>2, RetryAssumption DEF RetryTypes, Excused
  <2>2. TriesOf(c) /\ commit[c] = "none"
    BY DEF Propose, TriesInv
  <2>3. \A e \in 1 .. Len(commits') : commits'[e] # c
    BY <1>2, <2>2 DEF TriesOf
  <2> QED BY <1>2, <2>1, <2>3 DEF TriesOf
<1>4. ASSUME NEW x \in Committer \ {c} PROVE TriesOf(x)'
  BY <1>1, <1>2, Bystander DEF TriesInv, RetryTypes
<1> QED BY <1>2, <1>3, <1>4 DEF TriesInv

LEMMA MergedTries == ASSUME TriesInv, RetryInv', NEW c \in Committer, Merged(c) PROVE TriesInv'
<1>1. /\ RetryTypes /\ commit[c] = "pending" /\ commits' = Append(commits, c)
      /\ commit' = [commit EXCEPT ![c] = "merged"] /\ reason' = [reason EXCEPT ![c] = "accepted"]
      /\ UNCHANGED <<base, attempt, unknownUsed>>
  BY DEF Merged, Enters, TriesInv, RetryInv
<1>2. /\ Len(commits) \in Nat /\ Len(commits') = Len(commits) + 1
      /\ commits'[Len(commits) + 1] = c
      /\ \A e \in 1 .. Len(commits) : commits'[e] = commits[e]
  BY <1>1 DEF RetryTypes
<1>3. TriesOf(c)'
  BY <1>1 DEF TriesInv, RetryTypes, TriesOf
<1>4. ASSUME NEW x \in Committer \ {c} PROVE TriesOf(x)'
  <2>1. /\ TriesOf(x) /\ base[x] \in Nat /\ commit'[x] = commit[x] /\ reason'[x] = reason[x]
        /\ Excused(x)' = Excused(x)
    BY <1>1 DEF TriesInv, RetryTypes, Excused
  <2>2. commit'[x] # "merged" => \A e \in 1 .. Len(commits') : commits'[e] # x
    BY <1>2, <2>1 DEF TriesOf
  <2> QED BY <1>1, <1>2, <2>1, <2>2 DEF TriesOf
<1> QED BY <1>1, <1>3, <1>4 DEF TriesInv

LEMMA AnswerTries ==
  ASSUME TriesInv, RetryInv', NEW c \in Committer,
         \/ \E why \in {"conflict", "unknown-group"} : CommitLost(c, why)
         \/ \E why \in {"unregistered", "final"} : RefusedCommit(c, why)
  PROVE  TriesInv'
<1>1. /\ RetryTypes /\ commit[c] = "pending" /\ TriesOf(c)
      /\ UNCHANGED <<base, attempt, commits>>
  BY DEF CommitLost, RefusedCommit, TriesInv, RetryInv
<1>2. PICK why \in {"conflict", "unknown-group", "unregistered", "final"},
           state \in {"syncing", "surfaced"} :
        /\ reason' = [reason EXCEPT ![c] = why]
        /\ commit' = [commit EXCEPT ![c] = state]
        /\ state = "syncing" => attempt[c] < MaxAttempts
        /\ why = "conflict" => base[c] < Len(commits)
        /\ why = "conflict" /\ state = "surfaced" => ~(attempt[c] < MaxAttempts)
        /\ state = "syncing" => why # "final"
        /\ \/ unknownUsed' = unknownUsed /\ (state = "syncing" => why # "unregistered")
           \/ unknownUsed' = unknownUsed \cup {c} /\ c \notin unknownUsed
  <2>1. ASSUME NEW why \in {"conflict", "unknown-group"}, CommitLost(c, why)
        PROVE  /\ reason' = [reason EXCEPT ![c] = why] /\ unknownUsed' = unknownUsed
               /\ commit' = [commit EXCEPT ![c] = IF MayRetry(c) THEN "syncing" ELSE "surfaced"]
               /\ why = "conflict" => base[c] < Len(commits)
    BY <2>1 DEF CommitLost, Enters
  <2>2. ASSUME NEW why \in {"unregistered", "final"}, RefusedCommit(c, why)
        PROVE  /\ reason' = [reason EXCEPT ![c] = why]
               /\ \/ /\ why = "unregistered" /\ c \notin unknownUsed /\ MayRetry(c)
                     /\ commit' = [commit EXCEPT ![c] = "syncing"]
                     /\ unknownUsed' = unknownUsed \cup {c}
                  \/ commit' = [commit EXCEPT ![c] = "surfaced"] /\ unknownUsed' = unknownUsed
    BY <2>2 DEF RefusedCommit, Enters
  <2> QED BY <2>1, <2>2 DEF MayRetry
<1>3. TriesOf(c)'
  <2>1. attempt[c] \in Nat /\ base[c] \in Nat /\ MaxAttempts \in Nat
    BY <1>1, RetryAssumption DEF RetryTypes
  <2>2. commit'[c] = state /\ reason'[c] = why
    BY <1>1, <1>2 DEF TriesInv, RetryTypes
  <2>3. /\ Excused(c)' \in {Excused(c), Excused(c) + 1} /\ Excused(c) \in {0, 1}
        /\ state = "syncing" /\ why = "unregistered" => Excused(c)' = Excused(c) + 1
    BY <1>2 DEF Excused
  <2> QED BY <1>1, <1>2, <2>1, <2>2, <2>3 DEF TriesOf
<1>4. ASSUME NEW x \in Committer \ {c} PROVE TriesOf(x)'
  BY <1>1, <1>2, Bystander DEF TriesInv, RetryTypes
<1>5. reason' \in [Committer -> {"none", "accepted", "conflict", "unknown-group", "unregistered", "final"}]
  BY <1>2 DEF TriesInv
<1> QED BY <1>3, <1>4, <1>5 DEF TriesInv

LEMMA SyncedTries == ASSUME TriesInv, RetryInv', NEW c \in Committer, Synced(c) PROVE TriesInv'
<1>1. /\ RetryTypes /\ commit[c] = "syncing" /\ TriesOf(c)
      /\ UNCHANGED <<reason, unknownUsed, commits>>
  BY DEF Synced, TriesInv, RetryInv
<1>2. PICK epoch \in base[c] .. Len(commits), moved \in BOOLEAN :
        /\ reason[c] = "conflict" \/ moved => epoch > base[c]
        /\ base' = [base EXCEPT ![c] = epoch]
        /\ \/ /\ reason[c] = "unknown-group"
              /\ commit' = [commit EXCEPT ![c] = "surfaced"] /\ attempt' = attempt
           \/ /\ reason[c] # "unknown-group" \/ moved
              /\ commit' = [commit EXCEPT ![c] = "pending"]
              /\ attempt' = [attempt EXCEPT ![c] = @ + 1]
           \/ commit' = [commit EXCEPT ![c] = "done"] /\ attempt' = attempt
  BY DEF Synced, Enters
<1>3. TriesOf(c)'
  <2>1. /\ attempt[c] \in Nat /\ base[c] \in Nat /\ MaxAttempts \in Nat /\ epoch \in Nat
        /\ epoch >= base[c] /\ base'[c] = epoch /\ Excused(c)' = Excused(c)
        /\ Excused(c) \in {0, 1}
    BY <1>1, <1>2, RetryAssumption DEF RetryTypes, Excused
  <2>2. commit'[c] # "merged" => \A e \in 1 .. Len(commits') : commits'[e] # c
    BY <1>1 DEF TriesOf
  <2>3. CASE commit'[c] = "pending"
    <3>1. attempt'[c] = attempt[c] + 1 /\ (reason[c] # "unknown-group" \/ moved)
      BY <1>1, <1>2, <2>3 DEF RetryTypes
    <3>2. CASE reason[c] = "unregistered"
      BY <1>1, <2>1, <2>2, <2>3, <3>1, <3>2 DEF TriesOf
    <3>3. CASE reason[c] # "unregistered"
      <4>1. epoch >= base[c] + 1
        BY <1>1, <1>2, <2>1, <3>1, <3>3 DEF TriesOf
      <4> QED BY <1>1, <2>1, <2>2, <2>3, <3>1, <4>1 DEF TriesOf
    <3> QED BY <3>2, <3>3
  <2>4. CASE commit'[c] # "pending"
    <3>1. /\ attempt'[c] = attempt[c] /\ reason'[c] = reason[c]
          /\ \/ commit'[c] = "done"
             \/ commit'[c] = "surfaced" /\ reason[c] # "conflict"
      BY <1>1, <1>2, <2>4 DEF RetryTypes
    <3> QED BY <1>1, <2>1, <2>2, <3>1 DEF TriesOf
  <2> QED BY <2>3, <2>4
<1>4. ASSUME NEW x \in Committer \ {c} PROVE TriesOf(x)'
  <2>1. attempt'[x] = attempt[x] /\ base'[x] = base[x] /\ commit'[x] = commit[x]
    BY <1>1, <1>2 DEF RetryTypes
  <2> QED BY <1>1, <2>1, Bystander DEF TriesInv
<1> QED BY <1>1, <1>3, <1>4 DEF TriesInv

LEMMA TriesNextInv == ASSUME TriesInv, [RetryNext]_retryVars PROVE TriesInv'
<1>1. RetryInv'
  BY RetryNextInv DEF TriesInv
<1>2. CASE UNCHANGED retryVars
  BY <1>1, <1>2 DEF retryVars, TriesInv, TriesOf, Excused
<1> QED
  BY <1>1, <1>2, ProposeTries, MergedTries, AnswerTries, SyncedTries DEF RetryNext

\* All of the commits a committer that gave up has seen are of others, and
\* there are enough of them.
LEMMA TriesSuffice == TriesInv => LosersHadTheirTries
<1> SUFFICES ASSUME TriesInv, NEW c \in Committer, commit[c] = "surfaced", reason[c] = "conflict"
             PROVE  /\ Cardinality({e \in 1 .. Len(commits) : commits[e] # c})
                         >= MaxAttempts - Excused(c)
                    /\ attempt[c] = MaxAttempts
  BY DEF LosersHadTheirTries, Excused
<1>1. /\ TriesOf(c) /\ base[c] \in Nat /\ Len(commits) \in Nat /\ MaxAttempts \in Nat
      /\ Excused(c) \in {0, 1}
  BY RetryAssumption DEF TriesInv, RetryInv, RetryTypes, Excused
<1>2. {e \in 1 .. Len(commits) : commits[e] # c} = 1 .. Len(commits)
  BY <1>1 DEF TriesOf
<1>3. Cardinality(1 .. Len(commits)) = Len(commits)
  <2>1. Cardinality(1 .. Len(commits)) = IF 1 > Len(commits) THEN 0 ELSE Len(commits) - 1 + 1
    <3>1. Len(commits) \in Int
      BY <1>1
    <3> QED BY ONLY <3>1, FS_Interval
  <2> QED BY <1>1, <2>1
<1>4. attempt[c] = MaxAttempts /\ Len(commits) >= MaxAttempts - Excused(c)
  BY <1>1 DEF TriesOf
<1> QED BY <1>2, <1>3, <1>4

\* A device that gives up a commit because it lost has lost as many races to
\* others as max_attempts allows (CommitRetry.on_result and synced).
THEOREM NobodyGivesUpEarly == RetrySpec => []LosersHadTheirTries
<1> QED
  BY TriesInitInv, TriesNextInv, TriesSuffice, PTL DEF RetrySpec

-----------------------------------------------------------------------------
(* Waking a device for a call (Waker)                                      *)

WakerTypes ==
  /\ at \in Nat
  /\ regs \in [Sleeper -> [until : Nat, kinds : SUBSET {"call", "call-ended", "message"}]]
  /\ invites \in [Invite -> [until : Nat, devices : SUBSET Sleeper, woken : SUBSET Sleeper]]
  /\ screen \in SUBSET (Sleeper \X Invite)

\* ShownCallIsHeld is inductive once the variables have their shapes.
WakerInv == WakerTypes /\ ShownCallIsHeld

-----------------------------------------------------------------------------
LEMMA WakerInitInv == WakerInit => WakerInv
  BY DEF WakerInit, WakerInv, WakerTypes, ShownCallIsHeld, NotHeld

\* What still shows after a call was not ended by it, and its invite is held for
\* a device that was woken: an invite that has expired ended its calls.
LEMMA StillShown ==
  ASSUME WakerInv, NEW t, NEW ended, NEW rung, Call(t, ended, rung),
         NEW p \in screen', p \notin rung
  PROVE  /\ p \in screen \ ended
         /\ p[2] \notin Over(t)
         /\ p[1] \in invites[p[2]].woken \cap invites[p[2]].devices
         /\ Wants(p[1], "call-ended", t)
<1>1. t \in Nat /\ at' = t
  BY DEF Call, WakerInv, WakerTypes
<1>2. /\ p \in screen \ ended
      /\ p \notin UNION {CallEnded(s, invites[s].until) : s \in Over(t)}
      /\ Wants(p[1], "call-ended", t)
  BY DEF Call
<1>3. /\ p[1] \in Sleeper /\ p[2] \in Invite /\ p = <<p[1], p[2]>>
      /\ p[1] \in invites[p[2]].woken \cap invites[p[2]].devices
  BY <1>2 DEF WakerInv, WakerTypes, ShownCallIsHeld
<1>4. p[2] \notin Over(t)
  <2> SUFFICES ASSUME p[2] \in Over(t) PROVE FALSE
    OBVIOUS
  <2>1. invites[p[2]].until <= t /\ invites[p[2]].until \in Nat /\ regs[p[1]].until \in Nat
    BY <1>3 DEF Over, WakerInv, WakerTypes
  <2>2. Wants(p[1], "call-ended", invites[p[2]].until)
    BY <1>1, <1>2, <2>1 DEF Wants
  <2>3. p \in CallEnded(p[2], invites[p[2]].until)
    BY <1>3, <2>2 DEF CallEnded
  <2> QED BY <1>2, <2>3
<1> QED BY <1>2, <1>3, <1>4

\* A call that keeps the invites which are not over, or only takes devices that
\* show nothing any more off them, preserves the invariant.
LEMMA CallKeepsInv ==
  ASSUME WakerInv, NEW t, NEW ended, NEW rung \in SUBSET (Sleeper \X Invite),
         Call(t, ended, rung),
         regs' \in [Sleeper -> [until : Nat, kinds : SUBSET {"call", "call-ended", "message"}]],
         invites' \in [Invite -> [until : Nat, devices : SUBSET Sleeper, woken : SUBSET Sleeper]],
         \A p \in rung : p[1] \in invites'[p[2]].woken \cap invites'[p[2]].devices
                         /\ invites'[p[2]].until > t,
         \A p \in screen \ ended :
            p[2] \notin Over(t) /\ p[1] \in invites[p[2]].woken \cap invites[p[2]].devices =>
               /\ invites'[p[2]].until = invites[p[2]].until
               /\ p[1] \in invites'[p[2]].woken \cap invites'[p[2]].devices
  PROVE  WakerInv'
<1>1. t \in Nat /\ at' = t
  BY DEF Call, WakerInv, WakerTypes
<1>2. screen' \in SUBSET (Sleeper \X Invite)
  BY DEF Call, WakerInv, WakerTypes
<1>3. ASSUME NEW p \in screen'
      PROVE  p[1] \in invites'[p[2]].woken \cap invites'[p[2]].devices /\ invites'[p[2]].until > t
  <2>1. CASE p \in rung
    BY <2>1
  <2>2. CASE p \notin rung
    <3>1. /\ p \in screen \ ended /\ p[2] \notin Over(t)
          /\ p[1] \in invites[p[2]].woken \cap invites[p[2]].devices
      BY <2>2, StillShown
    <3>2. p[2] \in Invite /\ invites[p[2]].until \in Nat
      BY <3>1 DEF WakerInv, WakerTypes
    <3>3. invites[p[2]].until > t
      BY <1>1, <3>1, <3>2 DEF Over
    <3> QED BY <3>1, <3>3
  <2> QED BY <2>1, <2>2
<1> QED BY <1>1, <1>2, <1>3 DEF WakerInv, WakerTypes, ShownCallIsHeld

\* The invites that are left when the others have expired.
LEMMA StillHeldIsWhatWas ==
  ASSUME WakerInv, NEW t
  PROVE  /\ StillHeld(t) \in [Invite -> [until : Nat, devices : SUBSET Sleeper, woken : SUBSET Sleeper]]
         /\ \A s \in Invite \ Over(t) : StillHeld(t)[s] = invites[s]
  BY DEF WakerInv, WakerTypes, StillHeld, NotHeld

LEMMA RegistrationInv ==
  ASSUME WakerInv, NEW d \in Sleeper, NEW t,
         Register(d, t) \/ EndRegistration(d, t) \/ Unbind(d, t)
  PROVE  WakerInv'
<1>1. Call(t, {}, {}) /\ invites' = StillHeld(t) /\ t \in Nat
  BY DEF Register, EndRegistration, Unbind, Call, WakerInv, WakerTypes
<1>2. regs' \in [Sleeper -> [until : Nat, kinds : SUBSET {"call", "call-ended", "message"}]]
  <2>1. CASE Register(d, t)
    <3>1. PICK until \in t + 1 .. MaxTime + 1, kinds \in {{"call"}, {"call", "call-ended"}, {"message"}} :
             regs' = [regs EXCEPT ![d] = [until |-> until, kinds |-> kinds]]
      BY <2>1 DEF Register
    <3>2. until \in Nat /\ kinds \in SUBSET {"call", "call-ended", "message"}
      BY <1>1, WakerAssumption
    <3> QED BY <3>1, <3>2 DEF WakerInv, WakerTypes
  <2>2. CASE EndRegistration(d, t)
    BY <2>2 DEF EndRegistration, WakerInv, WakerTypes
  <2>3. CASE Unbind(d, t)
    BY <2>3 DEF Unbind, WakerInv, WakerTypes
  <2> QED BY <2>1, <2>2, <2>3
<1>3. \A p \in screen : p[2] \in Invite
  BY DEF WakerInv, WakerTypes
<1> QED BY <1>1, <1>2, <1>3, StillHeldIsWhatWas, CallKeepsInv

LEMMA BindInv == ASSUME WakerInv, NEW d \in Sleeper, NEW t, Bind(d, t) PROVE WakerInv'
<1>1. Call(t, {d} \X Invite, {}) /\ regs' = regs
  BY DEF Bind
<1>2. invites' = [s \in Invite |-> [StillHeld(t)[s] EXCEPT !.devices = @ \ {d}, !.woken = @ \ {d}]]
  BY DEF Bind
<1>3. invites' \in [Invite -> [until : Nat, devices : SUBSET Sleeper, woken : SUBSET Sleeper]]
  <2>1. \A s \in Invite : StillHeld(t)[s] \in [until : Nat, devices : SUBSET Sleeper, woken : SUBSET Sleeper]
    BY StillHeldIsWhatWas
  <2>2. \A s \in Invite : [StillHeld(t)[s] EXCEPT !.devices = @ \ {d}, !.woken = @ \ {d}]
                             \in [until : Nat, devices : SUBSET Sleeper, woken : SUBSET Sleeper]
    BY <2>1
  <2> QED BY <1>2, <2>2
<1>4. ASSUME NEW p \in screen \ ({d} \X Invite), p[2] \notin Over(t),
             p[1] \in invites[p[2]].woken \cap invites[p[2]].devices
      PROVE  /\ invites'[p[2]].until = invites[p[2]].until
             /\ p[1] \in invites'[p[2]].woken \cap invites'[p[2]].devices
  <2>1. p[1] # d /\ p[2] \in Invite
    BY <1>4 DEF WakerInv, WakerTypes
  <2>2. StillHeld(t)[p[2]] = invites[p[2]]
    BY <1>4, <2>1, StillHeldIsWhatWas
  <2>3. /\ invites'[p[2]].until = invites[p[2]].until
        /\ invites'[p[2]].woken = invites[p[2]].woken \ {d}
        /\ invites'[p[2]].devices = invites[p[2]].devices \ {d}
    BY <1>2, <2>1, <2>2 DEF WakerInv, WakerTypes
  <2> QED BY <1>4, <2>1, <2>3
<1>5. regs' \in [Sleeper -> [until : Nat, kinds : SUBSET {"call", "call-ended", "message"}]]
  BY <1>1 DEF WakerInv, WakerTypes
<1> QED BY <1>1, <1>3, <1>4, <1>5, CallKeepsInv

LEMMA HoldInv ==
  ASSUME WakerInv, NEW s \in Invite, NEW t, NEW until \in Nat, NEW for \in SUBSET Sleeper,
         Hold(s, until, for, t)
  PROVE  WakerInv'
<1> DEFINE h == HeldFor(s, until, t)
           waiting == for \ bound
           woken == {d \in waiting \ h.woken : Wants(d, "call", t)}
           kept == [h EXCEPT !.devices = @ \cup waiting, !.woken = @ \cup woken]
<1>1. /\ Call(t, {}, woken \X {s}) /\ regs' = regs /\ until > t
      /\ invites' = [StillHeld(t) EXCEPT ![s] = kept]
  BY DEF Hold
<1>2. t \in Nat
  BY <1>1 DEF Call, WakerInv, WakerTypes
<1>3. h \in [until : Nat, devices : SUBSET Sleeper, woken : SUBSET Sleeper] /\ h.until > t
  BY <1>1, <1>2 DEF HeldFor, NotHeld, Over, WakerInv, WakerTypes
<1>4. /\ kept \in [until : Nat, devices : SUBSET Sleeper, woken : SUBSET Sleeper]
      /\ kept.until = h.until
      /\ kept.devices = h.devices \cup waiting /\ kept.woken = h.woken \cup woken
  BY <1>3
<1>5. /\ invites' \in [Invite -> [until : Nat, devices : SUBSET Sleeper, woken : SUBSET Sleeper]]
      /\ invites'[s] = kept
      /\ \A x \in Invite \ {s} : invites'[x] = StillHeld(t)[x]
  <2> HIDE DEF kept
  <2> QED BY <1>1, <1>4, StillHeldIsWhatWas
<1>6. \A p \in woken \X {s} : p[1] \in invites'[p[2]].woken \cap invites'[p[2]].devices
                              /\ invites'[p[2]].until > t
  BY <1>3, <1>4, <1>5
<1>7. ASSUME NEW p \in screen, p[2] \notin Over(t),
             p[1] \in invites[p[2]].woken \cap invites[p[2]].devices
      PROVE  /\ invites'[p[2]].until = invites[p[2]].until
             /\ p[1] \in invites'[p[2]].woken \cap invites'[p[2]].devices
  <2>1. p[2] \in Invite
    BY DEF WakerInv, WakerTypes
  <2>2. CASE p[2] = s
    <3>1. h = invites[s]
      BY <1>7, <2>2 DEF HeldFor
    <3> QED BY <1>4, <1>5, <1>7, <2>2, <3>1
  <2>3. CASE p[2] # s
    BY <1>5, <1>7, <2>1, <2>3, StillHeldIsWhatWas
  <2> QED BY <2>2, <2>3
<1>8. woken \X {s} \in SUBSET (Sleeper \X Invite)
  OBVIOUS
<1>9. regs' \in [Sleeper -> [until : Nat, kinds : SUBSET {"call", "call-ended", "message"}]]
  BY <1>1 DEF WakerInv, WakerTypes
<1>10. \A p \in screen \ {} :
          p[2] \notin Over(t) /\ p[1] \in invites[p[2]].woken \cap invites[p[2]].devices =>
             /\ invites'[p[2]].until = invites[p[2]].until
             /\ p[1] \in invites'[p[2]].woken \cap invites'[p[2]].devices
  BY <1>7
<1> HIDE DEF h, waiting, woken, kept
<1> QED BY <1>1, <1>5, <1>6, <1>8, <1>9, <1>10, CallKeepsInv

LEMMA DropInv == ASSUME WakerInv, NEW s \in Invite, NEW t, Drop(s, t) PROVE WakerInv'
<1>1. /\ Call(t, CallEnded(s, t), {}) /\ regs' = regs
      /\ invites' = [StillHeld(t) EXCEPT ![s] = NotHeld]
  BY DEF Drop
<1>2. /\ invites' \in [Invite -> [until : Nat, devices : SUBSET Sleeper, woken : SUBSET Sleeper]]
      /\ \A x \in Invite \ {s} : invites'[x] = StillHeld(t)[x]
  BY <1>1, StillHeldIsWhatWas DEF NotHeld
<1>3. t \in Nat /\ at' = t
  BY <1>1 DEF Call, WakerInv, WakerTypes
<1>4. screen' \in SUBSET (Sleeper \X Invite)
  BY <1>1 DEF Call, WakerInv, WakerTypes
<1>5. ASSUME NEW p \in screen'
      PROVE  p[1] \in invites'[p[2]].woken \cap invites'[p[2]].devices /\ invites'[p[2]].until > t
  <2>1. /\ p \in screen \ CallEnded(s, t) /\ p[2] \notin Over(t)
        /\ p[1] \in invites[p[2]].woken \cap invites[p[2]].devices
        /\ Wants(p[1], "call-ended", t)
    BY <1>1, StillShown
  <2>2. p[2] \in Invite /\ p = <<p[1], p[2]>> /\ invites[p[2]].until \in Nat
    BY <2>1 DEF WakerInv, WakerTypes
  <2>3. p[2] # s
    BY <2>1, <2>2 DEF CallEnded
  <2>4. invites'[p[2]] = invites[p[2]]
    BY <1>2, <2>1, <2>2, <2>3, StillHeldIsWhatWas
  <2>5. invites[p[2]].until > t
    BY <1>3, <2>1, <2>2 DEF Over
  <2> QED BY <2>1, <2>4, <2>5
<1> QED BY <1>1, <1>2, <1>3, <1>4, <1>5 DEF WakerInv, WakerTypes, ShownCallIsHeld

LEMMA WakerNextInv == ASSUME WakerInv, [WakerNext]_wakerVars PROVE WakerInv'
<1>1. CASE UNCHANGED wakerVars
  BY <1>1 DEF wakerVars, WakerInv, WakerTypes, ShownCallIsHeld
<1>2. ASSUME NEW t \in at .. MaxTime, StoreItem(t) PROVE WakerInv'
  <2>1. Call(t, {}, {}) /\ invites' = StillHeld(t) /\ regs' = regs
    BY <1>2 DEF StoreItem
  <2>2. \A p \in screen : p[2] \in Invite
    BY DEF WakerInv, WakerTypes
  <2>3. regs' \in [Sleeper -> [until : Nat, kinds : SUBSET {"call", "call-ended", "message"}]]
    BY <2>1 DEF WakerInv, WakerTypes
  <2> QED BY <2>1, <2>2, <2>3, StillHeldIsWhatWas, CallKeepsInv
<1>3. ASSUME NEW t \in at .. MaxTime, NEW s \in Invite, NEW until \in t + 1 .. MaxTime + 1,
             NEW for \in SUBSET Sleeper, Hold(s, until, for, t)
      PROVE  WakerInv'
  <2>1. until \in Nat
    BY WakerAssumption DEF WakerInv, WakerTypes
  <2> QED BY <1>3, <2>1, HoldInv
<1>4. ASSUME NEW t \in at .. MaxTime, NEW d \in Sleeper,
             Register(d, t) \/ EndRegistration(d, t) \/ Bind(d, t) \/ Unbind(d, t)
      PROVE  WakerInv'
  BY <1>4, RegistrationInv, BindInv
<1> QED BY <1>1, <1>2, <1>3, <1>4, DropInv DEF WakerNext

\* A device that was woken for a call and shows it is told when the call ends, or
\* its registration has ended: the relay still holds the invite and remembers
\* the wake, for any devices, sessions and times (Waker, W 5.1).
THEOREM ShownCallsAreHeld == WakerSpec => []ShownCallIsHeld
<1>1. WakerInv => ShownCallIsHeld
  BY DEF WakerInv
<1> QED
  BY <1>1, WakerInitInv, WakerNextInv, PTL DEF WakerSpec
-----------------------------------------------------------------------------
(* From a report to the alarm list (Alarms)                                 *)

AlarmReport == [alarm : Alarm, severity : Severity \cup {Clear}, inform : Inform \cup {Trap}]

AlarmRecord ==
  [state : {"none", "open", "cleared"}, severity : Severity \cup {Clear},
   operator : {"none", "ack", "closed"}, armed : BOOLEAN, escalated : BOOLEAN]

AlarmTypes ==
  /\ deposits \in Seq(AlarmReport)
  /\ list \in [Alarm -> AlarmRecord]
  /\ latest \in [Alarm -> [severity : Severity \cup {Clear, NotStored}, inform : Inform \cup {Trap}]]
  /\ heldClear \in [Alarm -> BOOLEAN]

\* Deposit k is the last one on its way that is about a.
LastAbout(a, k) ==
  /\ deposits[k].alarm = a
  /\ \A j \in DOMAIN deposits : j > k => deposits[j].alarm # a

\* What is held back is what the gateway was last told, and so is the last
\* deposit on its way, or what the list shows when none is.
ListCatchesUp ==
  \A a \in Alarm :
    IF heldClear[a] THEN latest[a] = [severity |-> Clear, inform |-> Trap]
    ELSE latest[a].severity # NotStored =>
      /\ \A k \in DOMAIN deposits : LastAbout(a, k) =>
           /\ deposits[k].severity = latest[a].severity
           /\ deposits[k].inform = latest[a].inform
      /\ (\A k \in DOMAIN deposits : deposits[k].alarm # a) => Shown(a) = latest[a].severity

AlarmInv == AlarmTypes /\ ListCatchesUp

\* What the list shows of an alarm with record r.
ShownOf(r) == IF r.state = "open" THEN r.severity ELSE Clear

\* The list shows the severity that it was last given.
LEMMA ReportedShows ==
  ASSUME NEW r \in AlarmRecord, NEW severity \in Severity \cup {Clear}
  PROVE  /\ Reported(r, severity) \in AlarmRecord
         /\ ShownOf(Reported(r, severity)) = severity
  BY AlarmAssumption DEF ShownOf, Reported, Arm, AlarmRecord, NoAlarm, Clear

LEMMA AlarmInitInv == AlarmInit => AlarmInv
  BY DEF AlarmInit, AlarmInv, AlarmTypes, ListCatchesUp, AlarmRecord, NoAlarm, Shown, Clear, Trap

\* A deposit of what the gateway was last told, and no clear held back.
LEMMA DepositCatchesUp ==
  ASSUME AlarmInv, NEW a \in Alarm, NEW severity \in Severity \cup {Clear},
         NEW n \in Inform \cup {Trap}, Deposit(a, severity, n), UNCHANGED list,
         heldClear' = [heldClear EXCEPT ![a] = FALSE],
         latest' = [latest EXCEPT ![a] = [severity |-> severity, inform |-> n]]
  PROVE  AlarmInv'
<1> DEFINE new == [alarm |-> a, severity |-> severity, inform |-> n]
<1>1. new \in AlarmReport /\ new.alarm = a /\ new.severity = severity /\ new.inform = n
  BY DEF AlarmReport
<1>2. /\ deposits \in Seq(AlarmReport) /\ deposits' = Append(deposits, new)
      /\ Len(deposits) \in Nat /\ DOMAIN deposits = 1 .. Len(deposits)
      /\ DOMAIN deposits' = 1 .. Len(deposits) + 1
      /\ deposits'[Len(deposits) + 1] = new
      /\ \A k \in DOMAIN deposits : deposits'[k] = deposits[k]
  BY <1>1 DEF Deposit, AlarmInv, AlarmTypes
<1>3. AlarmTypes'
  BY <1>1, <1>2 DEF AlarmInv, AlarmTypes
<1>4. ASSUME NEW b \in Alarm, ~heldClear'[b], latest'[b].severity # NotStored,
             NEW k \in DOMAIN deposits', LastAbout(b, k)'
      PROVE  deposits'[k].severity = latest'[b].severity /\ deposits'[k].inform = latest'[b].inform
  <2>1. CASE b = a
    <3>1. k = Len(deposits) + 1
      BY <1>1, <1>2, <1>4, <2>1 DEF LastAbout
    <3> QED BY <1>1, <1>2, <2>1, <3>1 DEF AlarmInv, AlarmTypes
  <2>2. CASE b # a
    <3>1. k \in DOMAIN deposits /\ LastAbout(b, k)
      BY <1>1, <1>2, <1>4, <2>2 DEF LastAbout
    <3>2. ~heldClear[b] /\ latest'[b] = latest[b]
      BY <1>4, <2>2 DEF AlarmInv, AlarmTypes
    <3> QED BY <1>2, <1>4, <3>1, <3>2 DEF AlarmInv, ListCatchesUp
  <2> QED BY <2>1, <2>2
<1>5. ASSUME NEW b \in Alarm, ~heldClear'[b], latest'[b].severity # NotStored,
             \A k \in DOMAIN deposits' : deposits'[k].alarm # b
      PROVE  Shown(b)' = latest'[b].severity
  <2>1. b # a /\ \A k \in DOMAIN deposits : deposits[k].alarm # b
    BY <1>1, <1>2, <1>5
  <2>2. ~heldClear[b] /\ latest'[b] = latest[b]
    BY <1>5, <2>1 DEF AlarmInv, AlarmTypes
  <2>3. Shown(b)' = Shown(b)
    BY DEF Shown
  <2> QED BY <1>5, <2>1, <2>2, <2>3 DEF AlarmInv, ListCatchesUp
<1>6. ASSUME NEW b \in Alarm, heldClear'[b]
      PROVE  latest'[b] = [severity |-> Clear, inform |-> Trap]
  BY <1>6 DEF AlarmInv, AlarmTypes, ListCatchesUp
<1> QED BY <1>3, <1>4, <1>5, <1>6 DEF AlarmInv, ListCatchesUp

\* A report is held back or deposited, and is the last the gateway was told.
LEMMA HoldDownCatchesUp ==
  ASSUME AlarmInv, NEW a \in Alarm, NEW severity \in Severity \cup {Clear},
         NEW n \in Inform \cup {Trap}, HoldDown(a, severity, n), UNCHANGED list,
         latest' = [latest EXCEPT ![a] = [severity |-> severity, inform |-> n]]
  PROVE  AlarmInv'
<1>1. CASE HoldsClears /\ severity = Clear /\ n = Trap
  <2>1. heldClear' = [heldClear EXCEPT ![a] = TRUE] /\ UNCHANGED deposits
    BY <1>1 DEF HoldDown
  <2>2. AlarmTypes'
    BY <2>1 DEF AlarmInv, AlarmTypes
  <2>3. ASSUME NEW b \in Alarm, b # a
        PROVE  /\ heldClear'[b] = heldClear[b] /\ latest'[b] = latest[b]
               /\ Shown(b)' = Shown(b) /\ \A k : LastAbout(b, k)' = LastAbout(b, k)
    BY <2>1, <2>3 DEF AlarmInv, AlarmTypes, Shown, LastAbout
  <2>4. heldClear'[a] /\ latest'[a] = [severity |-> Clear, inform |-> Trap]
    BY <1>1, <2>1 DEF AlarmInv, AlarmTypes
  <2> QED BY <2>1, <2>2, <2>3, <2>4 DEF AlarmInv, ListCatchesUp
<1>2. CASE ~(HoldsClears /\ severity = Clear /\ n = Trap)
  BY <1>2, DepositCatchesUp DEF HoldDown
<1> QED BY <1>1, <1>2

\* The oldest deposit is gone; of its alarm the list shows it, or another deposit
\* is on its way, or it was the inform of what the gateway was last told.
LEMMA HeadGone ==
  ASSUME AlarmInv, deposits # <<>>, deposits' = Tail(deposits), UNCHANGED heldClear, AlarmTypes',
         \A b \in Alarm : b # Head(deposits).alarm =>
           list'[b] = list[b] /\ latest'[b] = latest[b],
         LET d == Head(deposits) IN
           \/ latest' = latest /\ ShownOf(list'[d.alarm]) = d.severity
           \/ /\ UNCHANGED list
              /\ IF latest[d.alarm].inform = d.inform /\ d.inform # Trap
                 THEN latest'[d.alarm].severity = NotStored /\ ~heldClear[d.alarm]
                 ELSE latest'[d.alarm] = latest[d.alarm] /\ d.inform # Trap
  PROVE  AlarmInv'
<1> DEFINE d == Head(deposits)
<1>1. /\ deposits \in Seq(AlarmReport) /\ Len(deposits) \in Nat \ {0}
      /\ DOMAIN deposits = 1 .. Len(deposits) /\ DOMAIN deposits' = 1 .. Len(deposits) - 1
      /\ d = deposits[1] /\ d \in AlarmReport
      /\ \A k \in DOMAIN deposits' : deposits'[k] = deposits[k + 1]
  BY DEF AlarmInv, AlarmTypes
<1> HIDE DEF d
<1>2. ASSUME NEW b \in Alarm, NEW k \in DOMAIN deposits', LastAbout(b, k)'
      PROVE  k + 1 \in DOMAIN deposits /\ LastAbout(b, k + 1)
  <2>1. ASSUME NEW j \in DOMAIN deposits, j > k + 1
        PROVE  deposits[j].alarm # b
    <3>1. j - 1 \in DOMAIN deposits' /\ j - 1 > k /\ (j - 1) + 1 = j
      BY <1>1, <2>1
    <3> QED BY <1>1, <1>2, <3>1 DEF LastAbout
  <2> QED BY <1>1, <1>2, <2>1 DEF LastAbout
<1>3. ASSUME NEW b \in Alarm, \A k \in DOMAIN deposits' : deposits'[k].alarm # b,
             d.alarm = b
      PROVE  1 \in DOMAIN deposits /\ LastAbout(b, 1)
  <2>1. ASSUME NEW j \in DOMAIN deposits, j > 1
        PROVE  deposits[j].alarm # b
    <3>1. j - 1 \in DOMAIN deposits' /\ (j - 1) + 1 = j
      BY <1>1, <2>1
    <3> QED BY <1>1, <1>3, <3>1
  <2> QED BY <1>1, <1>3, <2>1 DEF LastAbout
<1>4. ASSUME NEW b \in Alarm, \A k \in DOMAIN deposits' : deposits'[k].alarm # b,
             d.alarm # b
      PROVE  \A k \in DOMAIN deposits : deposits[k].alarm # b
  <2> SUFFICES ASSUME NEW k \in DOMAIN deposits PROVE deposits[k].alarm # b
    OBVIOUS
  <2>1. CASE k = 1
    BY <1>1, <1>4, <2>1
  <2>2. CASE k # 1
    <3>1. k - 1 \in DOMAIN deposits' /\ (k - 1) + 1 = k
      BY <1>1, <2>2
    <3> QED BY <1>1, <1>4, <3>1
  <2> QED BY <2>1, <2>2
<1>5. ASSUME NEW b \in Alarm, heldClear'[b]
      PROVE  latest'[b] = [severity |-> Clear, inform |-> Trap]
  <2>1. heldClear[b] /\ latest[b] = [severity |-> Clear, inform |-> Trap]
    BY <1>5 DEF AlarmInv, ListCatchesUp
  <2> QED BY <2>1, <1>5 DEF d
<1>6. ASSUME NEW b \in Alarm, ~heldClear'[b], latest'[b].severity # NotStored
      PROVE  ~heldClear[b] /\ latest'[b] = latest[b]
  <2>1. CASE b # d.alarm
    BY <1>6, <2>1 DEF d
  <2>2. CASE b = d.alarm
    BY <1>6, <2>2 DEF d
  <2> QED BY <2>1, <2>2
<1>7. ASSUME NEW b \in Alarm, ~heldClear'[b], latest'[b].severity # NotStored,
             NEW k \in DOMAIN deposits', LastAbout(b, k)'
      PROVE  deposits'[k].severity = latest'[b].severity /\ deposits'[k].inform = latest'[b].inform
  BY <1>1, <1>2, <1>6, <1>7 DEF AlarmInv, ListCatchesUp
<1>8. ASSUME NEW b \in Alarm, ~heldClear'[b], latest'[b].severity # NotStored,
             \A k \in DOMAIN deposits' : deposits'[k].alarm # b
      PROVE  Shown(b)' = latest'[b].severity
  <2>1. ~heldClear[b] /\ latest'[b] = latest[b] /\ latest[b].severity # NotStored
    BY <1>6, <1>8
  <2>2. CASE d.alarm # b
    <3>1. Shown(b)' = Shown(b)
      BY <2>2 DEF Shown, d
    <3> QED BY <1>4, <1>8, <2>1, <2>2, <3>1 DEF AlarmInv, ListCatchesUp
  <2>3. CASE d.alarm = b
    <3>1. d.severity = latest[b].severity /\ d.inform = latest[b].inform
      BY <1>1, <1>3, <1>8, <2>1, <2>3 DEF AlarmInv, ListCatchesUp
    <3>2. CASE latest' = latest /\ ShownOf(list'[d.alarm]) = d.severity
      BY <2>3, <3>1, <3>2 DEF Shown, ShownOf
    <3>3. CASE ~(latest' = latest /\ ShownOf(list'[d.alarm]) = d.severity)
      BY <1>8, <2>1, <2>3, <3>1, <3>3 DEF d
    <3> QED BY <3>2, <3>3
  <2> QED BY <2>2, <2>3
<1> QED BY <1>5, <1>7, <1>8 DEF AlarmInv, ListCatchesUp

LEMMA AlarmStepInv == AlarmInv /\ [AlarmNext]_alarmVars => AlarmInv'
<1> SUFFICES ASSUME AlarmInv, [AlarmNext]_alarmVars
             PROVE  AlarmInv'
  OBVIOUS
<1>1. ASSUME NEW a \in Alarm, NEW severity \in Severity \cup {Clear}, ReceiveTrap(a, severity)
      PROVE  AlarmInv'
  BY <1>1, HoldDownCatchesUp DEF ReceiveTrap
<1>2. ASSUME NEW a \in Alarm, NEW severity \in Severity \cup {Clear}, NEW n \in Inform,
             ReceiveInform(n, a, severity)
      PROVE  AlarmInv'
  BY <1>2, HoldDownCatchesUp DEF ReceiveInform, Deposits
<1>3. ASSUME NEW a \in Alarm, HoldEnds(a)
      PROVE  AlarmInv'
  <2>1. latest[a] = [severity |-> Clear, inform |-> Trap]
    BY <1>3 DEF HoldEnds, AlarmInv, ListCatchesUp
  <2>2. latest' = [latest EXCEPT ![a] = [severity |-> Clear, inform |-> Trap]]
    BY <1>3, <2>1 DEF HoldEnds, AlarmInv, AlarmTypes
  <2> QED BY <1>3, <2>2, DepositCatchesUp DEF HoldEnds
<1>4. CASE \/ \E n \in Inform : ForgetInform(n)
           \/ UNCHANGED alarmVars
  BY <1>4 DEF ForgetInform, alarmVars, AlarmInv, AlarmTypes, ListCatchesUp, LastAbout, Shown
<1>5. CASE Stored \/ RefusedInform
  <2> DEFINE d == Head(deposits)
  <2>1. d \in AlarmReport /\ deposits' = Tail(deposits) /\ deposits # <<>>
        /\ Tail(deposits) \in Seq(AlarmReport)
    BY <1>5 DEF Stored, RefusedInform, AlarmInv, AlarmTypes
  <2>2. CASE Stored
    <3>1. /\ list' = [list EXCEPT ![d.alarm] = Reported(list[d.alarm], d.severity)]
          /\ latest' = latest /\ heldClear' = heldClear
      BY <2>2 DEF Stored
    <3>2. /\ Reported(list[d.alarm], d.severity) \in AlarmRecord
          /\ ShownOf(Reported(list[d.alarm], d.severity)) = d.severity
      BY <2>1, ReportedShows DEF AlarmInv, AlarmTypes, AlarmReport
    <3>3. AlarmTypes'
      BY <2>1, <3>1, <3>2 DEF AlarmInv, AlarmTypes
    <3>4. ShownOf(list'[d.alarm]) = d.severity
      BY <2>1, <3>1, <3>2 DEF AlarmInv, AlarmTypes, AlarmReport
    <3>5. \A b \in Alarm : b # d.alarm => list'[b] = list[b] /\ latest'[b] = latest[b]
      BY <3>1 DEF AlarmInv, AlarmTypes
    <3> QED BY <2>1, <3>1, <3>3, <3>4, <3>5, HeadGone
  <2>3. CASE RefusedInform
    <3>1. /\ latest' = [latest EXCEPT ![d.alarm].severity =
                          IF latest[d.alarm].inform = d.inform THEN NotStored ELSE @]
          /\ d.inform # Trap /\ list' = list /\ heldClear' = heldClear
      BY <2>3 DEF RefusedInform
    <3>2. AlarmTypes'
      BY <2>1, <3>1 DEF AlarmInv, AlarmTypes, AlarmReport
    <3>3. \A b \in Alarm : b # d.alarm => list'[b] = list[b] /\ latest'[b] = latest[b]
      BY <3>1 DEF AlarmInv, AlarmTypes
    <3>4. IF latest[d.alarm].inform = d.inform /\ d.inform # Trap
          THEN latest'[d.alarm].severity = NotStored /\ ~heldClear[d.alarm]
          ELSE latest'[d.alarm] = latest[d.alarm] /\ d.inform # Trap
      <4>1. d.alarm \in Alarm
        BY <2>1 DEF AlarmReport
      <4>2. CASE latest[d.alarm].inform = d.inform
        <5>1. ~heldClear[d.alarm]
          BY <3>1, <4>1, <4>2 DEF AlarmInv, ListCatchesUp
        <5> QED BY <3>1, <4>1, <4>2, <5>1 DEF AlarmInv, AlarmTypes
      <4>3. CASE latest[d.alarm].inform # d.inform
        BY <3>1, <4>1, <4>3 DEF AlarmInv, AlarmTypes
      <4> QED BY <4>2, <4>3
    <3> QED BY <2>1, <3>1, <3>2, <3>3, <3>4, HeadGone
  <2> QED BY <1>5, <2>2, <2>3
<1>6. ASSUME NEW a \in Alarm,
             \/ \E state \in {"ack", "closed"} : AlarmAck(a, state)
             \/ Escalate(a)
      PROVE  AlarmInv'
  <2> DEFINE SameShown == /\ UNCHANGED <<heldClear, deposits, latest>>
                          /\ \E r \in AlarmRecord : /\ list' = [list EXCEPT ![a] = r]
                                                    /\ ShownOf(r) = ShownOf(list[a])
  <2>1. SameShown
    <3>1. list[a] \in AlarmRecord
      BY DEF AlarmInv, AlarmTypes
    <3>2. CASE Escalate(a)
      <4> DEFINE r == [list[a] EXCEPT !.armed = FALSE, !.escalated = TRUE]
      <4>1. r \in AlarmRecord /\ ShownOf(r) = ShownOf(list[a])
        BY <3>1 DEF AlarmRecord, ShownOf
      <4>2. list' = [list EXCEPT ![a] = r] /\ UNCHANGED <<heldClear, deposits, latest>>
        BY <3>2 DEF Escalate, AlarmInv, AlarmTypes
      <4> QED BY <4>1, <4>2
    <3>3. ASSUME NEW state \in {"ack", "closed"}, AlarmAck(a, state)
          PROVE  SameShown
      <4> DEFINE r == Arm([list[a] EXCEPT !.operator = state])
      <4>1. r \in AlarmRecord /\ ShownOf(r) = ShownOf(list[a])
        BY <3>1 DEF Arm, AlarmRecord, ShownOf
      <4>2. list' = [list EXCEPT ![a] = r] /\ UNCHANGED <<heldClear, deposits, latest>>
        BY <3>3 DEF AlarmAck
      <4> QED BY <4>1, <4>2
    <3> QED BY <1>6, <3>2, <3>3
  <2>2. AlarmTypes'
    BY <2>1 DEF AlarmInv, AlarmTypes
  <2>3. ASSUME NEW b \in Alarm
        PROVE  Shown(b)' = Shown(b)
    BY <2>1 DEF AlarmInv, AlarmTypes, Shown, ShownOf
  <2>4. \A b, k : LastAbout(b, k)' = LastAbout(b, k)
    BY <2>1 DEF LastAbout
  <2> QED BY <2>1, <2>2, <2>3, <2>4 DEF AlarmInv, ListCatchesUp
<1> QED
  BY <1>1, <1>2, <1>3, <1>4, <1>5, <1>6 DEF AlarmNext

\* The operators see of every alarm what the gateway was last told of it once
\* nothing is on its way: HoldDown, InformTracker and AlarmList together, for any
\* alarms, informs and severities and whether or not clears are held back.
THEOREM OperatorsSeeTheLatest == AlarmSpec => []ListShowsTheLatest
<1>1. AlarmInv => ListShowsTheLatest
  <2> SUFFICES ASSUME AlarmInv, deposits = <<>>, NEW a \in Alarm, ~heldClear[a],
                      latest[a].severity # NotStored
               PROVE  Shown(a) = latest[a].severity
    BY DEF ListShowsTheLatest
  <2>1. \A k \in DOMAIN deposits : deposits[k].alarm # a
    OBVIOUS
  <2> QED BY <2>1 DEF AlarmInv, ListCatchesUp
<1> QED BY <1>1, AlarmInitInv, AlarmStepInv, PTL DEF AlarmSpec
-----------------------------------------------------------------------------
(* Subscriptions to a target (Subscriptions)                                *)

LeaseRecord == [device : Watcher \cup {"nobody"}, left : Int, seq : Nat]

WatchRecord ==
  [state : {"none", "pending", "active", "lapsed", "terminated", "rejected"},
   device : Watcher \cup {"nobody"}, left : Nat, seq : Nat, shown : TargetState \cup {"nothing"}]

Ask == [sub : SubNo, device : Watcher, lease : 0 .. MaxLease]

Notice ==
  [sub : SubNo, seq : Nat, state : {"active", "rejected", "terminated"}, told : TargetState]

SubscriptionTypes ==
  /\ target \in TargetState
  /\ leases \in [SubNo -> LeaseRecord]
  /\ watches \in [SubNo -> WatchRecord]
  /\ asked \in Seq(Ask)
  /\ notices \subseteq Notice

Sent(s) == watches[s].state # "none"
Asking(s) == \E i \in DOMAIN asked : asked[i].sub = s
About(s) == {m \in notices : m.sub = s}

\* Subscribes are numbered and decided in the order they are sent in.
InTurn ==
  /\ \A s \in SubNo : IF Sent(s) THEN \A r \in 1 .. s - 1 : Sent(r) ELSE watches[s] = NoWatch
  /\ \A s \in SubNo : Sent(s) /\ ~Asking(s) => \A i \in DOMAIN asked : s < asked[i].sub
  /\ \A i, j \in DOMAIN asked : i < j => asked[i].sub < asked[j].sub
  /\ \A i \in DOMAIN asked : /\ Sent(asked[i].sub)
                             /\ watches[asked[i].sub].device = asked[i].device

\* Nothing is known of a subscribe that is not decided.
Unheard(s) ==
  ~HeldLease(s) /\ About(s) = {} /\ watches[s].seq = 0 /\ watches[s].state \in {"none", "pending"}

\* Who is subscribed knows the target's present state, or a notify of it is on
\* its way and is the latest.
KnowsOrHears(s) ==
  /\ leases[s].seq > 0 /\ leases[s].device = watches[s].device
  /\ watches[s].state \in {"pending", "active", "lapsed"}
  /\ \A m \in About(s) : /\ m.state = "active" /\ m.seq <= leases[s].seq
                         /\ m.seq = leases[s].seq => m.told = target
  /\ watches[s].seq <= leases[s].seq
  /\ IF watches[s].seq = leases[s].seq
     THEN watches[s].state \in {"active", "lapsed"} /\ watches[s].shown = target
     ELSE \E m \in About(s) : m.seq = leases[s].seq

Refused(s) == watches[s].state = "rejected" \/ \E m \in About(s) : m.state = "rejected"

\* The subscriber knows that it is over, or hears it last.
ToldOver(s) ==
  \/ watches[s].state = "terminated"
  \/ \E t \in About(s) : /\ t.state = "terminated" /\ t.seq > watches[s].seq
                         /\ \A m \in About(s) : m # t => m.seq < t.seq

\* A later subscribe of the device was accepted, or ended the subscription.
Superseded(s) ==
  \E r \in s + 1 .. MaxSub :
    Sent(r) /\ ~Asking(r) /\ ~Refused(r) /\ watches[r].device = watches[s].device

NothingToHear(s) == watches[s].state = "pending" /\ About(s) = {}

\* Where subscription s stands, from the subscribe to its end.
Standing(s) ==
  IF ~Sent(s) \/ Asking(s) THEN Unheard(s)
  ELSE IF HeldLease(s) THEN KnowsOrHears(s)
  ELSE Refused(s) \/ ToldOver(s) \/ Superseded(s) \/ NothingToHear(s)

SubscriptionInv == SubscriptionTypes /\ InTurn /\ \A s \in SubNo : Standing(s)

\* What a step leaves of the watch of s when no notify reaches it.
WatchKept(s) ==
  /\ watches'[s].device = watches[s].device /\ watches'[s].seq = watches[s].seq
  /\ watches'[s].shown = watches[s].shown
  /\ \/ watches'[s].state = watches[s].state
     \/ watches[s].state = "active" /\ watches'[s].state = "lapsed"

\* No step refuses an accepted subscribe, or forgets it or whose it is.
DecisionsStand ==
  \A s \in SubNo :
    /\ watches[s].state # "none" => watches'[s].device = watches[s].device
    /\ Sent(s) /\ ~Asking(s) /\ ~Refused(s) => (Sent(s) /\ ~Asking(s) /\ ~Refused(s))'

-----------------------------------------------------------------------------
LEMMA SubscriptionInitInv == SubscriptionInit => SubscriptionInv
<1> SUFFICES ASSUME SubscriptionInit PROVE SubscriptionInv
  OBVIOUS
<1>1. SubscriptionTypes
  BY SubscriptionAssumption
  DEF SubscriptionInit, SubscriptionTypes, LeaseRecord, WatchRecord, NoLease, NoWatch
<1>2. InTurn
  BY DEF SubscriptionInit, InTurn, Sent, Asking, NoWatch
<1>3. \A s \in SubNo : Standing(s)
  BY DEF SubscriptionInit, Standing, Sent, Unheard, HeldLease, About, NoWatch
<1> QED BY <1>1, <1>2, <1>3 DEF SubscriptionInv

LEMMA SupersededStays ==
  ASSUME SubscriptionAssumption, SubscriptionInv, DecisionsStand, NEW s \in SubNo, Sent(s), Superseded(s)
  PROVE  Superseded(s)'
<1>1. PICK r \in s + 1 .. MaxSub :
        Sent(r) /\ ~Asking(r) /\ ~Refused(r) /\ watches[r].device = watches[s].device
  BY DEF Superseded
<1>2. r \in SubNo
  BY <1>1 DEF SubNo
<1>3. watches'[r].device = watches'[s].device
  BY <1>1, <1>2 DEF DecisionsStand, Sent
<1>4. (Sent(r) /\ ~Asking(r) /\ ~Refused(r))'
  BY <1>1, <1>2 DEF DecisionsStand
<1> QED BY <1>3, <1>4 DEF Superseded

\* A subscription that a step does not touch stands where it stood.
LEMMA StandsAsBefore ==
  ASSUME SubscriptionInv, DecisionsStand, NEW s \in SubNo, WatchKept(s),
         About(s)' = About(s), Asking(s)' <=> Asking(s), HeldLease(s)' <=> HeldLease(s),
         HeldLease(s) => /\ target' = target /\ leases'[s].seq = leases[s].seq
                         /\ leases'[s].device = leases[s].device
  PROVE  Standing(s)'
<1>1. Standing(s)
  BY DEF SubscriptionInv
<1>2. Sent(s)' <=> Sent(s)
  BY DEF Sent, WatchKept
<1>3. CASE ~Sent(s) \/ Asking(s)
  BY <1>1, <1>2, <1>3 DEF Standing, Unheard, WatchKept
<1>4. CASE Sent(s) /\ ~Asking(s) /\ HeldLease(s)
  <2>1. KnowsOrHears(s)
    BY <1>1, <1>4 DEF Standing
  <2>2. KnowsOrHears(s)'
    BY <1>4, <2>1 DEF KnowsOrHears, WatchKept
  <2> QED BY <1>2, <1>4, <2>2 DEF Standing
<1>5. CASE Sent(s) /\ ~Asking(s) /\ ~HeldLease(s)
  <2>1. Refused(s) => Refused(s)'
    BY DEF Refused, WatchKept
  <2>2. ToldOver(s) => ToldOver(s)'
    BY DEF ToldOver, WatchKept
  <2>3. NothingToHear(s) => NothingToHear(s)'
    BY DEF NothingToHear, WatchKept
  <2>4. Superseded(s) => Superseded(s)'
    BY <1>5, SubscriptionAssumption, SupersededStays
  <2> QED BY <1>1, <1>2, <1>5, <2>1, <2>2, <2>3, <2>4 DEF Standing
<1> QED BY <1>3, <1>4, <1>5

\* Of a subscription that has been heard of, or is held, the subscribe is decided.
LEMMA HeardOfIsDecided ==
  ASSUME SubscriptionInv, NEW s \in SubNo, HeldLease(s) \/ About(s) # {}
  PROVE  Sent(s) /\ ~Asking(s) /\ (HeldLease(s) => KnowsOrHears(s))
  BY DEF SubscriptionInv, Standing, Unheard

\* When the authority ends a subscription, the notify that says so is the last.
LEMMA EndIsTold ==
  ASSUME SubscriptionInv, NEW s \in SubNo, HeldLease(s), WatchKept(s), UNCHANGED asked,
         About(s)' = About(s) \cup {Notify(s, leases[s].seq + 1, "terminated")}, ~HeldLease(s)'
  PROVE  Standing(s)'
<1> DEFINE t == Notify(s, leases[s].seq + 1, "terminated")
<1>1. Sent(s) /\ ~Asking(s) /\ KnowsOrHears(s)
  BY HeardOfIsDecided
<1>2. leases[s].seq \in Nat /\ \A m \in About(s) : m.seq \in Nat
  BY DEF SubscriptionInv, SubscriptionTypes, LeaseRecord, About, Notice
<1>3. t.state = "terminated" /\ t.seq = leases[s].seq + 1
  BY DEF Notify
<1>4. /\ t \in About(s)' /\ t.seq > watches'[s].seq
      /\ \A m \in About(s)' : m # t => m.seq < t.seq
  BY <1>1, <1>2, <1>3 DEF KnowsOrHears, WatchKept, SubscriptionInv, SubscriptionTypes, WatchRecord
<1>5. ToldOver(s)'
  BY <1>3, <1>4 DEF ToldOver
<1>6. Sent(s)' /\ ~Asking(s)'
  BY <1>1 DEF Sent, WatchKept, Asking
<1> QED BY <1>5, <1>6 DEF Standing

LEMMA SubscribeInv ==
  ASSUME SubscriptionInv, NEW w \in Watcher, NEW lease \in 0 .. MaxLease, Subscribe(w, lease)
  PROVE  SubscriptionInv'
<1>1. PICK x \in SubNo :
        /\ watches[x] = NoWatch /\ \A r \in 1 .. x - 1 : watches[r] # NoWatch
        /\ watches' = [watches EXCEPT ![x] = [NoWatch EXCEPT !.state = "pending", !.device = w,
                                                             !.left = lease]]
        /\ asked' = Append(asked, [sub |-> x, device |-> w, lease |-> lease])
        /\ UNCHANGED <<target, leases, notices>>
  BY DEF Subscribe
<1> DEFINE new == [sub |-> x, device |-> w, lease |-> lease]
<1>a. new \in Ask /\ new.sub = x /\ new.device = w
  BY DEF Ask
<1>b. asked \in Seq(Ask) /\ asked' = Append(asked, new)
  BY <1>1 DEF SubscriptionInv, SubscriptionTypes
<1> HIDE DEF new
<1>2. /\ asked' = Append(asked, new) /\ Len(asked) \in Nat
      /\ DOMAIN asked = 1 .. Len(asked) /\ DOMAIN asked' = 1 .. Len(asked) + 1
      /\ asked'[Len(asked) + 1] = new
      /\ \A i \in DOMAIN asked : asked'[i] = asked[i] /\ asked[i] \in Ask
      /\ asked' \in Seq(Ask)
  BY <1>a, <1>b
<1>c. \A i \in DOMAIN asked : asked[i].sub \in SubNo
  BY <1>2 DEF Ask
<1> DEFINE v == [NoWatch EXCEPT !.state = "pending", !.device = w, !.left = lease]
<1>v. watches' = [watches EXCEPT ![x] = v] /\ v \in WatchRecord
      /\ v.state = "pending" /\ v.seq = 0 /\ v.device = w
  <2>1. lease \in Nat
    BY SubscriptionAssumption
  <2>2. v \in WatchRecord
    BY <2>1 DEF WatchRecord, NoWatch
  <2>3. v.state = "pending" /\ v.seq = 0 /\ v.device = w
    BY DEF NoWatch
  <2> QED BY <1>1, <2>2, <2>3
<1> HIDE DEF v
<1>3. /\ watches'[x].state = "pending" /\ watches'[x].seq = 0 /\ watches'[x].device = w
      /\ \A s \in SubNo \ {x} : watches'[s] = watches[s]
      /\ ~Sent(x)
  BY <1>1, <1>v DEF SubscriptionInv, SubscriptionTypes, NoWatch, Sent
<1>4. SubscriptionTypes'
  BY <1>1, <1>2, <1>v DEF SubscriptionInv, SubscriptionTypes
<1>5. \A s \in SubNo : Asking(s)' <=> (Asking(s) \/ s = x)
  BY <1>2, <1>a DEF Asking
<1>6. \A s \in SubNo : Sent(s)' <=> (Sent(s) \/ s = x)
  <2> SUFFICES ASSUME NEW s \in SubNo PROVE Sent(s)' <=> (Sent(s) \/ s = x)
    OBVIOUS
  <2>1. CASE s = x
    BY <1>3, <2>1 DEF Sent
  <2>2. CASE s # x
    BY <1>3, <2>2 DEF Sent
  <2> QED BY <2>1, <2>2
<1>7. \A s \in SubNo : Sent(s) => s < x
  <2> SUFFICES ASSUME NEW s \in SubNo, Sent(s), s >= x PROVE FALSE
    BY SubscriptionAssumption DEF SubNo
  <2>1. CASE s = x
    BY <1>3, <2>1
  <2>2. CASE s # x
    <3>1. x \in 1 .. s - 1
      BY <2>2, SubscriptionAssumption DEF SubNo
    <3> QED BY <1>3, <3>1 DEF SubscriptionInv, InTurn
  <2> QED BY <2>1, <2>2
<1>8. InTurn'
  <2>1. \A s \in SubNo : IF Sent(s)' THEN \A r \in 1 .. s - 1 : Sent(r)' ELSE watches'[s] = NoWatch
    <3> SUFFICES ASSUME NEW s \in SubNo
                 PROVE  IF Sent(s)' THEN \A r \in 1 .. s - 1 : Sent(r)' ELSE watches'[s] = NoWatch
      OBVIOUS
    <3>1. \A r \in 1 .. s - 1 : r \in SubNo
      BY SubscriptionAssumption DEF SubNo
    <3>2. CASE s = x
      <4>1. \A r \in 1 .. s - 1 : Sent(r)
        BY <1>1, <3>1, <3>2 DEF SubscriptionInv, InTurn
      <4> QED BY <1>6, <3>1, <3>2, <4>1
    <3>3. CASE s # x
      BY <1>3, <1>6, <3>1, <3>3 DEF SubscriptionInv, InTurn
    <3> QED BY <3>2, <3>3
  <2>2. \A s \in SubNo : Sent(s)' /\ ~Asking(s)' => \A i \in DOMAIN asked' : s < asked'[i].sub
    BY <1>2, <1>5, <1>6, <1>7, <1>a DEF SubscriptionInv, InTurn
  <2>3. \A i, j \in DOMAIN asked' : i < j => asked'[i].sub < asked'[j].sub
    BY <1>2, <1>7, <1>a, <1>c DEF SubscriptionInv, InTurn
  <2>4. \A i \in DOMAIN asked' : /\ watches'[asked'[i].sub].state # "none"
                                 /\ watches'[asked'[i].sub].device = asked'[i].device
    BY <1>2, <1>3, <1>7, <1>a, <1>c DEF SubscriptionInv, InTurn, Sent
  <2> QED BY <2>1, <2>2, <2>3, <2>4 DEF InTurn, Sent
<1>9. \A s : About(s)' = About(s)
  BY <1>1 DEF About
<1>10. DecisionsStand
  BY <1>3, <1>5, <1>6, <1>9 DEF DecisionsStand, Refused, Sent
<1>11. \A s \in SubNo : Standing(s)'
  <2> SUFFICES ASSUME NEW s \in SubNo PROVE Standing(s)'
    OBVIOUS
  <2>1. HeldLease(s)' <=> HeldLease(s)
    BY <1>1 DEF HeldLease
  <2>2. CASE s = x
    <3>1. Unheard(s)
      BY <1>3, <2>2 DEF SubscriptionInv, Standing
    <3> QED BY <1>3, <1>5, <1>9, <2>1, <2>2, <3>1 DEF Standing, Unheard
  <2>3. CASE s # x
    <3>1. WatchKept(s) /\ (Asking(s)' <=> Asking(s)) /\ target' = target /\ leases' = leases
      BY <1>1, <1>3, <1>5, <2>3 DEF WatchKept
    <3> QED BY <1>9, <1>10, <2>1, <3>1, StandsAsBefore
  <2> QED BY <2>2, <2>3
<1> QED BY <1>4, <1>8, <1>11 DEF SubscriptionInv

\* Turns are kept by a step that sends no subscribe and decides none.
LEMMA TurnsStay ==
  ASSUME SubscriptionInv, UNCHANGED asked,
         \A s \in SubNo : IF Sent(s) THEN Sent(s)' /\ watches'[s].device = watches[s].device
                          ELSE watches'[s] = watches[s]
  PROVE  InTurn'
<1>1. \A i \in DOMAIN asked : asked[i].sub \in SubNo
  <2>1. asked \in Seq(Ask)
    BY DEF SubscriptionInv, SubscriptionTypes
  <2>2. \A i \in DOMAIN asked : asked[i] \in Ask
    BY <2>1
  <2> QED BY <2>2 DEF Ask
<1>2. \A s \in SubNo : \A r \in 1 .. s - 1 : r \in SubNo
  BY SubscriptionAssumption DEF SubNo
<1>3. \A s \in SubNo : Sent(s)' <=> Sent(s)
  BY DEF Sent
<1>4. \A s : Asking(s)' <=> Asking(s)
  BY DEF Asking
<1>5. \A s \in SubNo : IF Sent(s)' THEN \A r \in 1 .. s - 1 : Sent(r)' ELSE watches'[s] = NoWatch
  BY <1>2, <1>3 DEF SubscriptionInv, InTurn
<1>6. \A i \in DOMAIN asked : /\ watches'[asked[i].sub].state # "none"
                              /\ watches'[asked[i].sub].device = asked[i].device
  BY <1>1 DEF SubscriptionInv, InTurn, Sent
<1> QED BY <1>3, <1>4, <1>5, <1>6 DEF SubscriptionInv, InTurn, Sent

LEMMA ReceiveNoticeInv ==
  ASSUME SubscriptionInv, NEW m \in notices, ReceiveNotice(m)
  PROVE  SubscriptionInv'
<1> DEFINE x == m.sub
<1>1. /\ m \in Notice /\ x \in SubNo /\ m \in About(x)
      /\ watches[x] \in WatchRecord /\ m.seq \in Nat /\ watches[x].seq \in Nat
      /\ m.state \in {"active", "rejected", "terminated"} /\ m.told \in TargetState
  BY DEF SubscriptionInv, SubscriptionTypes, Notice, About, WatchRecord
<1>2. Sent(x) /\ ~Asking(x) /\ (HeldLease(x) => KnowsOrHears(x))
  BY <1>1, HeardOfIsDecided
<1>3. /\ notices' = notices \ {m} /\ UNCHANGED <<target, leases, asked>>
      /\ \A s \in SubNo \ {x} : watches'[s] = watches[s]
      /\ watches'[x].device = watches[x].device
      /\ watches' \in [SubNo -> WatchRecord]
      /\ IF m.state = "rejected"
         THEN watches'[x].state = "rejected" /\ watches'[x].seq = watches[x].seq
         ELSE IF Heeds(m)
         THEN /\ watches'[x].state = m.state /\ watches'[x].seq = m.seq
              /\ m.state = "active" => watches'[x].shown = m.told
         ELSE watches'[x] = watches[x]
  <2>1. notices' = notices \ {m} /\ UNCHANGED <<target, leases, asked>>
    BY DEF ReceiveNotice
  <2>2. watches \in [SubNo -> WatchRecord]
    BY DEF SubscriptionInv, SubscriptionTypes
  <2>3. CASE m.state = "rejected"
    <3>1. watches' = [watches EXCEPT ![x].state = "rejected"]
      BY <2>3 DEF ReceiveNotice, Heeds
    <3> QED BY <1>1, <2>1, <2>2, <2>3, <3>1 DEF WatchRecord
  <2>4. CASE m.state # "rejected" /\ Heeds(m)
    <3>1. watches' = [watches EXCEPT ![x].state = m.state, ![x].seq = m.seq,
                       ![x].shown = IF m.state = "active" THEN m.told ELSE @]
      BY <2>4 DEF ReceiveNotice
    <3> DEFINE v == [watches[x] EXCEPT !.state = m.state, !.seq = m.seq,
                       !.shown = IF m.state = "active" THEN m.told ELSE @]
    <3>2. watches' = [watches EXCEPT ![x] = v]
      BY <1>1, <2>2, <3>1
    <3>3. /\ v \in WatchRecord /\ v.state = m.state /\ v.seq = m.seq /\ v.device = watches[x].device
          /\ m.state = "active" => v.shown = m.told
      BY <1>1 DEF WatchRecord
    <3> HIDE DEF v
    <3> QED BY <1>1, <2>1, <2>2, <2>4, <3>2, <3>3
  <2>5. CASE m.state # "rejected" /\ ~Heeds(m)
    <3>1. watches' = watches
      BY <2>5 DEF ReceiveNotice
    <3> QED BY <2>1, <2>2, <2>5, <3>1
  <2> QED BY <2>3, <2>4, <2>5
<1>4. SubscriptionTypes'
  BY <1>3 DEF SubscriptionInv, SubscriptionTypes
<1>5. Sent(x)'
  BY <1>1, <1>2, <1>3 DEF Sent
<1>6. InTurn'
  <2>1. \A s \in SubNo : IF Sent(s) THEN Sent(s)' /\ watches'[s].device = watches[s].device
                         ELSE watches'[s] = watches[s]
    BY <1>1, <1>2, <1>3, <1>5 DEF Sent
  <2> QED BY <1>3, <2>1, TurnsStay
<1>7. /\ \A s : Asking(s)' <=> Asking(s)
      /\ \A s : HeldLease(s)' <=> HeldLease(s)
      /\ \A s : s # x => About(s)' = About(s)
      /\ About(x)' = About(x) \ {m}
  BY <1>3 DEF Asking, HeldLease, About
<1>8. DecisionsStand
  <2> SUFFICES ASSUME NEW s \in SubNo, Sent(s), ~Asking(s), ~Refused(s)
               PROVE  (Sent(s) /\ ~Asking(s) /\ ~Refused(s))'
    BY <1>3 DEF DecisionsStand
  <2>1. CASE s = x
    <3>1. m.state # "rejected"
      BY <1>1, <2>1 DEF Refused
    <3>2. watches'[x].state # "rejected"
      BY <1>3, <2>1, <3>1 DEF Refused, Heeds
    <3> QED BY <1>5, <1>7, <2>1, <3>2 DEF Refused
  <2>2. CASE s # x
    BY <1>3, <1>7, <2>2 DEF Sent, Refused
  <2> QED BY <2>1, <2>2
<1>9. ASSUME NEW s \in SubNo, s # x
      PROVE  Standing(s)'
  <2>1. WatchKept(s)
    BY <1>3, <1>9 DEF WatchKept
  <2> QED BY <1>3, <1>7, <1>8, <1>9, <2>1, StandsAsBefore
<1>10. Standing(x)'
  <2>1. CASE HeldLease(x)
    <3>1. KnowsOrHears(x) /\ m.state = "active" /\ m.seq <= leases[x].seq
          /\ leases[x].seq \in Nat
      BY <1>1, <1>2, <2>1 DEF KnowsOrHears, SubscriptionInv, SubscriptionTypes, LeaseRecord
    <3>2. CASE Heeds(m)
      <4>1. watches[x].seq # leases[x].seq
        BY <1>1, <3>1, <3>2 DEF Heeds
      <4>2. PICK n \in About(x) : n.seq = leases[x].seq
        BY <3>1, <4>1 DEF KnowsOrHears
      <4>3. CASE m.seq = leases[x].seq
        <5>1. m.told = target
          BY <1>1, <3>1, <4>3 DEF KnowsOrHears
        <5>2. KnowsOrHears(x)'
          BY <1>1, <1>3, <1>7, <3>1, <3>2, <4>3, <5>1 DEF KnowsOrHears
        <5> QED BY <1>2, <1>5, <1>7, <2>1, <5>2 DEF Standing
      <4>4. CASE m.seq # leases[x].seq
        <5>1. n \in About(x)'
          BY <1>7, <4>2, <4>4
        <5>2. KnowsOrHears(x)'
          BY <1>1, <1>3, <1>7, <3>1, <3>2, <4>2, <4>4, <5>1 DEF KnowsOrHears
        <5> QED BY <1>2, <1>5, <1>7, <2>1, <5>2 DEF Standing
      <4> QED BY <4>3, <4>4
    <3>3. CASE ~Heeds(m)
      <4>1. watches'[x] = watches[x]
        BY <1>3, <3>1, <3>3
      <4>2. m.seq <= watches[x].seq
        BY <1>1, <3>1, <3>3 DEF Heeds, KnowsOrHears
      <4>3. ASSUME watches[x].seq # leases[x].seq
            PROVE  \E n \in About(x)' : n.seq = leases[x].seq
        <5>1. PICK n \in About(x) : n.seq = leases[x].seq
          BY <3>1, <4>3 DEF KnowsOrHears
        <5>2. n # m
          BY <1>1, <3>1, <4>2, <4>3, <5>1 DEF KnowsOrHears
        <5> QED BY <1>7, <5>1, <5>2
      <4>4. KnowsOrHears(x)'
        BY <1>3, <1>7, <3>1, <4>1, <4>3 DEF KnowsOrHears
      <4> QED BY <1>2, <1>5, <1>7, <2>1, <4>4 DEF Standing
    <3> QED BY <3>2, <3>3
  <2>2. CASE ~HeldLease(x)
    <3>1. Refused(x) \/ ToldOver(x) \/ Superseded(x) \/ NothingToHear(x)
      BY <1>1, <1>2, <2>2 DEF SubscriptionInv, Standing
    <3>2. CASE m.state = "rejected"
      BY <1>2, <1>3, <1>5, <1>7, <2>2, <3>2 DEF Standing, Refused
    <3>3. CASE Refused(x) /\ m.state # "rejected"
      <4>1. Refused(x)'
        BY <1>3, <1>7, <3>3 DEF Refused, Heeds
      <4> QED BY <1>2, <1>5, <1>7, <2>2, <4>1 DEF Standing
    <3>4. CASE ToldOver(x) /\ ~Refused(x) /\ m.state # "rejected"
      <4>1. CASE watches[x].state = "terminated"
        BY <1>2, <1>3, <1>5, <1>7, <2>2, <3>4, <4>1 DEF Standing, ToldOver, Heeds
      <4>2. CASE watches[x].state # "terminated"
        <5>1. PICK t \in About(x) : /\ t.state = "terminated" /\ t.seq > watches[x].seq
                                    /\ \A n \in About(x) : n # t => n.seq < t.seq
          BY <3>4, <4>2 DEF ToldOver
        <5>2. CASE t = m
          <6>1. Heeds(m)
            BY <1>1, <3>4, <4>2, <5>1, <5>2 DEF Heeds, Refused
          <6> QED BY <1>2, <1>3, <1>5, <1>7, <2>2, <3>4, <5>1, <5>2, <6>1 DEF Standing, ToldOver
        <5>3. CASE t # m
          <6>1. t \in About(x)' /\ t.seq > m.seq
            BY <1>1, <1>7, <5>1, <5>3
          <6>2. t.seq > watches'[x].seq
            BY <1>3, <3>4, <5>1, <6>1
          <6>3. ToldOver(x)'
            BY <1>7, <5>1, <6>1, <6>2 DEF ToldOver
          <6> QED BY <1>2, <1>5, <1>7, <2>2, <6>3 DEF Standing
        <5> QED BY <5>2, <5>3
      <4> QED BY <4>1, <4>2
    <3>5. CASE Superseded(x)
      <4>1. Superseded(x)'
        BY <1>1, <1>2, <1>8, <3>5, SubscriptionAssumption, SupersededStays
      <4> QED BY <1>2, <1>5, <1>7, <2>2, <4>1 DEF Standing
    <3>6. CASE NothingToHear(x)
      BY <1>1, <3>6 DEF NothingToHear
    <3> QED BY <3>1, <3>2, <3>3, <3>4, <3>5, <3>6
  <2> QED BY <2>1, <2>2
<1> QED BY <1>4, <1>6, <1>9, <1>10 DEF SubscriptionInv

LEMMA RecvSubscribeInv ==
  ASSUME SubscriptionInv, RecvSubscribe
  PROVE  SubscriptionInv'
<1>0. PICK m : m = Head(asked)
  OBVIOUS
<1> DEFINE x == m.sub
<1>1. /\ asked \in Seq(Ask) /\ asked # <<>> /\ asked' = Tail(asked)
      /\ UNCHANGED <<target, watches>>
  BY DEF RecvSubscribe, SubscriptionInv, SubscriptionTypes
<1>2. /\ m \in Ask /\ m = asked[1] /\ 1 \in DOMAIN asked /\ asked' \in Seq(Ask)
      /\ Len(asked) \in Nat /\ DOMAIN asked = 1 .. Len(asked)
      /\ DOMAIN asked' = 1 .. Len(asked) - 1
      /\ \A i \in DOMAIN asked' : asked'[i] = asked[i + 1] /\ i + 1 \in DOMAIN asked
      /\ \A i \in DOMAIN asked : i # 1 => i - 1 \in DOMAIN asked' /\ asked'[i - 1] = asked[i]
  BY <1>0, <1>1
<1>3. x \in SubNo /\ m.device \in Watcher /\ m.lease \in 0 .. MaxLease
  BY <1>2 DEF Ask
<1> DEFINE lease == [device |-> m.device, left |-> m.lease, seq |-> 1]
<1>4. \/ leases' = Without(Existing(m.device)) /\ UNCHANGED notices
      \/ notices' = notices \cup {Notify(x, 0, "rejected")} /\ UNCHANGED leases
      \/ /\ leases' = [Without(Existing(m.device)) EXCEPT ![x] = lease]
         /\ notices' = notices \cup {Notify(x, 1, "active")}
  BY <1>0 DEF RecvSubscribe
<1>5. lease \in LeaseRecord /\ lease # NoLease /\ lease.seq = 1 /\ lease.device = m.device
  <2>1. m.lease \in Nat
    BY <1>3, SubscriptionAssumption
  <2> QED BY <1>3, <2>1 DEF LeaseRecord, NoLease
<1> HIDE DEF lease
<1>6. /\ leases \in [SubNo -> LeaseRecord] /\ notices \subseteq Notice
      /\ Without(Existing(m.device)) \in [SubNo -> LeaseRecord]
      /\ \A s \in SubNo : Without(Existing(m.device))[s] =
                            IF s \in Existing(m.device) THEN NoLease ELSE leases[s]
      /\ \A n \in {0, 1}, state \in {"active", "rejected"} :
           /\ Notify(x, n, state) \in Notice /\ Notify(x, n, state).sub = x
           /\ Notify(x, n, state).state = state /\ Notify(x, n, state).seq = n
           /\ Notify(x, n, state).told = target
  BY <1>3 DEF SubscriptionInv, SubscriptionTypes, Without, LeaseRecord, NoLease, Notify, Notice
<1>7. SubscriptionTypes'
  <2>1. leases' \in [SubNo -> LeaseRecord] /\ notices' \subseteq Notice
    BY <1>4, <1>5, <1>6
  <2> QED BY <1>1, <1>2, <2>1 DEF SubscriptionInv, SubscriptionTypes
<1>8. /\ \A i, j \in DOMAIN asked : i < j => asked[i].sub < asked[j].sub
      /\ \A i \in DOMAIN asked : asked[i].sub \in Nat
  <2>1. \A i \in DOMAIN asked : asked[i] \in Ask
    BY <1>1
  <2> QED BY <2>1, SubscriptionAssumption DEF SubscriptionInv, InTurn, Ask, SubNo
<1>9. \A s : Asking(s)' <=> (Asking(s) /\ s # x)
  <2> SUFFICES ASSUME NEW s PROVE Asking(s)' <=> (Asking(s) /\ s # x)
    OBVIOUS
  <2>1. ASSUME NEW i \in DOMAIN asked', asked'[i].sub = s
        PROVE  Asking(s) /\ s # x
    <3>1. i + 1 \in DOMAIN asked /\ asked[i + 1].sub = s /\ 1 < i + 1
      BY <1>2, <2>1
    <3> QED BY <1>2, <1>8, <3>1 DEF Asking
  <2>2. ASSUME NEW i \in DOMAIN asked, asked[i].sub = s, s # x
        PROVE  Asking(s)'
    <3>1. i # 1 /\ i - 1 \in DOMAIN asked' /\ asked'[i - 1].sub = s
      BY <1>2, <2>2
    <3> QED BY <3>1 DEF Asking
  <2> QED BY <2>1, <2>2 DEF Asking
<1>10. Sent(x) /\ Asking(x) /\ Unheard(x) /\ watches[x].device = m.device
  <2>1. Sent(x) /\ Asking(x) /\ watches[x].device = m.device
    BY <1>2 DEF SubscriptionInv, InTurn, Asking
  <2> QED BY <1>3, <2>1 DEF SubscriptionInv, Standing
<1>11. InTurn'
  <2>1. \A s \in SubNo : IF Sent(s)' THEN \A r \in 1 .. s - 1 : Sent(r)' ELSE watches'[s] = NoWatch
    BY <1>1 DEF SubscriptionInv, InTurn, Sent
  <2>2. ASSUME NEW s \in SubNo, Sent(s)', ~Asking(s)', NEW i \in DOMAIN asked'
        PROVE  s < asked'[i].sub
    <3>1. Sent(s)
      BY <1>1, <2>2 DEF Sent
    <3>2. CASE s = x
      <4>1. asked'[i] = asked[i + 1] /\ i + 1 \in DOMAIN asked /\ 1 < i + 1
        BY <1>2
      <4>2. s = asked[1].sub
        BY <1>2, <3>2
      <4> QED BY <1>2, <1>8, <4>1, <4>2
    <3>3. CASE s # x
      <4>1. ~Asking(s)
        BY <1>9, <2>2, <3>3
      <4>2. \A j \in DOMAIN asked : s < asked[j].sub
        BY <3>1, <4>1 DEF SubscriptionInv, InTurn
      <4> QED BY <1>2, <4>2
    <3> QED BY <3>2, <3>3
  <2>3. \A i, j \in DOMAIN asked' : i < j => asked'[i].sub < asked'[j].sub
    BY <1>2, <1>8
  <2>4. \A i \in DOMAIN asked' : /\ watches'[asked'[i].sub].state # "none"
                                 /\ watches'[asked'[i].sub].device = asked'[i].device
    BY <1>1, <1>2 DEF SubscriptionInv, InTurn, Sent
  <2> QED BY <2>1, <2>2, <2>3, <2>4 DEF InTurn, Sent
<1>12. \A s : s # x => About(s)' = About(s)
  BY <1>4, <1>6 DEF About
<1>13. DecisionsStand
  <2> SUFFICES ASSUME NEW s \in SubNo, Sent(s), ~Asking(s), ~Refused(s)
               PROVE  (Sent(s) /\ ~Asking(s) /\ ~Refused(s))'
    BY <1>1 DEF DecisionsStand
  <2>1. s # x
    BY <1>10
  <2> QED BY <1>1, <1>9, <1>12, <2>1 DEF Sent, Refused
<1>14. ASSUME NEW s \in SubNo, s # x, leases'[s] = leases[s]
       PROVE  Standing(s)'
  <2>1. WatchKept(s) /\ (Asking(s)' <=> Asking(s)) /\ (HeldLease(s)' <=> HeldLease(s))
    BY <1>1, <1>9, <1>14 DEF WatchKept, HeldLease
  <2> QED BY <1>1, <1>12, <1>13, <1>14, <2>1, StandsAsBefore
\* x is decided and not refused, so that it supersedes what its device had.
<1>15. ASSUME notices' = notices \/ notices' = notices \cup {Notify(x, 1, "active")},
              NEW s \in SubNo, s \in Existing(m.device), leases'[s] = NoLease
       PROVE  Standing(s)'
  <2>1. HeldLease(s) /\ leases[s].device = m.device
    BY <1>15 DEF Existing
  <2>2. Sent(s) /\ ~Asking(s) /\ watches[s].device = m.device
    BY <2>1, HeardOfIsDecided DEF KnowsOrHears
  <2>3. s < x
    BY <1>2, <2>2 DEF SubscriptionInv, InTurn
  <2>4. x \in s + 1 .. MaxSub
    BY <1>3, <2>3, SubscriptionAssumption DEF SubNo
  <2>5. Sent(x)' /\ ~Asking(x)' /\ watches'[x].device = watches'[s].device
    BY <1>1, <1>9, <1>10, <2>2 DEF Sent
  <2>6. ~Refused(x)'
    <3>1. \A n \in About(x)' : n.state = "active"
      BY <1>6, <1>10, <1>15 DEF About, Unheard
    <3> QED BY <1>1, <1>10, <3>1 DEF Refused, Unheard
  <2>7. Superseded(s)'
    BY <2>4, <2>5, <2>6 DEF Superseded
  <2>8. Sent(s)' /\ ~Asking(s)' /\ ~HeldLease(s)'
    BY <1>1, <1>9, <1>15, <2>2 DEF Sent, HeldLease
  <2> QED BY <2>7, <2>8 DEF Standing
<1>16. Sent(x)' /\ ~Asking(x)' /\ ~HeldLease(x) /\ x \notin Existing(m.device)
  BY <1>1, <1>9, <1>10 DEF Sent, Unheard, Existing
<1>17. ASSUME NEW s \in SubNo
       PROVE  Standing(s)'
  <2>1. CASE leases' = Without(Existing(m.device)) /\ UNCHANGED notices
    <3>1. CASE s = x
      <4>1. ~HeldLease(x)'
        BY <1>3, <1>6, <1>16, <2>1 DEF HeldLease
      <4>2. About(x)' = {}
        BY <1>10, <2>1 DEF About, Unheard
      <4>3. watches'[x].state = "pending"
        BY <1>1, <1>10 DEF Unheard, Sent
      <4> QED BY <1>16, <3>1, <4>1, <4>2, <4>3 DEF Standing, NothingToHear
    <3>2. CASE s # x /\ s \in Existing(m.device)
      BY <1>6, <1>15, <2>1, <3>2
    <3>3. CASE s # x /\ s \notin Existing(m.device)
      BY <1>6, <1>14, <2>1, <3>3
    <3> QED BY <3>1, <3>2, <3>3
  <2>2. CASE notices' = notices \cup {Notify(x, 0, "rejected")} /\ UNCHANGED leases
    <3>1. CASE s = x
      <4>1. Notify(x, 0, "rejected") \in About(x)'
        BY <1>6, <2>2 DEF About
      <4>2. Refused(x)' /\ ~HeldLease(x)'
        BY <1>6, <1>16, <2>2, <4>1 DEF Refused, HeldLease
      <4> QED BY <1>16, <3>1, <4>2 DEF Standing
    <3>2. CASE s # x
      BY <1>14, <2>2, <3>2
    <3> QED BY <3>1, <3>2
  <2>3. CASE /\ leases' = [Without(Existing(m.device)) EXCEPT ![x] = lease]
             /\ notices' = notices \cup {Notify(x, 1, "active")}
    <3>1. CASE s = x
      <4>1. leases'[x] = lease
        BY <1>3, <1>6, <2>3
      <4>2. About(x)' = {Notify(x, 1, "active")}
        BY <1>6, <1>10, <2>3 DEF About, Unheard
      <4>3. watches'[x].state = "pending" /\ watches'[x].seq = 0 /\ watches'[x].device = m.device
        BY <1>1, <1>10 DEF Unheard, Sent
      <4>4. KnowsOrHears(x)' /\ HeldLease(x)'
        BY <1>1, <1>5, <1>6, <4>1, <4>2, <4>3 DEF KnowsOrHears, HeldLease
      <4> QED BY <1>16, <3>1, <4>4 DEF Standing
    <3>2. CASE s # x /\ s \in Existing(m.device)
      BY <1>6, <1>15, <2>3, <3>2
    <3>3. CASE s # x /\ s \notin Existing(m.device)
      BY <1>6, <1>14, <2>3, <3>3
    <3> QED BY <3>1, <3>2, <3>3
  <2> QED BY <1>4, <2>1, <2>2, <2>3
<1> QED BY <1>7, <1>11, <1>17 DEF SubscriptionInv

LEMMA TargetChangesInv ==
  ASSUME SubscriptionInv, NEW state \in TargetState, TargetChanges(state)
  PROVE  SubscriptionInv'
<1> DEFINE new(s) == [Notify(s, leases[s].seq + 1, "active") EXCEPT !.told = state]
<1>1. /\ target' = state /\ UNCHANGED <<watches, asked>>
      /\ leases' = [s \in SubNo |-> IF HeldLease(s) THEN [leases[s] EXCEPT !.seq = @ + 1]
                                    ELSE leases[s]]
      /\ notices' = notices \cup {new(s) : s \in {r \in SubNo : HeldLease(r)}}
  BY DEF TargetChanges
<1>2. /\ leases \in [SubNo -> LeaseRecord] /\ notices \subseteq Notice
      /\ watches \in [SubNo -> WatchRecord] /\ target \in TargetState
  BY DEF SubscriptionInv, SubscriptionTypes
<1>3. \A s \in SubNo : /\ new(s) \in Notice /\ new(s).sub = s /\ new(s).state = "active"
                       /\ new(s).seq = leases[s].seq + 1 /\ new(s).told = state
  <2> SUFFICES ASSUME NEW s \in SubNo
               PROVE  /\ new(s) \in Notice /\ new(s).sub = s /\ new(s).state = "active"
                      /\ new(s).seq = leases[s].seq + 1 /\ new(s).told = state
    OBVIOUS
  <2>1. leases[s].seq + 1 \in Nat
    BY <1>2 DEF LeaseRecord
  <2> QED BY <1>2, <2>1 DEF Notify, Notice
<1> HIDE DEF new
<1>4. SubscriptionTypes'
  <2>1. leases' \in [SubNo -> LeaseRecord]
    BY <1>1, <1>2 DEF LeaseRecord
  <2>2. notices' \subseteq Notice
    BY <1>1, <1>2, <1>3
  <2> QED BY <1>1, <2>1, <2>2 DEF SubscriptionInv, SubscriptionTypes
<1>5. InTurn'
  <2>1. \A s : Sent(s)' <=> Sent(s)
    BY <1>1 DEF Sent
  <2> QED BY <1>1, <2>1, TurnsStay
<1>6. \A s \in SubNo : About(s)' = IF HeldLease(s) THEN About(s) \cup {new(s)} ELSE About(s)
  BY <1>1, <1>3 DEF About
<1>7. \A s \in SubNo : HeldLease(s)' <=> HeldLease(s)
  <2> SUFFICES ASSUME NEW s \in SubNo PROVE HeldLease(s)' <=> HeldLease(s)
    OBVIOUS
  <2>1. CASE ~HeldLease(s)
    BY <1>1, <2>1 DEF HeldLease
  <2>2. CASE HeldLease(s)
    <3>1. leases'[s].seq = leases[s].seq + 1 /\ leases[s].seq \in Nat
      BY <1>1, <1>2, <2>2 DEF LeaseRecord
    <3>2. leases'[s].seq # NoLease.seq
      BY <3>1 DEF NoLease
    <3> QED BY <2>2, <3>2 DEF HeldLease
  <2> QED BY <2>1, <2>2
<1>8. DecisionsStand
  BY <1>1, <1>3, <1>6 DEF DecisionsStand, Sent, Asking, Refused
<1>9. ASSUME NEW s \in SubNo
      PROVE  Standing(s)'
  <2>1. WatchKept(s) /\ (Asking(s)' <=> Asking(s)) /\ (Sent(s)' <=> Sent(s))
    BY <1>1 DEF WatchKept, Asking, Sent
  <2>2. CASE ~HeldLease(s)
    BY <1>6, <1>7, <1>8, <2>1, <2>2, StandsAsBefore
  <2>3. CASE HeldLease(s)
    <3>1. Sent(s) /\ ~Asking(s) /\ KnowsOrHears(s)
      BY <2>3, HeardOfIsDecided
    <3>2. /\ leases'[s].seq = leases[s].seq + 1 /\ leases[s].seq \in Nat
          /\ leases'[s].device = leases[s].device /\ watches[s].seq \in Nat
          /\ \A m \in About(s) : m.seq \in Nat
      BY <1>1, <1>2, <2>3 DEF LeaseRecord, WatchRecord, About, Notice
    <3>3. About(s)' = About(s) \cup {new(s)}
      BY <1>6, <2>3
    <3>4. KnowsOrHears(s)'
      BY <1>1, <1>3, <3>1, <3>2, <3>3 DEF KnowsOrHears
    <3> QED BY <1>7, <2>1, <2>3, <3>1, <3>4 DEF Standing
  <2> QED BY <2>2, <2>3
<1> QED BY <1>4, <1>5, <1>9 DEF SubscriptionInv

\* Steps of the authority that end the subscriptions in S, while at the subscriber
\* no more happens than that some lapse.
LEMMA EndingInv ==
  ASSUME SubscriptionInv, NEW S \in SUBSET SubNo, \A s \in S : HeldLease(s),
         UNCHANGED <<target, asked>>, notices' = notices \cup Ended(S),
         leases' \in [SubNo -> LeaseRecord], watches' \in [SubNo -> WatchRecord],
         \A s \in SubNo : /\ WatchKept(s)
                          /\ ~Sent(s) => watches'[s] = watches[s]
                          /\ s \in S => leases'[s] = NoLease
                          /\ s \notin S => /\ HeldLease(s)' <=> HeldLease(s)
                                           /\ leases'[s].seq = leases[s].seq
                                           /\ leases'[s].device = leases[s].device
  PROVE  SubscriptionInv'
<1> DEFINE end(s) == Notify(s, leases[s].seq + 1, "terminated")
<1>1. /\ leases \in [SubNo -> LeaseRecord] /\ notices \subseteq Notice /\ target \in TargetState
  BY DEF SubscriptionInv, SubscriptionTypes
<1>2. \A s \in SubNo : end(s) \in Notice /\ end(s).sub = s /\ end(s).state = "terminated"
  <2> SUFFICES ASSUME NEW s \in SubNo
               PROVE  end(s) \in Notice /\ end(s).sub = s /\ end(s).state = "terminated"
    OBVIOUS
  <2>1. leases[s].seq + 1 \in Nat
    BY <1>1 DEF LeaseRecord
  <2> QED BY <1>1, <2>1 DEF Notify, Notice
<1>3. notices' = notices \cup {end(s) : s \in S}
  BY DEF Ended
<1> HIDE DEF end
<1>4. SubscriptionTypes'
  BY <1>1, <1>2, <1>3 DEF SubscriptionInv, SubscriptionTypes
<1>5. \A s \in SubNo : /\ Sent(s)' <=> Sent(s)
                       /\ Asking(s)' <=> Asking(s)
                       /\ watches'[s].device = watches[s].device
                       /\ watches'[s].state = "rejected" <=> watches[s].state = "rejected"
  BY DEF Sent, WatchKept, Asking
<1>6. InTurn'
  BY <1>5, TurnsStay
<1>7. \A s \in SubNo : About(s)' = IF s \in S THEN About(s) \cup {end(s)} ELSE About(s)
  BY <1>2, <1>3 DEF About
<1>8. DecisionsStand
  BY <1>2, <1>5, <1>7 DEF DecisionsStand, Refused
<1>9. ASSUME NEW s \in SubNo
      PROVE  Standing(s)'
  <2>1. CASE s \in S
    <3>1. ~HeldLease(s)'
      BY <2>1 DEF HeldLease
    <3> QED BY <1>7, <2>1, <3>1, EndIsTold DEF end
  <2>2. CASE s \notin S
    BY <1>5, <1>7, <1>8, <2>2, StandsAsBefore
  <2> QED BY <2>1, <2>2
<1> QED BY <1>4, <1>6, <1>9 DEF SubscriptionInv

LEMMA TerminateInv ==
  ASSUME SubscriptionInv, NEW x \in SubNo, Terminate(x)
  PROVE  SubscriptionInv'
<1>1. /\ HeldLease(x) /\ leases' = Without({x}) /\ notices' = notices \cup Ended({x})
      /\ UNCHANGED <<target, watches, asked>>
  BY DEF Terminate
<1>2. leases \in [SubNo -> LeaseRecord] /\ watches \in [SubNo -> WatchRecord]
  BY DEF SubscriptionInv, SubscriptionTypes
<1>3. leases' \in [SubNo -> LeaseRecord]
  BY <1>1, <1>2 DEF Without, LeaseRecord, NoLease
<1>4. \A s \in SubNo : leases'[s] = IF s = x THEN NoLease ELSE leases[s]
  BY <1>1 DEF Without
<1>5. \A s \in SubNo : /\ WatchKept(s)
                       /\ s # x => (HeldLease(s)' <=> HeldLease(s))
  BY <1>1, <1>4 DEF WatchKept, HeldLease
<1> QED BY <1>1, <1>2, <1>3, <1>4, <1>5, EndingInv

LEMMA SubscriptionClockInv ==
  ASSUME SubscriptionInv, SubscriptionClock
  PROVE  SubscriptionInv'
<1> DEFINE due == {s \in SubNo : HeldLease(s) /\ leases[s].left = 1}
           left(s) == IF watches[s].left > 0 THEN watches[s].left - 1 ELSE 0
           v(s) == [watches[s] EXCEPT !.left = left(s),
                      !.state = IF @ = "active" /\ left(s) = 0 THEN "lapsed" ELSE @]
<1>1. /\ leases' = [s \in SubNo |-> IF HeldLease(s) /\ s \notin due
                                    THEN [leases[s] EXCEPT !.left = @ - 1] ELSE NoLease]
      /\ notices' = notices \cup Ended(due)
      /\ watches' = [s \in SubNo |-> v(s)]
      /\ UNCHANGED <<target, asked>>
  BY DEF SubscriptionClock
<1>2. leases \in [SubNo -> LeaseRecord] /\ watches \in [SubNo -> WatchRecord]
  BY DEF SubscriptionInv, SubscriptionTypes
<1>3. ASSUME NEW s \in SubNo
      PROVE  /\ watches'[s] \in WatchRecord /\ WatchKept(s)
             /\ ~Sent(s) => watches'[s] = watches[s]
  <2>1. watches[s] \in WatchRecord /\ watches'[s] = v(s)
    BY <1>1, <1>2
  <2>2. watches[s].left \in Nat /\ left(s) \in Nat
    BY <2>1 DEF WatchRecord
  <2>3. v(s) \in WatchRecord
    BY <2>1, <2>2 DEF WatchRecord
  <2>4. WatchKept(s)
    BY <2>1 DEF WatchKept, WatchRecord
  <2>5. ASSUME ~Sent(s)
        PROVE  v(s) = watches[s]
    <3>1. watches[s] = NoWatch
      BY <2>5 DEF SubscriptionInv, InTurn
    <3>2. left(s) = watches[s].left
      BY <3>1 DEF NoWatch
    <3> QED BY <2>1, <2>5, <3>2 DEF WatchRecord, Sent
  <2> QED BY <2>1, <2>3, <2>4, <2>5
<1>4. ASSUME NEW s \in SubNo
      PROVE  /\ leases'[s] \in LeaseRecord
             /\ s \in due => leases'[s] = NoLease
             /\ s \notin due => /\ HeldLease(s)' <=> HeldLease(s)
                                /\ leases'[s].seq = leases[s].seq
                                /\ leases'[s].device = leases[s].device
  <2>1. leases[s] \in LeaseRecord
    BY <1>2
  <2>2. CASE HeldLease(s) /\ s \notin due
    <3>1. leases'[s] = [leases[s] EXCEPT !.left = @ - 1]
      BY <1>1, <2>2
    <3>2. /\ leases'[s] \in LeaseRecord
          /\ leases'[s].seq = leases[s].seq /\ leases'[s].device = leases[s].device
      BY <2>1, <3>1 DEF LeaseRecord
    <3>3. leases[s].seq > 0
      BY <2>2, HeardOfIsDecided DEF KnowsOrHears
    <3>4. HeldLease(s)'
      <4>1. leases'[s].seq # NoLease.seq
        BY <3>2, <3>3 DEF NoLease
      <4> QED BY <4>1 DEF HeldLease
    <3> QED BY <2>2, <3>2, <3>4
  <2>3. CASE ~(HeldLease(s) /\ s \notin due)
    <3>1. leases'[s] = NoLease
      BY <1>1, <2>3
    <3>2. NoLease \in LeaseRecord
      BY DEF LeaseRecord, NoLease
    <3>3. ~HeldLease(s)'
      BY <3>1 DEF HeldLease
    <3>4. s \notin due => leases[s] = NoLease
      BY <2>3 DEF HeldLease
    <3> QED BY <3>1, <3>2, <3>3, <3>4 DEF HeldLease
  <2> QED BY <2>2, <2>3
<1>5. leases' \in [SubNo -> LeaseRecord] /\ watches' \in [SubNo -> WatchRecord]
  BY <1>1, <1>3, <1>4
<1> HIDE DEF v
<1> QED BY <1>1, <1>3, <1>4, <1>5, EndingInv

LEMMA SubscriptionStepInv ==
  SubscriptionInv /\ [SubscriptionNext]_subscriptionVars => SubscriptionInv'
<1> SUFFICES ASSUME SubscriptionInv, [SubscriptionNext]_subscriptionVars
             PROVE  SubscriptionInv'
  OBVIOUS
<1>1. CASE UNCHANGED subscriptionVars
  <2>1. /\ \A s : Sent(s)' = Sent(s) /\ Asking(s)' = Asking(s) /\ About(s)' = About(s)
        /\ \A s : HeldLease(s)' = HeldLease(s)
    BY <1>1 DEF subscriptionVars, Sent, Asking, About, HeldLease
  <2>2. InTurn'
    BY <1>1, TurnsStay DEF subscriptionVars, Sent
  <2>3. DecisionsStand /\ \A s \in SubNo : WatchKept(s)
    BY <1>1, <2>1 DEF subscriptionVars, DecisionsStand, Refused, WatchKept
  <2>4. \A s \in SubNo : Standing(s)'
    BY <1>1, <2>1, <2>3, StandsAsBefore DEF subscriptionVars
  <2> QED BY <1>1, <2>2, <2>4 DEF subscriptionVars, SubscriptionInv, SubscriptionTypes
<1>2. CASE SubscriptionNext
  <2>1. ASSUME NEW w \in Watcher, NEW lease \in 0 .. MaxLease, Subscribe(w, lease)
        PROVE  SubscriptionInv'
    BY <2>1, SubscribeInv
  <2>2. ASSUME NEW m \in notices, ReceiveNotice(m)
        PROVE  SubscriptionInv'
    BY <2>2, ReceiveNoticeInv
  <2>3. CASE RecvSubscribe
    BY <2>3, RecvSubscribeInv
  <2>4. ASSUME NEW state \in TargetState, TargetChanges(state)
        PROVE  SubscriptionInv'
    BY <2>4, TargetChangesInv
  <2>5. ASSUME NEW s \in SubNo, Terminate(s)
        PROVE  SubscriptionInv'
    BY <2>5, TerminateInv
  <2>6. CASE SubscriptionClock
    BY <2>6, SubscriptionClockInv
  <2> QED BY <1>2, <2>1, <2>2, <2>3, <2>4, <2>5, <2>6 DEF SubscriptionNext
<1> QED BY <1>1, <1>2

\* Once nothing is on its way, who is subscribed knows the target's present state,
\* and who thinks to be subscribed is, or has subscribed again: Authority and
\* Subscriber, in whatever order notifies, renewals, ends and expiries came, for
\* any devices, any number of subscribes and any lease.
THEOREM SubscribersKnow == SubscriptionSpec => []SubscriberKnows
<1>1. SubscriptionInv => SubscriberKnows
  <2> SUFFICES ASSUME SubscriptionInv, asked = <<>>, notices = {}, NEW s \in SubNo
               PROVE  /\ HeldLease(s) => /\ watches[s].state \in {"active", "lapsed"}
                                         /\ watches[s].seq = leases[s].seq
                                         /\ watches[s].shown = target
                      /\ watches[s].state = "active" =>
                           \/ HeldLease(s)
                           \/ \E r \in s + 1 .. MaxSub : /\ watches[r].device = watches[s].device
                                                         /\ watches[r].state # "rejected"
    BY DEF SubscriberKnows
  <2>1. Standing(s)
    BY DEF SubscriptionInv
  <2>2. About(s) = {} /\ ~Asking(s)
    BY DEF About, Asking
  <2>3. CASE HeldLease(s)
    <3>1. KnowsOrHears(s)
      BY <2>3, HeardOfIsDecided
    <3> QED BY <2>2, <2>3, <3>1 DEF KnowsOrHears
  <2>4. CASE ~HeldLease(s) /\ watches[s].state = "active"
    <3>1. Superseded(s)
      BY <2>1, <2>2, <2>4 DEF Standing, Sent, Refused, ToldOver, NothingToHear
    <3> QED BY <2>4, <3>1 DEF Superseded, Refused
  <2> QED BY <2>3, <2>4
<1> QED BY <1>1, SubscriptionInitInv, SubscriptionStepInv, PTL DEF SubscriptionSpec
-----------------------------------------------------------------------------
(* A call through the gateway (Gateway)                                    *)

ToSip == {"INVITE", "CANCEL", "BYE", "ACK", "180", "200", "failure"}
FromSip == {"INVITE", "CANCEL", "BYE", "180", "183", "200", "failure"}

GatewayTypes ==
  /\ direction \in {"outbound", "inbound"}
  /\ dsip \in {"idle", "inviting", "proceeding", "offered", "alerting", "active", "ended"}
  /\ sip \in {"idle", "calling", "early", "confirmed", "terminated"}
  /\ answered \in BOOLEAN /\ cancelled \in BOOLEAN /\ gaveUp \in BOOLEAN
  /\ leg \in {"none", "offered", "active", "ended"}
  /\ media \in {"none", "bridged", "released"}
  /\ party \in {"idle", "ringing", "up", "cancelling", "gone"}
  /\ toSip \in Seq(ToSip) /\ fromSip \in Seq(FromSip)

In(msg, q) == \E i \in DOMAIN q : q[i] = msg

\* The controller and the DSIP engine agree, in a call of either direction.
LegAgrees ==
  /\ leg \in {"none", "offered"} => ~answered
  /\ leg = "active" => answered
  /\ media = "bridged" => leg = "active"
  /\ dsip = "ended" => leg = "ended"
  /\ cancelled => leg = "ended"

\* An outbound call: what is under way to the SIP party, and from it, says of the
\* two halves what is not yet true of both.
OutboundCall ==
  /\ party # "cancelling"
  /\ leg = "none" => party = "idle" /\ toSip = <<>> /\ fromSip = <<>>
  /\ leg = "offered" => sip \in {"calling", "early"} /\ (party = "up" => In("200", fromSip))
  /\ leg = "active" => sip \in {"early", "confirmed"} /\ party # "idle"
  /\ leg # "none" /\ party = "idle" =>
       fromSip = <<>> /\ toSip # <<>> /\ toSip[1] = "INVITE" /\ (leg = "ended" => In("CANCEL", toSip))
  /\ \A i \in DOMAIN toSip : /\ toSip[i] = "INVITE" => i = 1 /\ party = "idle"
                             /\ toSip[i] = "CANCEL" => cancelled
                             /\ toSip[i] = "BYE" => leg = "ended"
                             /\ toSip[i] \notin {"180", "200", "failure"}
  /\ \A i \in DOMAIN fromSip : /\ fromSip[i] \in {"failure", "BYE"} => i = Len(fromSip) /\ party = "gone"
                               /\ fromSip[i] \notin {"INVITE", "CANCEL"}
  /\ leg = "ended" =>
       /\ party = "ringing" => In("CANCEL", toSip) \/ In("BYE", toSip)
       /\ party = "up" => In("BYE", toSip) \/ (cancelled /\ In("200", fromSip))
  /\ leg = "ended" /\ ~answered /\ ~cancelled => party = "gone" /\ fromSip = <<>>
  /\ party = "gone" /\ leg # "ended" => In("failure", fromSip) \/ In("BYE", fromSip)

\* An inbound call, likewise.
InboundCall ==
  /\ ~cancelled
  /\ leg = "none" => /\ dsip = "idle" /\ toSip = <<>>
                     /\ IF party = "idle" THEN fromSip = <<>>
                        ELSE fromSip # <<>> /\ fromSip[1] = "INVITE" /\ party \in {"ringing", "cancelling"}
  /\ party = "idle" => leg = "none"
  /\ dsip \in {"offered", "alerting"} => leg = "offered"
  /\ leg = "offered" => dsip \in {"offered", "alerting"}
  /\ leg = "offered" => party \in {"ringing", "cancelling"}
  /\ \A i \in DOMAIN fromSip :
       /\ fromSip[i] = "INVITE" => i = 1 /\ leg = "none"
       /\ fromSip[i] = "CANCEL" => party \in {"cancelling", "gone"}
       /\ fromSip[i] = "BYE" => i = Len(fromSip) /\ party = "gone" /\ answered
       /\ fromSip[i] \in {"INVITE", "CANCEL", "BYE"}
  /\ \A i \in DOMAIN toSip :
       /\ toSip[i] \notin {"INVITE", "CANCEL"}
       /\ toSip[i] = "failure" => leg = "ended" /\ ~answered
       /\ toSip[i] = "200" => answered /\ party \in {"ringing", "cancelling"}
       /\ toSip[i] = "BYE" => /\ leg = "ended"
                              /\ party \in {"ringing", "cancelling"} => \E j \in 1 .. i - 1 : toSip[j] = "200"
  /\ \A i, j \in DOMAIN toSip : toSip[i] = "200" /\ toSip[j] = "200" => i = j
  /\ party = "up" => answered
  /\ leg = "active" => /\ party \in {"ringing", "cancelling"} => In("200", toSip)
                       /\ sip = "confirmed" \/ (sip = "terminated" /\ party \in {"cancelling", "gone"})
  /\ leg = "ended" => \/ party = "gone" \/ In("failure", toSip) \/ In("BYE", toSip)
                      \/ (party = "cancelling" /\ In("200", toSip))
  /\ party = "gone" /\ leg # "ended" => In("BYE", fromSip)

GatewayInv ==
  /\ GatewayTypes
  /\ gaveUp \/ (LegAgrees /\ IF direction = "outbound" THEN OutboundCall ELSE InboundCall)

-----------------------------------------------------------------------------
\* What is in a queue once a message, two or none are appended, and once the
\* oldest is taken.
LEMMA QueueSteps ==
  ASSUME NEW S, NEW q \in Seq(S)
  PROVE  /\ q \o <<>> = q
         /\ \A m \in S : /\ q \o <<m>> \in Seq(S) /\ Len(q \o <<m>>) = Len(q) + 1
                         /\ \A i \in 1 .. Len(q) : (q \o <<m>>)[i] = q[i]
                         /\ (q \o <<m>>)[Len(q) + 1] = m
         /\ \A m, n \in S : /\ q \o <<m, n>> \in Seq(S) /\ Len(q \o <<m, n>>) = Len(q) + 2
                            /\ \A i \in 1 .. Len(q) : (q \o <<m, n>>)[i] = q[i]
                            /\ (q \o <<m, n>>)[Len(q) + 1] = m /\ (q \o <<m, n>>)[Len(q) + 2] = n
         /\ q # <<>> => /\ Tail(q) \in Seq(S) /\ Len(q) > 0 /\ Len(Tail(q)) = Len(q) - 1
                        /\ Head(q) = q[1] /\ Head(q) \in S
                        /\ \A i \in 1 .. Len(q) - 1 : Tail(q)[i] = q[i + 1]
         /\ Len(q) \in Nat /\ DOMAIN q = 1 .. Len(q)
<1>1. q \o <<>> = q
  OBVIOUS
<1>2. \A m \in S : /\ q \o <<m>> \in Seq(S) /\ Len(q \o <<m>>) = Len(q) + 1
                   /\ \A i \in 1 .. Len(q) : (q \o <<m>>)[i] = q[i]
                   /\ (q \o <<m>>)[Len(q) + 1] = m
  OBVIOUS
<1>3. \A m, n \in S : /\ q \o <<m, n>> \in Seq(S) /\ Len(q \o <<m, n>>) = Len(q) + 2
                      /\ \A i \in 1 .. Len(q) : (q \o <<m, n>>)[i] = q[i]
                      /\ (q \o <<m, n>>)[Len(q) + 1] = m /\ (q \o <<m, n>>)[Len(q) + 2] = n
  OBVIOUS
<1>4. q # <<>> => /\ Tail(q) \in Seq(S) /\ Len(q) > 0 /\ Len(Tail(q)) = Len(q) - 1
                  /\ Head(q) = q[1] /\ Head(q) \in S
                  /\ \A i \in 1 .. Len(q) - 1 : Tail(q)[i] = q[i + 1]
  OBVIOUS
<1> QED BY <1>1, <1>2, <1>3, <1>4

LEMMA GatewayInitInv == GatewayInit => GatewayInv
<1> SUFFICES ASSUME GatewayInit PROVE GatewayInv
  OBVIOUS
<1>1. GatewayTypes
  <2>1. <<>> \in Seq(ToSip) /\ <<>> \in Seq(FromSip)
    OBVIOUS
  <2> QED BY <2>1 DEF GatewayInit, GatewayTypes
<1>2. LegAgrees /\ ~In("200", toSip) /\ ~In("BYE", fromSip)
  BY DEF GatewayInit, LegAgrees, In
<1>3. OutboundCall
  BY <1>1 DEF GatewayInit, OutboundCall
<1>4. InboundCall
  BY <1>1 DEF GatewayInit, InboundCall
<1> QED BY <1>1, <1>2, <1>3, <1>4 DEF GatewayInv

\* What the SIP party does with the oldest message to it.
LEMMA PartyTakes ==
  ASSUME GatewayTypes, PartyReceives
  PROVE  /\ toSip # <<>> /\ toSip' = Tail(toSip)
         /\ UNCHANGED <<direction, dsip, sip, answered, cancelled, media, leg, gaveUp>>
         /\ \/ Head(toSip) = "INVITE" /\ party' = "ringing" /\ fromSip' = fromSip
            \/ /\ Head(toSip) \in {"CANCEL", "BYE"} /\ party = "ringing"
               /\ party' = "gone" /\ fromSip' = fromSip \o <<"failure">>
            \/ Head(toSip) = "BYE" /\ party = "up" /\ party' = "gone" /\ fromSip' = fromSip
            \/ Head(toSip) = "200" /\ party = "ringing" /\ party' = "up" /\ fromSip' = fromSip
            \/ /\ Head(toSip) = "200" /\ party = "cancelling"
               /\ party' = "gone" /\ fromSip' = fromSip \o <<"BYE">>
            \/ Head(toSip) = "failure" /\ party' = "gone" /\ fromSip' = fromSip
            \/ /\ Head(toSip) \notin {"INVITE", "failure"}
               /\ ~(Head(toSip) \in {"CANCEL", "BYE"} /\ party = "ringing")
               /\ ~(Head(toSip) = "BYE" /\ party = "up")
               /\ ~(Head(toSip) = "200" /\ party \in {"ringing", "cancelling"})
               /\ party' = party /\ fromSip' = fromSip
<1>1. fromSip \o <<>> = fromSip
  BY QueueSteps DEF GatewayTypes
<1>2. UNCHANGED <<direction, dsip, sip, answered, cancelled, media, leg, gaveUp>>
  BY DEF PartyReceives, PartySends, controllerVars
<1> QED BY <1>1, <1>2 DEF PartyReceives, PartySends

\* What the messages of a step are made of keeps its type.
LEMMA GatewayTypesStep ==
  ASSUME GatewayTypes, GatewayNext
  PROVE  GatewayTypes'
<1> USE DEF GatewayTypes, FromDsip, Emit, Arrives, Told, AnsweredByGateway, EndedBySip, PartySends,
            controllerVars, sipVars
<1>0. /\ \A m \in ToSip : toSip \o <<m>> \in Seq(ToSip)
      /\ \A m, n \in ToSip : toSip \o <<m, n>> \in Seq(ToSip)
      /\ toSip \o <<>> \in Seq(ToSip) /\ fromSip \o <<>> \in Seq(FromSip)
      /\ \A m \in FromSip : fromSip \o <<m>> \in Seq(FromSip)
      /\ toSip # <<>> => Tail(toSip) \in Seq(ToSip)
      /\ fromSip # <<>> => Tail(fromSip) \in Seq(FromSip)
  BY QueueSteps
<1>1. {"INVITE", "CANCEL", "BYE", "ACK", "180", "200", "failure"} \subseteq ToSip
      /\ {"INVITE", "CANCEL", "BYE", "180", "183", "200", "failure"} \subseteq FromSip
  BY DEF ToSip, FromSip
<1>2. CASE DsipInvite \/ DsipCancel
  BY <1>0, <1>1, <1>2 DEF DsipInvite, DsipCancel
<1>3. CASE DsipProgress \/ DsipAnswer \/ DsipReject
  BY <1>0, <1>1, <1>3 DEF DsipProgress, DsipAnswer, DsipReject
<1>4. CASE DsipBye
  BY <1>0, <1>1, <1>4 DEF DsipBye
<1>5. ASSUME NEW msg \in {"180", "183"}, SipProvisional(msg)
      PROVE  GatewayTypes'
  BY <1>0, <1>1, <1>5 DEF SipProvisional
<1>6. CASE SipAnswer \/ SipFailure
  <2>1. fromSip' \in Seq(FromSip) /\ toSip' \in Seq(ToSip)
    BY <1>0, <1>1, <1>6 DEF SipAnswer, SipFailure
  <2>2. CASE SipAnswer
    BY <2>1, <2>2 DEF SipAnswer
  <2>3. CASE SipFailure
    BY <2>1, <2>3 DEF SipFailure
  <2> QED BY <1>6, <2>2, <2>3
<1>7. CASE SipInvite \/ SipCancel
  <2>1. fromSip' \in Seq(FromSip) /\ toSip' \in Seq(ToSip)
    BY <1>0, <1>1, <1>7 DEF SipInvite, SipCancel
  <2>2. CASE SipInvite
    BY <2>1, <2>2 DEF SipInvite
  <2>3. CASE SipCancel
    BY <2>1, <2>3 DEF SipCancel
  <2> QED BY <1>7, <2>2, <2>3
<1>8. CASE SipBye \/ TimerC
  BY <1>0, <1>1, <1>8 DEF SipBye, TimerC
<1>9. CASE PartyActs
  BY <1>0, <1>1, <1>9 DEF PartyActs
<1>10. CASE PartyReceives
  <2>1. toSip' \in Seq(ToSip)
    BY <1>0, <1>10, PartyTakes
  <2>2. fromSip' \in Seq(FromSip)
    BY <1>0, <1>1, <1>10, PartyTakes
  <2>3. party' \in {"idle", "ringing", "up", "cancelling", "gone"}
    BY <1>10, PartyTakes
  <2> QED BY <1>10, <2>1, <2>2, <2>3, PartyTakes
<1> QED BY <1>2, <1>3, <1>4, <1>5, <1>6, <1>7, <1>8, <1>9, <1>10 DEF GatewayNext

CallInv == LegAgrees /\ IF direction = "outbound" THEN OutboundCall ELSE InboundCall

\* What the DSIP engine reports keeps the halves of a call together.
LEMMA DsipStepInv ==
  ASSUME GatewayTypes, CallInv,
         DsipInvite \/ DsipCancel \/ DsipProgress \/ DsipAnswer \/ DsipReject \/ DsipBye
  PROVE  CallInv'
<1> USE DEF FromDsip, Emit, controllerVars, sipVars
<1>1. /\ \A m \in ToSip : /\ Len(toSip \o <<m>>) = Len(toSip) + 1
                          /\ \A i \in 1 .. Len(toSip) : (toSip \o <<m>>)[i] = toSip[i]
                          /\ (toSip \o <<m>>)[Len(toSip) + 1] = m
                          /\ DOMAIN (toSip \o <<m>>) = 1 .. Len(toSip) + 1
      /\ toSip \o <<>> = toSip
      /\ Len(toSip) \in Nat /\ DOMAIN toSip = 1 .. Len(toSip)
  BY QueueSteps DEF GatewayTypes
<1>2. {"INVITE", "CANCEL", "BYE", "ACK", "180", "200", "failure"} \subseteq ToSip
  BY DEF ToSip
<1>3. CASE DsipInvite
  BY <1>1, <1>2, <1>3 DEF DsipInvite, CallInv, LegAgrees, OutboundCall, In, GatewayTypes
<1>4. CASE DsipCancel
  <2>1. /\ direction = "outbound" /\ leg = "offered" /\ leg' = "ended" /\ cancelled' = TRUE
        /\ dsip' = "ended" /\ toSip' = toSip \o <<"CANCEL">>
        /\ UNCHANGED <<direction, party, fromSip, gaveUp, sip, answered, media>>
    BY <1>4 DEF DsipCancel, CallInv, OutboundCall
  <2>2. /\ DOMAIN toSip' = 1 .. Len(toSip) + 1 /\ toSip'[Len(toSip) + 1] = "CANCEL"
        /\ \A i \in DOMAIN toSip : toSip'[i] = toSip[i]
    BY <1>1, <1>2, <2>1
  <2>3. LegAgrees'
    BY <2>1 DEF CallInv, LegAgrees
  <2>4. In("CANCEL", toSip') /\ (\A m : In(m, toSip) => In(m, toSip'))
    BY <1>1, <2>2 DEF In
  <2>a. (toSip # <<>> => 1 \in DOMAIN toSip) /\ toSip' # <<>>
    BY <1>1, <1>2, <2>1 DEF GatewayTypes
  <2>5. OutboundCall'
    BY <1>1, <2>1, <2>2, <2>4, <2>a DEF CallInv, LegAgrees, OutboundCall
  <2> QED BY <2>1, <2>3, <2>5 DEF CallInv
<1>5. CASE DsipProgress
  <2>1. /\ direction = "inbound" /\ leg = "offered" /\ toSip' = toSip \o <<"180">>
        /\ dsip = "offered" /\ dsip' = "alerting"
        /\ UNCHANGED <<direction, party, fromSip, gaveUp, cancelled, answered, media, leg, sip>>
    BY <1>5 DEF DsipProgress
  <2>2. /\ DOMAIN toSip' = 1 .. Len(toSip) + 1 /\ toSip'[Len(toSip) + 1] = "180"
        /\ \A i \in DOMAIN toSip : toSip'[i] = toSip[i]
    BY <1>1, <1>2, <2>1
  <2>3. ~answered /\ LegAgrees'
    BY <2>1 DEF CallInv, LegAgrees
  <2>4. In("180", toSip') /\ (\A m : In(m, toSip) => In(m, toSip'))
    BY <1>1, <2>2 DEF In
  <2>5. InboundCall'
    BY <1>1, <2>1, <2>2, <2>3, <2>4 DEF CallInv, InboundCall
  <2> QED BY <2>1, <2>3, <2>5 DEF CallInv
<1>6. CASE DsipAnswer
  <2>1. /\ direction = "inbound" /\ leg = "offered" /\ toSip' = toSip \o <<"200">>
        /\ leg' = "active" /\ dsip' = "active" /\ sip' = "confirmed" /\ answered' = TRUE
        /\ media' = "bridged" /\ UNCHANGED <<direction, party, fromSip, gaveUp, cancelled>>
    BY <1>6 DEF DsipAnswer
  <2>2. /\ DOMAIN toSip' = 1 .. Len(toSip) + 1 /\ toSip'[Len(toSip) + 1] = "200"
        /\ \A i \in DOMAIN toSip : toSip'[i] = toSip[i]
    BY <1>1, <1>2, <2>1
  <2>3. ~answered /\ LegAgrees'
    BY <2>1 DEF CallInv, LegAgrees
  <2>4. In("200", toSip') /\ (\A m : In(m, toSip) => In(m, toSip'))
    BY <1>1, <2>2 DEF In
  <2>5. InboundCall'
    BY <1>1, <2>1, <2>2, <2>3, <2>4 DEF CallInv, InboundCall
  <2> QED BY <2>1, <2>3, <2>5 DEF CallInv
<1>7. CASE DsipReject
  <2>1. /\ direction = "inbound" /\ leg = "offered" /\ toSip' = toSip \o <<"failure">>
        /\ leg' = "ended" /\ dsip' = "ended" /\ sip' = "terminated"
        /\ UNCHANGED <<direction, party, fromSip, gaveUp, cancelled, answered, media>>
    BY <1>7 DEF DsipReject
  <2>2. /\ DOMAIN toSip' = 1 .. Len(toSip) + 1 /\ toSip'[Len(toSip) + 1] = "failure"
        /\ \A i \in DOMAIN toSip : toSip'[i] = toSip[i]
    BY <1>1, <1>2, <2>1
  <2>3. ~answered /\ LegAgrees'
    BY <2>1 DEF CallInv, LegAgrees
  <2>4. In("failure", toSip') /\ (\A m : In(m, toSip) => In(m, toSip'))
    BY <1>1, <2>2 DEF In
  <2>5. InboundCall'
    BY <1>1, <2>1, <2>2, <2>3, <2>4 DEF CallInv, InboundCall
  <2> QED BY <2>1, <2>3, <2>5 DEF CallInv
<1>8. CASE DsipBye /\ direction = "outbound"
  <2>1. /\ leg = "active" /\ leg' = "ended" /\ dsip' = "ended" /\ sip' = "terminated"
        /\ toSip' = toSip \o <<"BYE">> /\ media' = "released"
        /\ UNCHANGED <<direction, party, fromSip, gaveUp, answered, cancelled>>
    BY <1>8 DEF DsipBye, CallInv, OutboundCall
  <2>2. /\ DOMAIN toSip' = 1 .. Len(toSip) + 1 /\ toSip'[Len(toSip) + 1] = "BYE"
        /\ \A i \in DOMAIN toSip : toSip'[i] = toSip[i]
    BY <1>1, <1>2, <2>1
  <2>3. LegAgrees' /\ answered
    BY <2>1 DEF CallInv, LegAgrees
  <2>4. In("BYE", toSip') /\ (\A m : In(m, toSip) => In(m, toSip'))
    BY <1>1, <2>2 DEF In
  <2>5. OutboundCall'
    BY <1>1, <1>8, <2>1, <2>2, <2>3, <2>4 DEF CallInv, OutboundCall
  <2> QED BY <1>8, <2>1, <2>3, <2>5 DEF CallInv
<1>9. CASE DsipBye /\ direction # "outbound"
  <2>1. /\ leg = "active" /\ leg' = "ended" /\ dsip' = "ended" /\ media' = "released"
        /\ UNCHANGED <<direction, party, fromSip, gaveUp, answered, cancelled>>
    BY <1>9 DEF DsipBye
  <2>2. LegAgrees' /\ answered
    BY <2>1 DEF CallInv, LegAgrees
  <2>3. CASE sip = "confirmed"
    <3>1. toSip' = toSip \o <<"BYE">> /\ sip' = "terminated"
      BY <1>9, <2>3 DEF DsipBye
    <3>2. /\ DOMAIN toSip' = 1 .. Len(toSip) + 1 /\ toSip'[Len(toSip) + 1] = "BYE"
          /\ \A i \in DOMAIN toSip : toSip'[i] = toSip[i]
      BY <1>1, <1>2, <3>1
    <3>3. In("BYE", toSip') /\ (\A m : In(m, toSip) => In(m, toSip'))
      BY <1>1, <3>2 DEF In
    <3>4. party \in {"ringing", "cancelling"} =>
            \E j \in 1 .. (Len(toSip) + 1) - 1 : toSip'[j] = "200"
      BY <1>1, <1>9, <2>1, <3>2 DEF CallInv, InboundCall, In
    <3>5. InboundCall'
      BY <1>1, <1>9, <2>1, <2>2, <3>1, <3>2, <3>3, <3>4 DEF CallInv, InboundCall
    <3> QED BY <1>9, <2>1, <2>2, <3>5 DEF CallInv
  <2>4. CASE sip # "confirmed"
    <3>1. sip = "terminated" /\ party \in {"cancelling", "gone"}
      BY <1>9, <2>1, <2>4 DEF CallInv, InboundCall
    <3>2. toSip' = toSip /\ sip' = sip
      BY <1>9, <3>1 DEF DsipBye
    <3>3. InboundCall'
      BY <1>9, <2>1, <2>2, <3>1, <3>2 DEF CallInv, InboundCall
    <3> QED BY <1>9, <2>1, <2>2, <3>3 DEF CallInv
  <2> QED BY <2>3, <2>4
<1> QED BY <1>3, <1>4, <1>5, <1>6, <1>7, <1>8, <1>9

\* What arrives from the SIP side does, unless Timer C has fired.
LEMMA SipStepInv ==
  ASSUME GatewayTypes, CallInv,
         \/ \E msg \in {"180", "183"} : SipProvisional(msg)
         \/ SipAnswer \/ SipFailure \/ SipInvite \/ SipCancel \/ SipBye
  PROVE  CallInv'
<1> USE DEF Emit, controllerVars, sipVars
<1>1. PICK msg : fromSip # <<>> /\ msg = Head(fromSip) /\ Arrives(msg)
  BY DEF SipProvisional, SipAnswer, SipFailure, SipInvite, SipCancel, SipBye, Arrives
<1>2. /\ Len(fromSip) \in Nat \ {0} /\ DOMAIN fromSip = 1 .. Len(fromSip)
      /\ fromSip' = Tail(fromSip) /\ Len(fromSip') = Len(fromSip) - 1
      /\ DOMAIN fromSip' = 1 .. Len(fromSip) - 1
      /\ \A i \in DOMAIN fromSip' : fromSip'[i] = fromSip[i + 1] /\ i + 1 \in DOMAIN fromSip
      /\ msg = fromSip[1] /\ 1 \in DOMAIN fromSip
      /\ UNCHANGED <<direction, party, gaveUp>>
  BY <1>1, QueueSteps DEF GatewayTypes, Arrives
<1>3. \A m : In(m, fromSip) => m = msg \/ In(m, fromSip')
  <2> SUFFICES ASSUME NEW i \in DOMAIN fromSip, fromSip[i] # msg
               PROVE  In(fromSip[i], fromSip')
    BY DEF In
  <2>1. i - 1 \in DOMAIN fromSip' /\ fromSip'[i - 1] = fromSip[i]
    BY <1>2
  <2> QED BY <2>1 DEF In
<1>4. /\ leg # "none" \/ direction = "inbound"
      /\ direction = "outbound" => party # "idle"
  BY <1>1 DEF CallInv, OutboundCall, GatewayTypes
<1>5. /\ Len(toSip) \in Nat /\ DOMAIN toSip = 1 .. Len(toSip)
      /\ \A m \in ToSip : /\ DOMAIN (toSip \o <<m>>) = 1 .. Len(toSip) + 1
                          /\ \A i \in DOMAIN toSip : (toSip \o <<m>>)[i] = toSip[i]
                          /\ (toSip \o <<m>>)[Len(toSip) + 1] = m
      /\ \A m, n \in ToSip : /\ DOMAIN (toSip \o <<m, n>>) = 1 .. Len(toSip) + 2
                             /\ \A i \in DOMAIN toSip : (toSip \o <<m, n>>)[i] = toSip[i]
                             /\ (toSip \o <<m, n>>)[Len(toSip) + 1] = m
                             /\ (toSip \o <<m, n>>)[Len(toSip) + 2] = n
  BY QueueSteps DEF GatewayTypes
<1>6. {"INVITE", "CANCEL", "BYE", "ACK", "180", "200", "failure"} \subseteq ToSip
  BY DEF ToSip
<1>7. ASSUME direction = "outbound", leg = "ended", ~answered, ~cancelled
      PROVE  FALSE
  BY <1>1, <1>7 DEF CallInv, OutboundCall
<1>8. ASSUME NEW k \in {"180", "183"}, SipProvisional(k)
      PROVE  CallInv'
  <2>1. k = msg /\ direction = "outbound" /\ UNCHANGED <<cancelled, toSip>>
    BY <1>1, <1>8 DEF SipProvisional, Arrives
  <2>2. CASE UNCHANGED <<answered, media, leg>>
    <3>0. dsip' \in {dsip, "proceeding"}
      BY <1>8, <2>2 DEF SipProvisional, AnsweredByGateway
    <3>1. LegAgrees'
      BY <2>1, <2>2, <3>0 DEF CallInv, LegAgrees
    <3>2. OutboundCall'
      BY <1>2, <1>3, <1>4, <1>8, <2>1, <2>2 DEF SipProvisional, CallInv, LegAgrees, OutboundCall
    <3> QED BY <2>1, <3>1, <3>2, <1>2 DEF CallInv
  <2>3. CASE ~UNCHANGED <<answered, media, leg>>
    <3>1. /\ ~cancelled /\ ~answered /\ sip' = "early"
          /\ answered' = TRUE /\ dsip' = "active" /\ media' = "bridged"
          /\ Told("offered", "active")
      BY <1>8, <2>3 DEF SipProvisional, AnsweredByGateway
    <3>2. leg = "offered" /\ leg' = "active"
      BY <1>4, <1>7, <2>1, <3>1 DEF Told, CallInv, LegAgrees, GatewayTypes
    <3>3. LegAgrees'
      BY <2>1, <3>1, <3>2 DEF LegAgrees
    <3>4. OutboundCall'
      BY <1>2, <1>3, <1>4, <2>1, <3>1, <3>2 DEF CallInv, OutboundCall
    <3> QED BY <1>2, <2>1, <3>3, <3>4 DEF CallInv
  <2> QED BY <2>2, <2>3
<1>9. CASE SipAnswer
  <2>1. msg = "200" /\ direction = "outbound" /\ UNCHANGED cancelled
    BY <1>1, <1>9 DEF SipAnswer, Arrives
  <2>2. CASE cancelled
    <3>1. /\ toSip' = toSip \o <<"ACK", "BYE">>
          /\ sip' = "terminated" /\ UNCHANGED <<dsip, answered, media, leg>>
      BY <1>9, <2>2 DEF SipAnswer
    <3>2. /\ DOMAIN toSip' = 1 .. Len(toSip) + 2
          /\ \A i \in DOMAIN toSip : toSip'[i] = toSip[i]
          /\ toSip'[Len(toSip) + 1] = "ACK" /\ toSip'[Len(toSip) + 2] = "BYE"
      BY <1>5, <1>6, <3>1
    <3>3. In("BYE", toSip') /\ \A m : In(m, toSip) => In(m, toSip')
      BY <1>5, <3>2 DEF In
    <3>4. LegAgrees' /\ leg = "ended"
      BY <2>1, <2>2, <3>1 DEF CallInv, LegAgrees
    <3>5. OutboundCall'
      BY <1>2, <1>3, <1>4, <1>5, <2>1, <2>2, <3>1, <3>2, <3>3, <3>4 DEF CallInv, OutboundCall
    <3> QED BY <1>2, <2>1, <3>4, <3>5 DEF CallInv
  <2>3. CASE ~cancelled
    <3>1. toSip' = toSip \o <<"ACK">> /\ sip' = "confirmed" /\ AnsweredByGateway
      BY <1>9, <2>3 DEF SipAnswer
    <3>2. /\ DOMAIN toSip' = 1 .. Len(toSip) + 1
          /\ \A i \in DOMAIN toSip : toSip'[i] = toSip[i]
          /\ toSip'[Len(toSip) + 1] = "ACK"
      BY <1>5, <1>6, <3>1
    <3>3. \A m : In(m, toSip) => In(m, toSip')
      BY <1>5, <3>2 DEF In
    <3>4. /\ answered' = TRUE
          /\ leg' = IF answered THEN leg ELSE "active"
          /\ leg' \in {"active", "ended"} /\ (leg' = "ended" => leg = "ended")
      BY <1>4, <1>7, <2>1, <2>3, <3>1 DEF AnsweredByGateway, Told, CallInv, LegAgrees, GatewayTypes
    <3>5. LegAgrees'
      BY <2>1, <2>3, <3>1, <3>4 DEF AnsweredByGateway, CallInv, LegAgrees
    <3>6. OutboundCall'
      BY <1>2, <1>3, <1>4, <1>5, <2>1, <2>3, <3>1, <3>2, <3>3, <3>4 DEF CallInv, OutboundCall
    <3> QED BY <1>2, <2>1, <3>5, <3>6 DEF CallInv
  <2> QED BY <2>2, <2>3
\* The SIP leg is over, so that nothing more is under way from it.
<1>10. ASSUME leg # "none", EndedBySip, sip' = "terminated",
              UNCHANGED <<answered, cancelled, toSip>>,
              party = "gone", fromSip' = <<>>
       PROVE  CallInv'
  <2>1. leg' = "ended" /\ LegAgrees'
    BY <1>10 DEF EndedBySip, Told, CallInv, LegAgrees, GatewayTypes
  <2>2. CASE direction = "outbound"
    <3>1. OutboundCall'
      BY <1>2, <1>10, <2>1, <2>2 DEF CallInv, OutboundCall
    <3> QED BY <1>2, <2>1, <2>2, <3>1 DEF CallInv
  <2>3. CASE direction # "outbound"
    <3>1. InboundCall'
      BY <1>2, <1>10, <2>1, <2>3 DEF CallInv, InboundCall, EndedBySip
    <3> QED BY <1>2, <2>1, <2>3, <3>1 DEF CallInv
  <2> QED BY <2>2, <2>3
<1>11. CASE SipFailure
  <2>1. msg = "failure" /\ direction = "outbound" /\ UNCHANGED <<answered, cancelled, toSip>>
        /\ sip' = "terminated"
    BY <1>1, <1>11 DEF SipFailure, Arrives
  <2>2. party = "gone" /\ Len(fromSip) = 1
    BY <1>2, <2>1 DEF CallInv, OutboundCall
  <2>3. fromSip' = <<>>
    BY <1>2, <2>2
  <2>4. CASE cancelled
    <3>1. UNCHANGED <<dsip, media, leg>> /\ leg = "ended"
      BY <1>11, <2>4 DEF SipFailure, CallInv, LegAgrees
    <3>2. LegAgrees'
      BY <2>1, <3>1 DEF CallInv, LegAgrees
    <3>3. OutboundCall'
      BY <1>2, <2>1, <2>2, <2>3, <3>1 DEF CallInv, OutboundCall
    <3> QED BY <1>2, <2>1, <3>2, <3>3 DEF CallInv
  <2>5. CASE ~cancelled
    <3>1. EndedBySip
      BY <1>11, <2>5 DEF SipFailure
    <3> QED BY <1>4, <1>10, <2>1, <2>2, <2>3, <3>1
  <2> QED BY <2>4, <2>5
<1>12. CASE SipBye
  <2>1. msg = "BYE" /\ EndedBySip /\ UNCHANGED <<answered, cancelled, toSip>>
        /\ sip' = "terminated"
    BY <1>1, <1>12 DEF SipBye, Arrives
  <2>2. party = "gone" /\ Len(fromSip) = 1 /\ leg # "none"
    BY <1>2, <1>4, <2>1 DEF CallInv, OutboundCall, InboundCall, LegAgrees, GatewayTypes
  <2>3. fromSip' = <<>>
    BY <1>2, <2>2
  <2> QED BY <1>10, <2>1, <2>2, <2>3
<1>13. CASE SipInvite
  <2>1. /\ msg = "INVITE" /\ direction = "inbound" /\ UNCHANGED <<answered, cancelled, media, toSip>>
        /\ dsip' = "offered" /\ sip' = "early"
    BY <1>1, <1>13 DEF SipInvite, Arrives
  <2>2. leg = "none" /\ leg' = "offered"
    BY <1>2, <1>13, <2>1 DEF SipInvite, Told, CallInv, InboundCall
  <2>3. LegAgrees'
    BY <2>1, <2>2 DEF CallInv, LegAgrees
  <2>4. InboundCall'
    BY <1>1, <1>2, <1>3, <2>1, <2>2 DEF CallInv, InboundCall
  <2> QED BY <1>2, <2>1, <2>3, <2>4 DEF CallInv
<1>14. CASE SipCancel
  <2>1. /\ msg = "CANCEL" /\ direction = "inbound" /\ UNCHANGED <<answered, cancelled, media>>
        /\ sip' = "terminated" /\ party \in {"cancelling", "gone"} /\ leg # "none"
    BY <1>1, <1>2, <1>14 DEF SipCancel, Arrives, CallInv, InboundCall
  <2>2. CASE dsip \in {"offered", "alerting"}
    <3>1. leg = "offered" /\ leg' = "ended" /\ dsip' = "ended" /\ toSip' = toSip \o <<"failure">>
      BY <1>14, <2>1, <2>2 DEF SipCancel, Told, CallInv, InboundCall
    <3>2. /\ DOMAIN toSip' = 1 .. Len(toSip) + 1
          /\ \A i \in DOMAIN toSip : toSip'[i] = toSip[i]
          /\ toSip'[Len(toSip) + 1] = "failure"
      BY <1>5, <1>6, <3>1
    <3>3. In("failure", toSip') /\ \A m : In(m, toSip) => In(m, toSip')
      BY <1>5, <3>2 DEF In
    <3>4. LegAgrees'
      BY <2>1, <3>1 DEF CallInv, LegAgrees
    <3>5. InboundCall'
      BY <1>2, <1>3, <1>5, <2>1, <3>1, <3>2, <3>3 DEF CallInv, InboundCall, LegAgrees
    <3> QED BY <1>2, <2>1, <3>4, <3>5 DEF CallInv
  <2>3. CASE dsip \notin {"offered", "alerting"}
    <3>1. UNCHANGED <<dsip, leg, toSip>> /\ leg # "offered"
      BY <1>14, <2>1, <2>3 DEF SipCancel, CallInv, InboundCall
    <3>2. LegAgrees'
      BY <2>1, <3>1 DEF CallInv, LegAgrees
    <3>3. InboundCall'
      BY <1>2, <1>3, <2>1, <3>1 DEF CallInv, InboundCall
    <3> QED BY <1>2, <2>1, <3>2, <3>3 DEF CallInv
  <2> QED BY <2>2, <2>3
<1> QED BY <1>8, <1>9, <1>11, <1>12, <1>13, <1>14

\* What the SIP party does of its own accord.
LEMMA PartyActsInv ==
  ASSUME GatewayTypes, CallInv, PartyActs
  PROVE  CallInv'
<1>1. UNCHANGED <<direction, dsip, sip, answered, cancelled, media, leg, gaveUp, toSip>>
  BY DEF PartyActs, PartySends, controllerVars
<1>2. LegAgrees'
  BY <1>1 DEF CallInv, LegAgrees
<1>3. PICK m \in FromSip :
        /\ fromSip' = fromSip \o <<m>>
        /\ \/ direction = "outbound" /\ party = "ringing" /\ party' = "ringing" /\ m \in {"180", "183"}
           \/ direction = "outbound" /\ party = "ringing" /\ party' = "up" /\ m = "200"
           \/ direction = "outbound" /\ party = "ringing" /\ party' = "gone" /\ m = "failure"
           \/ direction = "inbound" /\ party = "idle" /\ party' = "ringing" /\ m = "INVITE"
           \/ direction = "inbound" /\ party = "ringing" /\ party' = "cancelling" /\ m = "CANCEL"
           \/ party = "up" /\ party' = "gone" /\ m = "BYE"
  <2>1. {"INVITE", "CANCEL", "BYE", "180", "183", "200", "failure"} \subseteq FromSip
    BY DEF FromSip
  <2> QED BY <2>1 DEF PartyActs, PartySends
<1>4. /\ Len(fromSip) \in Nat /\ DOMAIN fromSip = 1 .. Len(fromSip)
      /\ DOMAIN fromSip' = 1 .. Len(fromSip) + 1 /\ Len(fromSip') = Len(fromSip) + 1
      /\ \A i \in DOMAIN fromSip : fromSip'[i] = fromSip[i]
      /\ fromSip'[Len(fromSip) + 1] = m
      /\ fromSip # <<>> => 1 \in DOMAIN fromSip
      /\ fromSip = <<>> => Len(fromSip) = 0
      /\ fromSip' # <<>>
  BY <1>3, QueueSteps DEF GatewayTypes
<1>5. In(m, fromSip') /\ \A k : In(k, fromSip) => In(k, fromSip')
  BY <1>4 DEF In
<1>6. CASE direction = "outbound"
  <2>1. party \in {"ringing", "up"} /\ leg # "none"
    BY <1>3, <1>6 DEF CallInv, OutboundCall
  <2>0. In("CANCEL", toSip) => cancelled
    BY <1>6 DEF CallInv, OutboundCall, In
  <2>2. OutboundCall'
    BY <1>1, <1>3, <1>4, <1>5, <1>6, <2>0, <2>1 DEF CallInv, OutboundCall
  <2> QED BY <1>1, <1>2, <1>6, <2>2 DEF CallInv
<1>7. CASE direction # "outbound"
  <2>1. CASE party = "idle"
    <3>1. leg = "none" /\ fromSip = <<>> /\ toSip = <<>>
      BY <1>7, <2>1 DEF CallInv, InboundCall
    <3>2. InboundCall'
      BY <1>1, <1>3, <1>4, <1>5, <1>7, <2>1, <3>1 DEF CallInv, InboundCall
    <3> QED BY <1>1, <1>2, <1>7, <3>2 DEF CallInv
  <2>2. CASE party = "ringing"
    <3>1. party' = "cancelling" /\ m = "CANCEL"
      BY <1>3, <1>7, <2>2
    <3>2. InboundCall'
      BY <1>1, <1>4, <1>5, <1>7, <2>2, <3>1 DEF CallInv, InboundCall
    <3> QED BY <1>1, <1>2, <1>7, <3>2 DEF CallInv
  <2>3. CASE party = "up"
    <3>1. party' = "gone" /\ m = "BYE"
      BY <1>3, <1>7, <2>3
    <3>2. InboundCall'
      BY <1>1, <1>4, <1>5, <1>7, <2>3, <3>1 DEF CallInv, InboundCall
    <3> QED BY <1>1, <1>2, <1>7, <3>2 DEF CallInv
  <2> QED BY <1>3, <1>7, <2>1, <2>2, <2>3
<1> QED BY <1>6, <1>7

\* What it does with the oldest message to it.
LEMMA PartyReceivesInv ==
  ASSUME GatewayTypes, CallInv, PartyReceives
  PROVE  CallInv'
<1>1. /\ toSip # <<>> /\ toSip' = Tail(toSip)
      /\ UNCHANGED <<direction, dsip, sip, answered, cancelled, media, leg, gaveUp>>
  BY PartyTakes
<1>2. LegAgrees'
  BY <1>1 DEF CallInv, LegAgrees
<1>3. PICK msg : msg = Head(toSip)
  OBVIOUS
<1>4. /\ Len(toSip) \in Nat \ {0} /\ DOMAIN toSip = 1 .. Len(toSip)
      /\ DOMAIN toSip' = 1 .. Len(toSip) - 1 /\ toSip[1] = msg /\ 1 \in DOMAIN toSip
      /\ \A i \in DOMAIN toSip' : toSip'[i] = toSip[i + 1] /\ i + 1 \in DOMAIN toSip
  BY <1>1, <1>3, QueueSteps DEF GatewayTypes
<1>5. \A m : In(m, toSip) => m = msg \/ In(m, toSip')
  <2> SUFFICES ASSUME NEW i \in DOMAIN toSip, toSip[i] # msg
               PROVE  In(toSip[i], toSip')
    BY DEF In
  <2>1. i - 1 \in DOMAIN toSip' /\ toSip'[i - 1] = toSip[i]
    BY <1>4
  <2> QED BY <2>1 DEF In
<1>6. leg # "none"
  BY <1>1 DEF CallInv, OutboundCall, InboundCall
\* It sends a message with its last step at most.
<1>7. \/ fromSip' = fromSip
      \/ \E m \in {"failure", "BYE"} :
           /\ fromSip' = fromSip \o <<m>> /\ party' = "gone"
           /\ m = "failure" => msg \in {"CANCEL", "BYE"} /\ party = "ringing"
           /\ m = "BYE" => msg = "200" /\ party = "cancelling"
  BY <1>3, PartyTakes
<1>8. \A m \in FromSip : fromSip' = fromSip \o <<m>> =>
        /\ Len(fromSip) \in Nat /\ DOMAIN fromSip = 1 .. Len(fromSip)
        /\ DOMAIN fromSip' = 1 .. Len(fromSip) + 1 /\ Len(fromSip') = Len(fromSip) + 1
        /\ \A i \in DOMAIN fromSip : fromSip'[i] = fromSip[i]
        /\ fromSip'[Len(fromSip) + 1] = m
        /\ In(m, fromSip')
  <2>1. fromSip \in Seq(FromSip)
    BY DEF GatewayTypes
  <2> SUFFICES ASSUME NEW m \in FromSip, fromSip' = fromSip \o <<m>>
               PROVE  /\ Len(fromSip) \in Nat /\ DOMAIN fromSip = 1 .. Len(fromSip)
                      /\ DOMAIN fromSip' = 1 .. Len(fromSip) + 1
                      /\ Len(fromSip') = Len(fromSip) + 1
                      /\ \A i \in DOMAIN fromSip : fromSip'[i] = fromSip[i]
                      /\ fromSip'[Len(fromSip) + 1] = m
                      /\ In(m, fromSip')
    OBVIOUS
  <2>2. /\ Len(fromSip) \in Nat /\ DOMAIN fromSip = 1 .. Len(fromSip)
        /\ DOMAIN fromSip' = 1 .. Len(fromSip) + 1 /\ Len(fromSip') = Len(fromSip) + 1
        /\ \A i \in DOMAIN fromSip : fromSip'[i] = fromSip[i]
        /\ fromSip'[Len(fromSip) + 1] = m
    BY <2>1, QueueSteps
  <2> QED BY <2>2 DEF In
<1>9. "failure" \in FromSip /\ "BYE" \in FromSip
  BY DEF FromSip
<1>10. CASE direction = "outbound"
  <2>1. /\ msg \in {"INVITE", "CANCEL", "BYE", "ACK"}
        /\ msg = "INVITE" => party = "idle"
        /\ party = "idle" => msg = "INVITE"
        /\ msg \in {"CANCEL", "BYE"} => leg = "ended"
    <3>1. msg \in ToSip
      BY <1>1, <1>3, QueueSteps DEF GatewayTypes
    <3> QED BY <1>4, <1>6, <1>10, <3>1 DEF CallInv, LegAgrees, OutboundCall, ToSip
  <2>2. CASE msg = "INVITE"
    <3>1. party' = "ringing" /\ fromSip' = fromSip /\ fromSip = <<>> /\ leg # "active"
      BY <1>3, <1>6, <1>10, <2>1, <2>2, PartyTakes DEF CallInv, OutboundCall
    <3>2. \A i \in DOMAIN toSip' : toSip'[i] # "INVITE"
      BY <1>4, <1>10 DEF CallInv, OutboundCall
    <3>3. OutboundCall'
      BY <1>1, <1>4, <1>5, <1>6, <1>10, <2>1, <2>2, <3>1, <3>2 DEF CallInv, OutboundCall
    <3> QED BY <1>1, <1>2, <1>10, <3>3 DEF CallInv
  <2>3. CASE msg \in {"CANCEL", "BYE"} /\ party = "ringing"
    <3>1. party' = "gone" /\ fromSip' = fromSip \o <<"failure">>
      BY <1>3, <2>3, PartyTakes
    <3>2. OutboundCall'
      BY <1>1, <1>4, <1>5, <1>6, <1>8, <1>9, <1>10, <2>1, <2>3, <3>1 DEF CallInv, OutboundCall
    <3> QED BY <1>1, <1>2, <1>10, <3>2 DEF CallInv
  <2>4. CASE msg = "BYE" /\ party = "up"
    <3>1. party' = "gone" /\ fromSip' = fromSip
      BY <1>3, <2>4, PartyTakes
    <3>2. OutboundCall'
      BY <1>1, <1>4, <1>5, <1>6, <1>10, <2>1, <2>4, <3>1 DEF CallInv, OutboundCall
    <3> QED BY <1>1, <1>2, <1>10, <3>2 DEF CallInv
  <2>5. CASE /\ msg # "INVITE" /\ ~(msg \in {"CANCEL", "BYE"} /\ party = "ringing")
             /\ ~(msg = "BYE" /\ party = "up")
    <3>1. party' = party /\ fromSip' = fromSip
      BY <1>3, <2>1, <2>5, PartyTakes
    <3>2. OutboundCall'
      BY <1>1, <1>4, <1>5, <1>6, <1>10, <2>1, <2>5, <3>1 DEF CallInv, OutboundCall
    <3> QED BY <1>1, <1>2, <1>10, <3>2 DEF CallInv
  <2> QED BY <2>2, <2>3, <2>4, <2>5
<1>11. CASE direction # "outbound"
  <2>1. /\ msg \notin {"INVITE", "CANCEL"}
        /\ msg = "failure" => leg = "ended" /\ ~answered
        /\ msg = "200" => answered /\ party \in {"ringing", "cancelling"}
        /\ msg = "BYE" => leg = "ended" /\ party \notin {"ringing", "cancelling"}
        /\ party # "idle"
        /\ msg = "200" => \A i \in DOMAIN toSip' : toSip'[i] # "200"
    BY <1>4, <1>6, <1>11 DEF CallInv, InboundCall
  <2>3. CASE msg = "200" /\ party = "ringing"
    <3>1. party' = "up" /\ fromSip' = fromSip
      BY <1>3, <2>3, PartyTakes
    <3>2. InboundCall'
      BY <1>1, <1>4, <1>5, <1>6, <1>11, <2>1, <2>3, <3>1 DEF CallInv, LegAgrees, InboundCall
    <3> QED BY <1>1, <1>2, <1>11, <3>2 DEF CallInv
  <2>4. CASE msg = "200" /\ party = "cancelling"
    <3>1. party' = "gone" /\ fromSip' = fromSip \o <<"BYE">>
      BY <1>3, <2>4, PartyTakes
    <3>2. InboundCall'
      BY <1>1, <1>4, <1>5, <1>6, <1>8, <1>9, <1>11, <2>1, <2>4, <3>1 DEF CallInv, LegAgrees, InboundCall
    <3> QED BY <1>1, <1>2, <1>11, <3>2 DEF CallInv
  <2>5. CASE msg = "failure" \/ (msg = "BYE" /\ party = "up")
    <3>1. party' = "gone" /\ fromSip' = fromSip /\ leg = "ended"
      BY <1>3, <2>1, <2>5, PartyTakes
    <3>2. InboundCall'
      BY <1>1, <1>4, <1>6, <1>11, <2>1, <2>5, <3>1 DEF CallInv, LegAgrees, InboundCall
    <3> QED BY <1>1, <1>2, <1>11, <3>2 DEF CallInv
  <2>6. CASE msg \notin {"200", "failure"} /\ ~(msg = "BYE" /\ party = "up")
    <3>1. party' = party /\ fromSip' = fromSip
      BY <1>3, <2>1, <2>6, PartyTakes
    <3>2. ASSUME NEW i \in DOMAIN toSip', toSip'[i] = "BYE", party \in {"ringing", "cancelling"}
          PROVE  \E j \in 1 .. i - 1 : toSip'[j] = "200"
      <4>1. PICK j \in 1 .. (i + 1) - 1 : toSip[j] = "200"
        BY <1>4, <1>11, <3>2 DEF CallInv, InboundCall
      <4>2. j - 1 \in 1 .. i - 1 /\ toSip'[j - 1] = "200"
        BY <1>4, <2>6, <4>1
      <4> QED BY <4>2
    <3>3. InboundCall'
      BY <1>1, <1>4, <1>5, <1>6, <1>11, <2>1, <2>6, <3>1, <3>2
      DEF CallInv, InboundCall, GatewayTypes
    <3> QED BY <1>1, <1>2, <1>11, <3>3 DEF CallInv
  <2> QED BY <2>1, <2>3, <2>4, <2>5, <2>6
<1> QED BY <1>10, <1>11

LEMMA GatewayStepInv == GatewayInv /\ [GatewayNext]_gatewayVars => GatewayInv'
<1> SUFFICES ASSUME GatewayInv, [GatewayNext]_gatewayVars
             PROVE  GatewayInv'
  OBVIOUS
<1>1. CASE UNCHANGED gatewayVars
  BY <1>1 DEF gatewayVars, controllerVars, sipVars, GatewayInv, GatewayTypes, LegAgrees, OutboundCall,
              InboundCall, In
<1>2. CASE GatewayNext
  <2>1. GatewayTypes /\ GatewayTypes'
    BY <1>2, GatewayTypesStep DEF GatewayInv
  <2>2. CASE gaveUp \/ TimerC
    <3>1. gaveUp'
      BY <1>2, <2>2 DEF GatewayNext, TimerC, DsipInvite, DsipCancel, DsipProgress, DsipAnswer,
        DsipReject, DsipBye, FromDsip, SipProvisional, SipAnswer, SipFailure, SipInvite, SipCancel,
        SipBye, Arrives, PartyActs, PartyReceives, PartySends
    <3> QED BY <2>1, <3>1 DEF GatewayInv
  <2>3. CASE ~gaveUp /\ ~TimerC
    <3>1. CallInv
      BY <2>3 DEF GatewayInv, CallInv
    <3>2. CallInv'
      BY <1>2, <2>1, <2>3, <3>1, DsipStepInv, SipStepInv, PartyActsInv, PartyReceivesInv
      DEF GatewayNext
    <3> QED BY <2>1, <3>2 DEF GatewayInv, CallInv
  <2> QED BY <2>2, <2>3
<1> QED BY <1>1, <1>2

\* The halves of a gateway call end together, and media is bridged only while the
\* DSIP leg is up: GatewayCall with its DSIP engine and any SIP party, with early
\* media or without, however many messages are under way, when Timer C has not
\* fired.
THEOREM HalvesEndTogether == GatewaySpec => []LegsEndTogether
<1>1. GatewayInv => LegsEndTogether
  <2> SUFFICES ASSUME GatewayInv, toSip = <<>>, fromSip = <<>>, ~gaveUp
               PROVE  HalvesAgree
    BY DEF LegsEndTogether, AtRest
  <2>1. \A m : ~In(m, toSip) /\ ~In(m, fromSip)
    BY DEF In
  <2>2. CASE direction = "outbound"
    BY <2>1, <2>2 DEF GatewayInv, GatewayTypes, LegAgrees, OutboundCall, HalvesAgree
  <2>3. CASE direction # "outbound"
    BY <2>1, <2>3 DEF GatewayInv, GatewayTypes, LegAgrees, InboundCall, HalvesAgree
  <2> QED BY <2>2, <2>3
<1> QED BY <1>1, GatewayInitInv, GatewayStepInv, PTL DEF GatewaySpec

-----------------------------------------------------------------------------
(* The gap rule (Gaps): the operators the tracker is built from.           *)

Ascending(w, seqs) ==
  /\ w \in [1 .. Cardinality(seqs) -> seqs]
  /\ Range(w) = seqs
  /\ \A j, k \in DOMAIN w : j < k => w[j] < w[k]

LEMMA AscendingAppend ==
  ASSUME NEW seqs, NEW N \in Nat, seqs \subseteq 1 .. N, N \in seqs,
         NEW w, Ascending(w, seqs \ {N})
  PROVE  \E v : Ascending(v, seqs)
<1> DEFINE low == seqs \ {N}
           C == Cardinality(low)
           v == [j \in 1 .. C + 1 |-> IF j <= C THEN w[j] ELSE N]
<1>1. IsFiniteSet(seqs)
  <2>1. IsFiniteSet(1 .. N)
    BY FS_Interval
  <2> QED BY <2>1, FS_Subset
<1>2. C \in Nat /\ Cardinality(seqs) = C + 1
  <2>1. IsFiniteSet(low) /\ Cardinality(low) = Cardinality(seqs) - 1
    BY <1>1, FS_RemoveElement
  <2>2. Cardinality(low) \in Nat /\ Cardinality(seqs) \in Nat
    BY <1>1, <2>1, FS_CardinalityType
  <2> QED BY <2>1, <2>2
<1>3. /\ w \in [1 .. C -> low]
      /\ \A n \in low : \E j \in 1 .. C : w[j] = n
      /\ \A j, k \in 1 .. C : j < k => w[j] < w[k]
  <2>1. w \in [1 .. C -> low] /\ Range(w) = low
    BY DEF Ascending
  <2>2. \A j, k \in DOMAIN w : j < k => w[j] < w[k]
    BY DEF Ascending
  <2> HIDE DEF low, C
  <2> QED BY <2>1, <2>2 DEF Range
<1>4. \A n \in low : n \in seqs /\ n < N
  BY DEF low
<1> HIDE DEF C, low
<1>5. v \in [1 .. C + 1 -> seqs]
  BY <1>2, <1>3, <1>4
<1>6. Range(v) = seqs
  <2>1. ASSUME NEW n \in seqs PROVE \E j \in 1 .. C + 1 : v[j] = n
    <3>1. CASE n = N
      <4>1. v[C + 1] = N /\ C + 1 \in 1 .. C + 1
        BY <1>2
      <4> QED BY <3>1, <4>1
    <3>2. CASE n # N
      <4>1. n \in low
        BY <3>2 DEF low
      <4>2. PICK j \in 1 .. C : w[j] = n
        BY <1>3, <4>1
      <4>3. v[j] = n /\ j \in 1 .. C + 1
        BY <1>2, <4>2
      <4> QED BY <4>3
    <3> QED BY <3>1, <3>2
  <2>2. DOMAIN v = 1 .. C + 1
    OBVIOUS
  <2> HIDE DEF v
  <2> QED BY <1>5, <2>1, <2>2 DEF Range
<1>7. \A j, k \in DOMAIN v : j < k => v[j] < v[k]
  BY <1>2, <1>3, <1>4
<1> QED BY <1>2, <1>5, <1>6, <1>7 DEF Ascending

LEMMA AscendingExists ==
  ASSUME NEW N \in Nat
  PROVE  \A seqs \in SUBSET (1 .. N) : \E w : Ascending(w, seqs)
<1> DEFINE Bad == {n \in Nat : \E seqs \in SUBSET (1 .. n) : ~ \E w : Ascending(w, seqs)}
<1> SUFFICES ASSUME Bad # {} PROVE FALSE
  OBVIOUS
<1>1. PICK n \in Bad : \A m \in Bad : n <= m
  BY Least
<1>2. PICK seqs \in SUBSET (1 .. n) : ~ \E w : Ascending(w, seqs)
  BY <1>1
<1>3. CASE n = 0
  <2>1. seqs = {} /\ Cardinality(seqs) = 0
    <3>1. 1 .. n = {}
      BY <1>3
    <3>2. seqs = {}
      BY <1>2, <3>1
    <3> QED BY <3>2, FS_EmptySet
  <2>2. Ascending(<<>>, seqs)
    BY <2>1 DEF Ascending, Range
  <2> QED BY <1>2, <2>2
<1>4. CASE n # 0
  <2>1. n - 1 \in Nat /\ n - 1 \notin Bad
    BY <1>1, <1>4
  <2>2. \A low \in SUBSET (1 .. n - 1) : \E w : Ascending(w, low)
    BY <2>1
  <2>3. CASE n \notin seqs
    <3>1. seqs \in SUBSET (1 .. n - 1)
      BY <1>2, <2>3
    <3> QED BY <1>2, <2>2, <3>1
  <2>4. CASE n \in seqs
    <3>1. seqs \ {n} \in SUBSET (1 .. n - 1)
      BY <1>2
    <3>2. PICK w : Ascending(w, seqs \ {n})
      BY <2>2, <3>1
    <3> QED BY <1>1, <1>2, <2>4, <3>2, AscendingAppend
  <2> QED BY <2>3, <2>4
<1> QED BY <1>3, <1>4

\* InOrder lists the members of seqs, each once, in order.
LEMMA InOrderLists ==
  ASSUME NEW seqs \in SUBSET ItemSeq
  PROVE  /\ InOrder(seqs) \in Seq(ItemSeq)
         /\ \A n \in seqs : \E j \in 1 .. Len(InOrder(seqs)) : InOrder(seqs)[j] = n
         /\ \A j \in 1 .. Len(InOrder(seqs)) : InOrder(seqs)[j] \in seqs
         /\ \A j, k \in 1 .. Len(InOrder(seqs)) : j < k => InOrder(seqs)[j] < InOrder(seqs)[k]
<1>1. \E w : Ascending(w, seqs)
  BY GapAssumption, AscendingExists DEF ItemSeq
<1>2. Ascending(InOrder(seqs), seqs)
  BY Zenon, <1>1 DEF InOrder, Ascending
<1> DEFINE w == InOrder(seqs)
           C == Cardinality(seqs)
<1>3. C \in Nat
  <2>1. IsFiniteSet(ItemSeq)
    BY GapAssumption, FS_Interval DEF ItemSeq
  <2>2. IsFiniteSet(seqs)
    BY <2>1, FS_Subset
  <2> QED BY <2>2, FS_CardinalityType
<1>4. /\ w \in [1 .. C -> seqs]
      /\ Range(w) = seqs
      /\ \A j, k \in DOMAIN w : j < k => w[j] < w[k]
  BY <1>2 DEF Ascending
<1> HIDE DEF w, C
<1>5. w \in Seq(ItemSeq) /\ Len(w) = C
  BY <1>3, <1>4
<1>6. \A n \in seqs : \E j \in 1 .. C : w[j] = n
  BY <1>4 DEF Range
<1> QED BY <1>4, <1>5, <1>6 DEF w

\* Reach is the last number up to which nothing is missing.
LEMMA ReachIsLast ==
  ASSUME contiguous \in 0 .. LastSeq, NEW arrived
  PROVE  /\ Reach(arrived) \in contiguous .. LastSeq
         /\ \A m \in contiguous + 1 .. Reach(arrived) : m \in arrived
         /\ Reach(arrived) < LastSeq => Reach(arrived) + 1 \notin arrived
<1> DEFINE T == {n \in contiguous .. LastSeq : \A m \in contiguous + 1 .. n : m \in arrived}
<1>1. T \subseteq Nat /\ contiguous \in T /\ \A n \in T : n <= LastSeq
  BY GapAssumption
<1>2. \E n \in T : \A m \in T : n >= m
  <2> HIDE DEF T
  <2>1. PICK n \in T : \A m \in T : m <= n
    BY <1>1, GapAssumption, Greatest
  <2>2. n \in Nat /\ \A m \in T : m \in Nat
    BY <1>1
  <2>3. \A m \in T : n >= m
    BY <2>1, <2>2
  <2> QED BY <2>3
<1>3. Reach(arrived) \in T /\ \A m \in T : Reach(arrived) >= m
  BY Zenon, <1>2 DEF Reach, Max
<1>4. ASSUME Reach(arrived) < LastSeq, Reach(arrived) + 1 \in arrived PROVE FALSE
  <2>1. Reach(arrived) + 1 \in T
    BY <1>3, <1>4, GapAssumption
  <2> QED BY <1>1, <1>3, <2>1
<1> QED BY <1>3, <1>4

-----------------------------------------------------------------------------
(* The invariant.                                                          *)

SaidKinds == {"hold", "process", "rejoin"}

GapTypes ==
  /\ contiguous \in 0 .. LastSeq
  /\ seen \in SUBSET ItemSeq /\ held \in SUBSET seen
  /\ \A n \in seen : n > contiguous + 1
  /\ emitted \in Seq(SaidKinds \X ItemSeq)

\* What has been said so far.
Said(kind, n) == SaidBefore(kind, n, Len(emitted) + 1)
Passed(n) == PassedBefore(n, Len(emitted) + 1)

\* What the history must agree with: an item that was processed is below the
\* gap or seen and not held, and the other way round but for what a rejoin
\* passed over.
HistoryFits ==
  /\ \A n \in seen \ held : Said("process", n)
  /\ \A n \in ItemSeq : Said("process", n) => n <= contiguous \/ n \in seen \ held
  /\ \A n \in 1 .. contiguous : Said("process", n) \/ Passed(n)
  /\ \A n \in ItemSeq : Said("hold", n) => n \in held \/ Said("process", n) \/ Passed(n)

GapInv == GapTypes /\ HistoryFits /\ EpochsInOrder

LEMMA GapInitInv == GapInit => GapInv
<1> SUFFICES ASSUME GapInit PROVE GapInv
  OBVIOUS
<1>1. GapTypes
  BY GapAssumption, EmptySeq DEF GapInit, GapTypes
<1>2. HistoryFits
  BY DEF GapInit, HistoryFits, Said, SaidBefore
<1>3. EpochsInOrder
  BY DEF GapInit, EpochsInOrder
<1> QED BY <1>1, <1>2, <1>3 DEF GapInv

\* What is said about n when it arrives, then about the released, in order.
LEMMA ItemSays ==
  ASSUME emitted \in Seq(SaidKinds \X ItemSeq), NEW kind \in SaidKinds, NEW n \in ItemSeq,
         NEW out \in SUBSET ItemSeq,
         emitted' = emitted \o Say(kind, <<n>>) \o Say("process", InOrder(out))
  PROVE  /\ emitted' \in Seq(SaidKinds \X ItemSeq)
         /\ Len(emitted) \in Nat /\ Len(InOrder(out)) \in Nat
         /\ Len(emitted') = Len(emitted) + 1 + Len(InOrder(out))
         /\ \A i \in 1 .. Len(emitted) : emitted'[i] = emitted[i]
         /\ emitted'[Len(emitted) + 1] = <<kind, n>>
         /\ \A j \in 1 .. Len(InOrder(out)) :
               emitted'[Len(emitted) + 1 + j] = <<"process", InOrder(out)[j]>>
<1> DEFINE M == SaidKinds \X ItemSeq
           w == InOrder(out)
           one == Say(kind, <<n>>)
           more == Say("process", w)
<1>1. w \in Seq(ItemSeq)
  BY InOrderLists
<1>2. one \in Seq(M) /\ Len(one) = 1 /\ one[1] = <<kind, n>>
  BY DEF Say
<1>3. /\ more \in Seq(M) /\ Len(more) = Len(w) /\ Len(w) \in Nat
      /\ \A j \in 1 .. Len(w) : more[j] = <<"process", w[j]>>
  <2>1. Len(w) \in Nat /\ \A j \in 1 .. Len(w) : w[j] \in ItemSeq
    BY <1>1
  <2>2. "process" \in SaidKinds
    BY DEF SaidKinds
  <2> HIDE DEF w
  <2>3. more = [j \in 1 .. Len(w) |-> <<"process", w[j]>>]
    BY DEF Say
  <2> QED BY <2>1, <2>2, <2>3
<1> HIDE DEF M, w, one, more
<1>4. emitted \in Seq(M) /\ emitted' = (emitted \o one) \o more
  BY DEF M, one, more, w
<1>5. /\ emitted \o one \in Seq(M)
      /\ Len(emitted \o one) = Len(emitted) + Len(one)
      /\ \A i \in 1 .. Len(emitted) + Len(one) : (emitted \o one)[i] =
            IF i <= Len(emitted) THEN emitted[i] ELSE one[i - Len(emitted)]
  BY ONLY <1>2, <1>4, ConcatProperties
<1>6. Len(emitted) \in Nat
  BY <1>4, LenProperties
<1>7. /\ \A i \in 1 .. Len(emitted) : (emitted \o one)[i] = emitted[i]
      /\ (emitted \o one)[Len(emitted) + 1] = <<kind, n>>
  BY ONLY <1>2, <1>5, <1>6
<1>8. /\ emitted' \in Seq(M)
      /\ Len(emitted') = Len(emitted \o one) + Len(more)
      /\ \A i \in 1 .. Len(emitted \o one) + Len(more) : emitted'[i] =
            IF i <= Len(emitted \o one) THEN (emitted \o one)[i]
            ELSE more[i - Len(emitted \o one)]
  <2> DEFINE front == emitted \o one
  <2>1. front \in Seq(M) /\ emitted' = front \o more
    BY <1>4, <1>5
  <2> HIDE DEF front
  <2>2. /\ front \o more \in Seq(M)
        /\ Len(front \o more) = Len(front) + Len(more)
        /\ \A i \in 1 .. Len(front) + Len(more) : (front \o more)[i] =
              IF i <= Len(front) THEN front[i] ELSE more[i - Len(front)]
    BY ONLY <1>3, <2>1, ConcatProperties
  <2> QED BY <2>1, <2>2 DEF front
<1>9. Len(emitted \o one) = Len(emitted) + 1
  BY <1>2, <1>5
<1>10. \A i \in 1 .. Len(emitted) + 1 : emitted'[i] = (emitted \o one)[i]
  BY ONLY <1>3, <1>6, <1>8, <1>9
<1>11. \A j \in 1 .. Len(w) : emitted'[Len(emitted) + 1 + j] = more[j]
  <2>1. ASSUME NEW j \in 1 .. Len(w) PROVE emitted'[Len(emitted) + 1 + j] = more[j]
    <3> DEFINE i == Len(emitted) + 1 + j
    <3>1. /\ i \in 1 .. Len(emitted \o one) + Len(more)
          /\ ~(i <= Len(emitted \o one)) /\ i - Len(emitted \o one) = j
      BY ONLY <1>3, <1>6, <1>9, <2>1
    <3> QED BY <1>8, <3>1
  <2> QED BY <2>1
<1> QED BY ONLY <1>3, <1>6, <1>7, <1>8, <1>9, <1>10, <1>11 DEF M, w

-----------------------------------------------------------------------------
(* What was said stays said.                                               *)

OrderAt(i) ==
  emitted[i][1] = "process" =>
     LET n == emitted[i][2] IN
     /\ ~SaidBefore("process", n, i)
     /\ \A m \in 1 .. n - 1 :
           classOf[n] = "handshake" \/ SaidBefore("hold", m, i)
              => SaidBefore("process", m, i) \/ PassedBefore(m, i)

LEMMA HistoryGrows ==
  ASSUME Len(emitted) \in Nat, Len(emitted') \in Nat, Len(emitted) <= Len(emitted'),
         \A i \in 1 .. Len(emitted) : emitted'[i] = emitted[i],
         classOf' = classOf
  PROVE  /\ \A kind, n : Said(kind, n) => Said(kind, n)'
         /\ \A n : Passed(n) => Passed(n)'
         /\ \A i \in 1 .. Len(emitted) : OrderAt(i) => OrderAt(i)'
<1>1. \A i \in 1 .. Len(emitted) : i \in 1 .. Len(emitted') + 1 - 1
  OBVIOUS
<1>2. 1 .. Len(emitted) + 1 - 1 = 1 .. Len(emitted)
  OBVIOUS
<1>3. ASSUME NEW kind, NEW n, Said(kind, n) PROVE Said(kind, n)'
  BY <1>1, <1>2, <1>3 DEF Said, SaidBefore
<1>4. ASSUME NEW n, Passed(n) PROVE Passed(n)'
  BY <1>1, <1>2, <1>4 DEF Passed, PassedBefore
<1>5. ASSUME NEW i \in 1 .. Len(emitted), OrderAt(i) PROVE OrderAt(i)'
  <2>1. \A j \in 1 .. i - 1 : emitted'[j] = emitted[j]
    OBVIOUS
  <2>2. /\ \A kind, m : SaidBefore(kind, m, i)' <=> SaidBefore(kind, m, i)
        /\ \A m : PassedBefore(m, i)' <=> PassedBefore(m, i)
    BY ONLY <2>1 DEF SaidBefore, PassedBefore
  <2> QED BY <1>5, <2>2 DEF OrderAt
<1> QED BY <1>3, <1>4, <1>5

LEMMA EpochsByItem == EpochsInOrder <=> \A i \in 1 .. Len(emitted) : OrderAt(i)
  BY DEF EpochsInOrder, OrderAt

\* The end of the wait.
LEMMA ClockStep == ASSUME GapInv, GapClock PROVE GapInv'
<1>1. CASE UNCHANGED <<contiguous, seen, held, emitted>>
  <2>1. classOf' = classOf
    BY DEF GapClock
  <2>2. GapTypes'
    BY <1>1 DEF GapInv, GapTypes
  <2>3. HistoryFits'
    BY <1>1 DEF GapInv, HistoryFits, Said, SaidBefore, Passed, PassedBefore
  <2>4. EpochsInOrder'
    <3>1. Len(emitted) \in Nat /\ emitted' = emitted
      BY <1>1, LenProperties DEF GapInv, GapTypes
    <3>2. \A i \in 1 .. Len(emitted) : OrderAt(i)'
      BY <2>1, <3>1, HistoryGrows, EpochsByItem DEF GapInv
    <3>3. \A i \in 1 .. Len(emitted') : OrderAt(i)'
      BY <3>1, <3>2
    <3> QED BY <3>3 DEF EpochsInOrder, OrderAt
  <2> QED BY <2>2, <2>3, <2>4 DEF GapInv
<1>2. CASE /\ contiguous' = Max(held \cup seen)
           /\ emitted' = Append(emitted, <<"rejoin", Max(held \cup seen)>>)
           /\ seen' = {} /\ held' = {}
  <2> DEFINE top == Max(held \cup seen)
             L == Len(emitted)
  <2>1. held \cup seen = seen /\ seen # {} /\ seen \subseteq 1 .. LastSeq
    BY DEF GapClock, GapInv, GapTypes, ItemSeq
  <2>2. top \in seen /\ \A m \in seen : top >= m
    <3>1. PICK n \in seen : \A m \in seen : m <= n
      <4>1. seen \subseteq Nat /\ \A m \in seen : m <= LastSeq
        BY <2>1, GapAssumption
      <4> QED BY <2>1, <4>1, GapAssumption, Greatest
    <3>2. \E k \in seen : \A m \in seen : k >= m
      BY <2>1, <3>1
    <3>3. top = CHOOSE k \in seen : \A m \in seen : k >= m
      BY <2>1 DEF Max
    <3> QED BY <3>2, <3>3
  <2> HIDE DEF top
  <2>3. top \in ItemSeq /\ contiguous < top /\ contiguous \in Nat /\ top \in Nat
    BY <2>1, <2>2, GapAssumption DEF GapInv, GapTypes, ItemSeq
  <2>4. /\ emitted' \in Seq(SaidKinds \X ItemSeq) /\ L \in Nat /\ Len(emitted') = L + 1
        /\ emitted'[L + 1] = <<"rejoin", top>>
        /\ \A i \in 1 .. L : emitted'[i] = emitted[i]
    <3>1. emitted \in Seq(SaidKinds \X ItemSeq) /\ <<"rejoin", top>> \in SaidKinds \X ItemSeq
      BY <2>3 DEF GapInv, GapTypes, SaidKinds
    <3>2. emitted' = Append(emitted, <<"rejoin", top>>)
      BY <1>2 DEF top
    <3> QED BY ONLY <3>1, <3>2, AppendProperties, LenProperties
  <2>5. /\ \A kind, n : Said(kind, n) => Said(kind, n)'
        /\ \A n : Passed(n) => Passed(n)'
        /\ \A i \in 1 .. L : OrderAt(i) => OrderAt(i)'
    BY <2>4, HistoryGrows DEF GapClock
  <2>6. \A n \in ItemSeq : n <= top => Passed(n)'
    <3>1. L + 1 \in 1 .. Len(emitted') + 1 - 1 /\ emitted'[L + 1][1] = "rejoin"
          /\ emitted'[L + 1][2] = top
      BY <2>4
    <3>2. \A n \in ItemSeq : n <= top => top >= n
      BY <2>3 DEF ItemSeq
    <3> QED BY <3>1, <3>2 DEF Passed, PassedBefore
  <2>7. \A kind \in {"hold", "process"}, n \in ItemSeq : Said(kind, n)' => Said(kind, n)
    <3>1. ASSUME NEW kind \in {"hold", "process"}, NEW n \in ItemSeq, Said(kind, n)'
          PROVE  Said(kind, n)
      <4>1. PICK j \in 1 .. L + 1 : emitted'[j] = <<kind, n>>
        BY <2>4, <3>1 DEF Said, SaidBefore
      <4>2. j # L + 1
        BY <2>4, <4>1
      <4>3. j \in 1 .. L + 1 - 1 /\ emitted[j] = <<kind, n>>
        BY <2>4, <4>1, <4>2
      <4> QED BY <4>3 DEF Said, SaidBefore
    <3> QED BY <3>1
  <2>8. contiguous' = top /\ seen' = {} /\ held' = {}
    BY <1>2 DEF top
  <2> HIDE DEF L
  <2>9. GapTypes'
    BY <2>3, <2>4, <2>8, GapAssumption DEF GapTypes, ItemSeq
  <2>10. HistoryFits'
    <3>1. \A n \in ItemSeq : n <= contiguous \/ n \in seen => n <= top
      BY <2>1, <2>2, <2>3 DEF ItemSeq
    <3>2. ASSUME NEW n \in ItemSeq, Said("process", n)' PROVE n <= top
      BY <2>7, <3>1, <3>2 DEF GapInv, HistoryFits
    <3>3. ASSUME NEW n \in 1 .. top PROVE Passed(n)'
      BY <2>3, <2>6, GapAssumption DEF ItemSeq
    <3>4. ASSUME NEW n \in ItemSeq, Said("hold", n)' PROVE Said("process", n)' \/ Passed(n)'
      <4>1. Said("hold", n)
        BY <2>7, <3>4
      <4>2. n \in held \/ Said("process", n) \/ Passed(n)
        BY <4>1 DEF GapInv, HistoryFits
      <4>3. n \in held => Passed(n)'
        BY <2>1, <2>6, <3>1
      <4> QED BY <2>5, <4>2, <4>3
    <3> QED BY <2>8, <3>2, <3>3, <3>4 DEF HistoryFits
  <2>11. EpochsInOrder'
    <3>1. \A i \in 1 .. L : OrderAt(i)'
      BY <2>5, EpochsByItem DEF GapInv, L
    <3>2. ASSUME NEW i, i = L + 1 PROVE OrderAt(i)'
      BY <2>4, <3>2 DEF OrderAt
    <3>3. \A i \in 1 .. Len(emitted') : i \in 1 .. L \/ i = L + 1
      BY <2>4
    <3>4. \A i \in 1 .. Len(emitted') : OrderAt(i)'
      BY <3>1, <3>2, <3>3
    <3> QED BY <3>4 DEF EpochsInOrder, OrderAt
  <2> QED BY <2>9, <2>10, <2>11 DEF GapInv
<1> QED BY <1>1, <1>2 DEF GapClock

-----------------------------------------------------------------------------
(* An item arrives.                                                        *)

LEMMA ItemStep == ASSUME GapInv, NEW n \in ItemSeq, ItemArrives(n) PROVE GapInv'
<1> DEFINE waits == IF Waits(n) THEN held \cup {n} ELSE held
           reach == Reach(seen \cup {n})
           out == Released(waits, reach)
<1> PICK kind : kind = IF Waits(n) THEN "hold" ELSE "process"
  OBVIOUS
<1> PICK w : w = InOrder(out)
  OBVIOUS
<1> PICK L : L = Len(emitted)
  OBVIOUS
<1>1. /\ contiguous \in 0 .. LastSeq /\ LastSeq \in Nat
      /\ seen \in SUBSET ItemSeq /\ held \in SUBSET seen
      /\ n > contiguous /\ n \notin seen /\ n \in 1 .. LastSeq
      /\ \A m \in seen : m > contiguous + 1
  BY GapAssumption DEF GapInv, GapTypes, ItemArrives, ItemSeq
<1>2. /\ contiguous' = reach
      /\ seen' = {m \in seen \cup {n} : m > reach}
      /\ held' = waits \ out
      /\ classOf' = classOf
  BY DEF ItemArrives
<1>3. /\ reach \in contiguous .. LastSeq
      /\ \A m \in contiguous + 1 .. reach : m \in seen \cup {n}
      /\ reach < LastSeq => reach + 1 \notin seen \cup {n}
  BY <1>1, ReachIsLast
<1>4. /\ waits \in SUBSET (seen \cup {n}) /\ held \subseteq waits /\ waits \subseteq held \cup {n}
      /\ n \in waits <=> Waits(n)
      /\ out = {m \in waits : m <= reach} /\ out \in SUBSET ItemSeq
  BY <1>1 DEF Released
<1>5. kind \in {"hold", "process"} /\ (kind = "hold" <=> Waits(n))
  OBVIOUS
<1>6. /\ emitted' \in Seq(SaidKinds \X ItemSeq)
      /\ L \in Nat /\ Len(w) \in Nat /\ Len(emitted') = L + 1 + Len(w)
      /\ \A i \in 1 .. L : emitted'[i] = emitted[i]
      /\ emitted'[L + 1] = <<kind, n>>
      /\ \A j \in 1 .. Len(w) : emitted'[L + 1 + j] = <<"process", w[j]>>
  <2>1. emitted' = emitted \o Say(kind, <<n>>) \o Say("process", InOrder(out))
    BY DEF ItemArrives
  <2>2. emitted \in Seq(SaidKinds \X ItemSeq) /\ kind \in SaidKinds
    BY <1>5 DEF GapInv, GapTypes, SaidKinds
  <2> HIDE DEF out
  <2>3. out \in SUBSET ItemSeq /\ n \in ItemSeq
    BY <1>4
  <2>4. /\ emitted' \in Seq(SaidKinds \X ItemSeq)
        /\ Len(emitted) \in Nat /\ Len(InOrder(out)) \in Nat
        /\ Len(emitted') = Len(emitted) + 1 + Len(InOrder(out))
        /\ \A i \in 1 .. Len(emitted) : emitted'[i] = emitted[i]
        /\ emitted'[Len(emitted) + 1] = <<kind, n>>
        /\ \A j \in 1 .. Len(InOrder(out)) :
              emitted'[Len(emitted) + 1 + j] = <<"process", InOrder(out)[j]>>
    BY ONLY Zenon, <2>1, <2>2, <2>3, ItemSays
  <2>5. w = InOrder(out) /\ L = Len(emitted)
    OBVIOUS
  <2> QED BY ONLY <2>4, <2>5
<1>sizes. L \in Nat /\ Len(w) \in Nat /\ Len(emitted') = L + 1 + Len(w)
  BY <1>6
<1>7. /\ \A m \in out : \E j \in 1 .. Len(w) : w[j] = m
      /\ \A j \in 1 .. Len(w) : w[j] \in out
      /\ \A j, k \in 1 .. Len(w) : j < k => w[j] < w[k]
  BY <1>4, InOrderLists
<1> HIDE DEF waits, reach, out
<1>8. /\ \A k, m : Said(k, m) => Said(k, m)'
      /\ \A m : Passed(m) => Passed(m)'
      /\ \A i \in 1 .. L : OrderAt(i) => OrderAt(i)'
  BY <1>2, <1>6, HistoryGrows
<1>9. \A m \in out : Said("process", m)'
  <2>1. ASSUME NEW m \in out PROVE Said("process", m)'
    <3>1. PICK j \in 1 .. Len(w) : w[j] = m
      BY <1>7
    <3>2. L + 1 + j \in 1 .. Len(emitted') + 1 - 1 /\ emitted'[L + 1 + j] = <<"process", m>>
      BY <1>6, <3>1
    <3> QED BY <3>2 DEF Said, SaidBefore
  <2> QED BY <2>1
<1>10. Said(kind, n)'
  <2>1. L + 1 \in 1 .. Len(emitted') + 1 - 1
    BY <1>6
  <2> QED BY <1>6, <2>1 DEF Said, SaidBefore
\* What is said now and was not before is about n or about the released.
<1>11. \A m \in ItemSeq :
         /\ Said("process", m)' => Said("process", m) \/ m \in out \/ (m = n /\ kind = "process")
         /\ Said("hold", m)' => Said("hold", m) \/ (m = n /\ kind = "hold")
  <2>1. ASSUME NEW k \in {"process", "hold"}, NEW m \in ItemSeq, Said(k, m)'
        PROVE  Said(k, m) \/ (m \in out /\ k = "process") \/ (m = n /\ k = kind)
    <3>1. PICK j \in 1 .. Len(emitted') : emitted'[j] = <<k, m>>
      <4>1. Len(emitted') + 1 - 1 = Len(emitted')
        BY ONLY <1>sizes
      <4> QED BY <2>1, <4>1 DEF Said, SaidBefore
    <3>2. CASE j \in 1 .. L
      <4>1. emitted[j] = <<k, m>>
        BY <1>6, <3>1, <3>2
      <4>2. Len(emitted) + 1 - 1 = L
        BY ONLY <1>sizes, L = Len(emitted)
      <4> QED BY <3>2, <4>1, <4>2 DEF Said, SaidBefore
    <3>3. CASE j = L + 1
      BY <1>6, <3>1, <3>3
    <3>4. CASE j \in L + 2 .. Len(emitted')
      <4>1. j - L - 1 \in 1 .. Len(w) /\ L + 1 + (j - L - 1) = j
        BY ONLY <1>sizes, <3>4
      <4>2. emitted'[j] = <<"process", w[j - L - 1]>>
        BY <1>6, <4>1
      <4> QED BY <1>7, <3>1, <4>1, <4>2
    <3> QED BY <1>6, <3>2, <3>3, <3>4
  <2> QED BY <2>1
<1>12. GapTypes'
  <2>1. reach \in 0 .. LastSeq
    BY <1>1, <1>3
  <2>2. seen' \in SUBSET ItemSeq /\ held' \in SUBSET seen'
    <3>1. seen \cup {n} \subseteq ItemSeq
      BY <1>1
    <3>2. ASSUME NEW h \in waits \ out PROVE h \in seen'
      <4>1. h \in 1 .. LastSeq /\ ~(h <= reach)
        BY <1>1, <1>4, <3>2 DEF ItemSeq
      <4>2. h > reach
        BY <1>1, <1>3, <4>1
      <4> QED BY <1>2, <1>4, <4>2
    <3> QED BY <1>2, <3>1, <3>2
  <2>3. ASSUME NEW m \in seen' PROVE m > reach + 1
    <3>1. m > reach /\ m \in seen \cup {n} /\ m \in 1 .. LastSeq
      BY <1>1, <1>2, <2>3 DEF ItemSeq
    <3>2. m # reach + 1
      BY <1>1, <1>3, <3>1
    <3> QED BY <1>1, <1>3, <3>1, <3>2
  <2> QED BY <1>2, <1>6, <2>1, <2>2, <2>3 DEF GapTypes
<1>13. HistoryFits'
  <2>1. ASSUME NEW m \in seen' \ held' PROVE Said("process", m)'
    <3>1. m \in seen \cup {n} /\ m \notin waits
      BY <1>1, <1>2, <1>3, <1>4, <2>1 DEF ItemSeq
    <3>2. CASE m = n
      BY <1>4, <1>5, <1>10, <3>1, <3>2
    <3>3. CASE m \in seen \ held
      BY <1>8, <3>3 DEF GapInv, HistoryFits
    <3> QED BY <1>4, <3>1, <3>2, <3>3
  <2>2. ASSUME NEW m \in ItemSeq, Said("process", m)'
        PROVE  m <= reach \/ m \in seen' \ held'
    <3>1. CASE Said("process", m)
      <4>1. m <= contiguous \/ m \in seen \ held
        BY <3>1 DEF GapInv, HistoryFits
      <4> QED BY <1>1, <1>2, <1>3, <1>4, <4>1 DEF ItemSeq
    <3>2. CASE m \in out
      BY <1>4, <3>2
    <3>3. CASE m = n /\ kind = "process"
      BY <1>1, <1>2, <1>3, <1>4, <1>5, <3>3 DEF ItemSeq
    <3> QED BY <1>11, <2>2, <3>1, <3>2, <3>3
  <2>3. ASSUME NEW m \in 1 .. reach PROVE Said("process", m)' \/ Passed(m)'
    <3>1. CASE m <= contiguous
      <4>1. m \in 1 .. contiguous
        BY <1>1, <1>3, <3>1
      <4> QED BY <1>8, <4>1 DEF GapInv, HistoryFits
    <3>2. CASE m > contiguous
      <4>1. m \in seen \cup {n}
        BY <1>1, <1>3, <3>2
      <4>2. CASE m \in waits
        BY <1>4, <1>9, <4>2
      <4>3. CASE m = n /\ m \notin waits
        BY <1>4, <1>5, <1>10, <4>3
      <4>4. CASE m \in seen \ held
        BY <1>8, <4>4 DEF GapInv, HistoryFits
      <4> QED BY <1>4, <4>1, <4>2, <4>3, <4>4
    <3> QED BY <1>1, <1>3, <3>1, <3>2
  <2>4. ASSUME NEW m \in ItemSeq, Said("hold", m)'
        PROVE  m \in held' \/ Said("process", m)' \/ Passed(m)'
    <3>1. m \in waits \/ Said("process", m) \/ Passed(m)
      BY <1>4, <1>5, <1>11, <2>4 DEF GapInv, HistoryFits
    <3> QED BY <1>2, <1>8, <1>9, <3>1
  <2> QED BY <1>2, <2>1, <2>2, <2>3, <2>4 DEF HistoryFits
\* What was said is before everything said now.
<1>14. \A i \in L + 1 .. Len(emitted') :
         /\ \A k, m : Said(k, m) => SaidBefore(k, m, i)'
         /\ \A m : Passed(m) => PassedBefore(m, i)'
  <2>1. 1 .. Len(emitted) + 1 - 1 = 1 .. L
    BY <1>6
  <2>2. ASSUME NEW i \in L + 1 .. Len(emitted'), NEW j \in 1 .. L
        PROVE  j \in 1 .. i - 1 /\ emitted'[j] = emitted[j]
    BY <1>6
  <2>3. ASSUME NEW i \in L + 1 .. Len(emitted'), NEW k, NEW m, Said(k, m)
        PROVE  SaidBefore(k, m, i)'
    BY <2>1, <2>2, <2>3 DEF Said, SaidBefore
  <2>4. ASSUME NEW i \in L + 1 .. Len(emitted'), NEW m, Passed(m) PROVE PassedBefore(m, i)'
    BY <2>1, <2>2, <2>4 DEF Passed, PassedBefore
  <2> QED BY <2>3, <2>4
<1>15. ASSUME NEW i, i = L + 1 PROVE OrderAt(i)'
  <2>1. i \in L + 1 .. Len(emitted') /\ 1 .. i - 1 = 1 .. L
    <3>1. i - 1 = L /\ L + 1 \in L + 1 .. Len(emitted')
      BY ONLY <1>sizes, <1>15
    <3> QED BY ONLY <1>15, <3>1
  <2>2. \A k, m : SaidBefore(k, m, i)' => Said(k, m)
    <3>1. L + 1 - 1 = L /\ i - 1 = L /\ L = Len(emitted)
      BY ONLY <1>sizes, <1>15, L = Len(emitted)
    <3>2. ASSUME NEW k, NEW m, NEW j \in 1 .. L, emitted'[j] = <<k, m>> PROVE Said(k, m)
      <4>1. emitted[j] = <<k, m>>
        BY <1>6, <3>2
      <4>2. Len(emitted) + 1 - 1 = L
        BY ONLY <3>1
      <4> QED BY <4>1, <4>2 DEF Said, SaidBefore
    <3> QED BY <3>1, <3>2 DEF SaidBefore
  <2>3. SUFFICES ASSUME kind = "process"
                 PROVE  /\ ~SaidBefore("process", n, i)'
                        /\ \A m \in 1 .. n - 1 :
                              classOf[n] = "handshake" \/ SaidBefore("hold", m, i)'
                                 => SaidBefore("process", m, i)' \/ PassedBefore(m, i)'
    BY <1>2, <1>6, <1>15 DEF OrderAt
  <2>4. /\ classOf[n] = "handshake" => n <= contiguous + 1
        /\ \A h \in held : h >= n
    BY <1>1, <1>5, <2>3 DEF Waits, ItemSeq
  <2>5. ~SaidBefore("process", n, i)'
    BY <1>1, <2>2 DEF GapInv, HistoryFits
  <2>6. ASSUME NEW m \in 1 .. n - 1, classOf[n] = "handshake" \/ SaidBefore("hold", m, i)'
        PROVE  Said("process", m) \/ Passed(m)
    <3>1. CASE classOf[n] = "handshake"
      <4>1. m \in 1 .. contiguous
        BY <1>1, <2>4, <3>1
      <4> QED BY <4>1 DEF GapInv, HistoryFits
    <3>2. CASE SaidBefore("hold", m, i)'
      <4>1. Said("hold", m) /\ m \in ItemSeq /\ ~(m >= n)
        BY <1>1, <2>2, <3>2 DEF ItemSeq
      <4> QED BY <2>4, <4>1 DEF GapInv, HistoryFits
    <3> QED BY <2>6, <3>1, <3>2
  <2> QED BY <1>14, <2>1, <2>5, <2>6
<1>16. ASSUME NEW j \in 1 .. Len(w), NEW i, i = L + 1 + j PROVE OrderAt(i)'
  <2>1. i \in L + 1 .. Len(emitted') /\ i - 1 = L + j
    <3> QED BY ONLY <1>sizes, <1>16
  <2>2. w[j] \in out /\ w[j] \in 1 .. reach /\ w[j] \in waits /\ w[j] > contiguous
    BY <1>1, <1>3, <1>4, <1>7 DEF ItemSeq
  <2>3. ~SaidBefore("process", w[j], i)'
    <3>1. SUFFICES ASSUME NEW k \in 1 .. L + j, emitted'[k] = <<"process", w[j]>> PROVE FALSE
      BY <2>1 DEF SaidBefore
    <3>5. L \in Nat /\ Len(w) \in Nat
      BY <1>6
    <3>2. CASE k \in 1 .. L
      <4>1. Said("process", w[j])
        <5>1. L + 1 - 1 = L /\ emitted[k] = <<"process", w[j]>>
          BY <1>6, <3>1, <3>2
        <5> QED BY <3>2, <5>1 DEF Said, SaidBefore
      <4>2. w[j] \in seen \ held /\ w[j] \in ItemSeq
        <5>1. w[j] \in ItemSeq /\ ~(w[j] <= contiguous)
          BY <1>1, <1>4, <2>2
        <5> QED BY <4>1, <5>1 DEF GapInv, HistoryFits
      <4> QED BY <1>1, <1>4, <2>2, <4>2
    <3>3. CASE k = L + 1
      BY <1>4, <1>5, <1>6, <2>2, <3>1, <3>3
    <3>4. CASE k \in L + 2 .. L + j
      <4>1. k - L - 1 \in 1 .. Len(w) /\ k - L - 1 < j /\ L + 1 + (k - L - 1) = k
        BY ONLY <1>16, <3>1, <3>4, <3>5
      <4>2. emitted'[k] = <<"process", w[k - L - 1]>>
        BY <1>6, <4>1
      <4>3. w[k - L - 1] < w[j]
        BY <1>7, <4>1
      <4> QED BY <2>2, <3>1, <4>2, <4>3
    <3>6. k \in 1 .. L \/ k = L + 1 \/ k \in L + 2 .. L + j
      BY ONLY <1>16, <3>1, <3>5
    <3> QED BY <3>2, <3>3, <3>4, <3>6
  <2>4. ASSUME NEW m \in 1 .. w[j] - 1
        PROVE  SaidBefore("process", m, i)' \/ PassedBefore(m, i)'
    <3>1. m \in ItemSeq /\ m \in 1 .. reach /\ m < w[j]
      BY <1>1, <1>3, <2>2 DEF ItemSeq
    <3>2. CASE m <= contiguous
      <4>1. m \in 1 .. contiguous
        BY <1>1, <3>2
      <4> QED BY <1>14, <2>1, <4>1 DEF GapInv, HistoryFits
    <3>3. CASE m \in seen \ held
      BY <1>14, <2>1, <3>3 DEF GapInv, HistoryFits
    <3>4. CASE m \in waits
      <4>1. m \in out
        BY <1>4, <3>1, <3>4
      <4>2. PICK k \in 1 .. Len(w) : w[k] = m
        BY <1>7, <4>1
      <4>3. ~(j < k) /\ j # k
        BY <1>7, <2>2, <3>1, <4>2
      <4>4. L + 1 + k \in 1 .. i - 1 /\ emitted'[L + 1 + k] = <<"process", m>>
        BY <1>6, <1>16, <4>2, <4>3
      <4> QED BY <4>4 DEF SaidBefore
    <3>5. CASE m = n /\ m \notin waits
      <4>1. L + 1 \in 1 .. i - 1 /\ emitted'[L + 1] = <<"process", m>>
        BY <1>4, <1>5, <1>6, <1>16, <3>5
      <4> QED BY <4>1 DEF SaidBefore
    <3>6. m <= contiguous \/ m \in seen \cup {n}
      BY <1>1, <1>3, <3>1
    <3> QED BY <1>4, <3>2, <3>3, <3>4, <3>5, <3>6
  <2> QED BY <1>6, <1>16, <2>3, <2>4 DEF OrderAt
<1>17. EpochsInOrder'
  <2>1. \A i \in 1 .. L : OrderAt(i)'
    BY <1>6, <1>8, EpochsByItem DEF GapInv
  <2>2. ASSUME NEW i \in 1 .. Len(emitted') PROVE OrderAt(i)'
    <3>1. CASE i \in L + 2 .. Len(emitted')
      <4>1. i - L - 1 \in 1 .. Len(w) /\ i = L + 1 + (i - L - 1)
        BY <1>6, <3>1
      <4> QED BY <1>16, <4>1
    <3> QED BY <1>6, <1>15, <2>1, <3>1
  <2> QED BY <2>2 DEF EpochsInOrder, OrderAt
<1> QED BY <1>12, <1>13, <1>17 DEF GapInv

-----------------------------------------------------------------------------
(* The theorems.                                                           *)

\* GapInv holds in every reachable state of the tracker (GapTracker.step).
THEOREM GapInvariant == GapSpec => []GapInv
<1>1. GapInv /\ [GapNext]_gapVars => GapInv'
  <2> SUFFICES ASSUME GapInv, [GapNext]_gapVars PROVE GapInv'
    OBVIOUS
  <2>1. CASE GapClock
    BY <2>1, ClockStep
  <2>2. CASE \E n \in ItemSeq : ItemArrives(n)
    BY <2>2, ItemStep
  <2>3. CASE UNCHANGED gapVars
    <3>1. UNCHANGED <<classOf, contiguous, seen, held, emitted>>
      BY <2>3 DEF gapVars
    <3>2. GapTypes' /\ HistoryFits'
      BY <3>1 DEF GapInv, GapTypes, HistoryFits, Said, SaidBefore, Passed, PassedBefore
    <3>3. Len(emitted) \in Nat
      BY LenProperties DEF GapInv, GapTypes
    <3>4. \A i \in 1 .. Len(emitted') : OrderAt(i)'
      BY <3>1, <3>3, HistoryGrows, EpochsByItem DEF GapInv
    <3>5. EpochsInOrder'
      BY <3>4 DEF EpochsInOrder, OrderAt
    <3> QED BY <3>2, <3>5 DEF GapInv
  <2> QED BY <2>1, <2>2, <2>3 DEF GapNext
<1> QED BY GapInitInv, <1>1, PTL DEF GapSpec

\* However the items arrive, no epoch is entered before what belongs to an
\* earlier one, nothing overtakes a held item and nothing is processed twice.
THEOREM EpochsStayInOrder == GapSpec => []EpochsInOrder
<1>1. GapInv => EpochsInOrder
  BY DEF GapInv
<1> QED BY GapInvariant, <1>1, PTL

\* Whatever the tracker holds waits for an item that is missing, and whatever
\* it held was processed or passed over when it is held no longer.
THEOREM NothingHeldForEver == GapSpec => []HeldBehindGap
<1>1. GapInv => HeldBehindGap
  <2> SUFFICES ASSUME GapInv PROVE HeldBehindGap
    OBVIOUS
  <2>1. held # {} => \E m \in 1 .. Min(held) : m > contiguous /\ m \notin seen
    <3> SUFFICES ASSUME held # {} PROVE \E m \in 1 .. Min(held) : m > contiguous /\ m \notin seen
      OBVIOUS
    <3>1. held \subseteq Nat /\ contiguous \in Nat /\ held \subseteq seen
      BY GapAssumption DEF GapInv, GapTypes, ItemSeq
    <3>2. PICK n \in held : \A m \in held : n <= m
      BY <3>1, Least
    <3>3. Min(held) \in held
      BY <3>2 DEF Min
    <3>4. \A m \in seen : m > contiguous + 1
      BY DEF GapInv, GapTypes
    <3>5. Min(held) \in Nat /\ Min(held) > contiguous + 1 /\ contiguous + 1 \notin seen
      <4>1. Min(held) \in Nat /\ Min(held) \in seen
        BY <3>1, <3>3
      <4>2. ~(contiguous + 1 > contiguous + 1)
        BY <3>1
      <4> QED BY <3>4, <4>1, <4>2
    <3>6. contiguous + 1 \in 1 .. Min(held) /\ contiguous + 1 > contiguous
      BY <3>1, <3>5
    <3> QED BY <3>5, <3>6
  <2>2. \A n \in ItemSeq : n \in seen \ held => <<"process", n>> \in Range(emitted)
    <3>1. ASSUME NEW n \in seen \ held PROVE <<"process", n>> \in Range(emitted)
      <4>1. PICK j \in 1 .. Len(emitted) + 1 - 1 : emitted[j] = <<"process", n>>
        <5>1. Said("process", n)
          BY DEF GapInv, HistoryFits
        <5> QED BY <5>1 DEF Said, SaidBefore
      <4>2. j \in DOMAIN emitted
        BY <4>1, LenProperties DEF GapInv, GapTypes
      <4> QED BY <4>1, <4>2 DEF Range
    <3> QED BY <3>1
  <2>3. \A n \in ItemSeq : LET end == Len(emitted) + 1 IN
           SaidBefore("hold", n, end) =>
              n \in held \/ SaidBefore("process", n, end) \/ PassedBefore(n, end)
    BY DEF GapInv, HistoryFits, Said, Passed
  <2> QED BY <2>1, <2>2, <2>3 DEF HeldBehindGap
<1> QED BY GapInvariant, <1>1, PTL
=============================================================================
