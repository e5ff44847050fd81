------------------------------ MODULE CommitRetry ------------------------------
(***************************************************************************)
(* Devices that commit to one group at the same time: class CommitRetry of *)
(* impl/tools/dsipvec/messaging.py, one per committer, in front of a hub   *)
(* that accepts one commit per epoch.  A committer that loses syncs past   *)
(* the epoch it committed from and proposes again what is still needed.    *)
(***************************************************************************)
EXTENDS Integers, Sequences, FiniteSets

CONSTANTS Committer,
          Operation,    \* what they want done; two may want the same
          MaxAttempts   \* max_attempts

ASSUME RetryAssumption == MaxAttempts \in Nat \ {0}

VARIABLES wanted,    \* committer -> the operation
          base,      \* committer -> the epoch it has synced to, and commits from
          attempt,   \* committer -> the number of its proposals
          commit,    \* committer -> "none", "pending", "syncing", "merged", "done" or "surfaced"
          reason,    \* committer -> the hub's last answer (last_reason)
          unknownUsed, \* the committers that have retried an unregistered condition
          commits    \* the commits the hub has accepted, one per epoch

retryVars == <<wanted, base, attempt, commit, reason, unknownUsed, commits>>

RetryInit ==
  /\ wanted \in [Committer -> Operation]
  /\ base = [c \in Committer |-> 0]
  /\ attempt = [c \in Committer |-> 0]
  /\ commit = [c \in Committer |-> "none"]
  /\ reason = [c \in Committer |-> "none"]
  /\ unknownUsed = {}
  /\ commits = <<>>

AppliedBy(epoch) == {wanted[commits[e]] : e \in 1 .. epoch}

Enters(c, state) == commit' = [commit EXCEPT ![c] = state]

\* The first proposal, from the epoch the committer is in.
Propose(c) ==
  /\ commit[c] = "none"
  /\ \E epoch \in 0 .. Len(commits) :
        /\ wanted[c] \notin AppliedBy(epoch)
        /\ base' = [base EXCEPT ![c] = epoch]
  /\ attempt' = [attempt EXCEPT ![c] = 1]
  /\ Enters(c, "pending")
  /\ UNCHANGED <<wanted, reason, unknownUsed, commits>>

-----------------------------------------------------------------------------
(* The hub's answer.                                                       *)

Merged(c) ==
  /\ commit[c] = "pending"
  /\ base[c] = Len(commits)
  /\ commits' = Append(commits, c)
  /\ Enters(c, "merged")
  /\ reason' = [reason EXCEPT ![c] = "accepted"]
  /\ UNCHANGED <<wanted, base, attempt, unknownUsed>>

\* Mutant: the last proposal is never made.
OneTooFew(c) == attempt[c] < MaxAttempts - 1

MayRetry(c) == attempt[c] < MaxAttempts

\* commit-conflict or stale-epoch, or unknown-group from a hub the group has left.
CommitLost(c, why) ==
  /\ commit[c] = "pending"
  /\ why = "unknown-group" \/ base[c] < Len(commits)
  /\ Enters(c, IF MayRetry(c) THEN "syncing" ELSE "surfaced")
  /\ reason' = [reason EXCEPT ![c] = why]
  /\ UNCHANGED <<wanted, base, attempt, unknownUsed, commits>>

\* A refusal that says nothing of the order: retried once if it is unregistered.
RefusedCommit(c, why) ==
  /\ commit[c] = "pending"
  /\ IF why = "unregistered" /\ c \notin unknownUsed /\ MayRetry(c)
     THEN Enters(c, "syncing") /\ unknownUsed' = unknownUsed \cup {c}
     ELSE Enters(c, "surfaced") /\ UNCHANGED unknownUsed
  /\ reason' = [reason EXCEPT ![c] = why]
  /\ UNCHANGED <<wanted, base, attempt, commits>>

-----------------------------------------------------------------------------
\* Mutant: what it has synced to is not looked at.
AlwaysNeeded(c, epoch) == TRUE

StillNeeded(c, epoch) == wanted[c] \notin AppliedBy(epoch)

\* Synced past the epoch committed from if the commit lost, to where it may be
\* behind again.  A sync that shows no move makes unknown-group final.
Synced(c) ==
  /\ commit[c] = "syncing"
  /\ \E epoch \in base[c] .. Len(commits), moved \in BOOLEAN :
        /\ reason[c] = "conflict" \/ moved => epoch > base[c]
        /\ base' = [base EXCEPT ![c] = epoch]
        /\ IF reason[c] = "unknown-group" /\ ~moved
           THEN Enters(c, "surfaced") /\ UNCHANGED attempt
           ELSE IF StillNeeded(c, epoch)
                THEN Enters(c, "pending") /\ attempt' = [attempt EXCEPT ![c] = @ + 1]
                ELSE Enters(c, "done") /\ UNCHANGED attempt
  /\ UNCHANGED <<wanted, reason, unknownUsed, commits>>

RetryNext ==
  \E c \in Committer :
     \/ Propose(c) \/ Merged(c) \/ Synced(c)
     \/ \E why \in {"conflict", "unknown-group"} : CommitLost(c, why)
     \/ \E why \in {"unregistered", "final"} : RefusedCommit(c, why)

RetrySpec == RetryInit /\ [][RetryNext]_retryVars

-----------------------------------------------------------------------------
(* Properties.                                                             *)

\* No operation is committed twice, however many want it and however often they
\* lose and propose again.
AppliedOnce ==
  \A d, e \in 1 .. Len(commits) : wanted[commits[d]] = wanted[commits[e]] => d = e

\* A committer that gives up because it lost has lost max_attempts races (one
\* less if it has retried an unregistered condition) to as many commits of others.
LosersHadTheirTries ==
  \A c \in Committer : commit[c] = "surfaced" /\ reason[c] = "conflict" =>
     /\ Cardinality({e \in 1 .. Len(commits) : commits[e] # c})
           >= MaxAttempts - (IF c \in unknownUsed THEN 1 ELSE 0)
     /\ attempt[c] = MaxAttempts
=============================================================================
