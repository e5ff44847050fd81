--------------------------------- MODULE Feed ---------------------------------
(***************************************************************************)
(* What a hub promises the mailboxes of a group, with nothing of how it    *)
(* keeps the promise.  Items get rising numbers and join the backlogs of   *)
(* the mailboxes they are for.  Of a backlog only the oldest item is ever  *)
(* under way, it leaves only when it is acknowledged, and no item is       *)
(* skipped unless the whole backlog is given up.                           *)
(***************************************************************************)
EXTENDS Integers, Sequences

CONSTANT Mailbox

VARIABLES backlog,  \* mailbox -> the numbers not acknowledged yet, oldest first
          last,     \* the last number that was given out
          sent      \* mailbox -> what is under way to it

feedVars == <<backlog, last, sent>>

Oldest(q) == IF q = <<>> THEN {} ELSE {Head(q)}

FeedInit ==
  /\ backlog = [m \in Mailbox |-> <<>>]
  /\ last = 0
  /\ sent = [m \in Mailbox |-> {}]

\* A number is given out, to an item for m or not for m.
Order(m) ==
  /\ last' > last
  /\ backlog'[m] \in {backlog[m], Append(backlog[m], last')}
  /\ sent[m] \subseteq sent'[m]

\* The oldest item is sent, sent again or lost; or nothing happens at m.
Transmit(m) ==
  /\ last' = last
  /\ backlog'[m] = backlog[m]

\* The oldest item is acknowledged.
Acknowledge(m) ==
  /\ last' = last
  /\ backlog[m] # <<>>
  /\ backlog'[m] = Tail(backlog[m])

\* m has been silent for too long.
GiveUp(m) ==
  /\ last' = last
  /\ backlog'[m] = <<>>

FeedNext ==
  \A m \in Mailbox :
     /\ Order(m) \/ Transmit(m) \/ Acknowledge(m) \/ GiveUp(m)
     /\ sent'[m] \subseteq Oldest(backlog'[m])

FeedSpec == FeedInit /\ [][FeedNext]_feedVars
=============================================================================
