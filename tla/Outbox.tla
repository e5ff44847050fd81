-------------------------------- MODULE Outbox --------------------------------
(***************************************************************************)
(* What a device has deposited for one group and its hub has not answered: *)
(* class HubOutage of impl/tools/dsipvec/messaging.py, in front of a hub   *)
(* that orders an item once, answers the same bytes again with the same    *)
(* answer, and refuses some.  Deposits and answers get lost, an answer may *)
(* come after the device has stopped waiting for it, and the device        *)
(* restarts in the middle of an outage.                                    *)
(*                                                                         *)
(* How long a backoff takes is left open: retry says that the next try has *)
(* been scheduled.  The clock counts an outage up to hub_timeout.          *)
(***************************************************************************)
EXTENDS Integers, Sequences, SequencesExt

CONSTANTS ItemId,      \* the items
          HubTimeout   \* hub_timeout, in ticks

ASSUME OutboxAssumption == HubTimeout \in Nat \ {0}

VARIABLES state,      \* "up", "down" or "abandoned"
          outbox,     \* the items not answered yet, in order (pending)
          downFor,    \* how long the hub has been down
          retry,      \* the next try is scheduled (retry_at)
          handover,   \* of an abandoned outbox: "trying", "failed", "scheduled", "done"
          handed,     \* the items passed on to the successor group
          told,       \* the items whose fate the caller was told
          waiting,    \* the items tried whose answer the device waits for
          toHub,      \* deposits under way
          answers,    \* answers under way
          ordered,    \* the items the hub has ordered
          refusable   \* the items it would refuse

trackerVars == <<state, outbox, downFor, retry, handover, handed, told>>
hubSideVars == <<ordered, refusable>>
outboxVars == <<trackerVars, waiting, toHub, answers, hubSideVars>>

OutboxInit ==
  /\ state = "up" /\ outbox = <<>> /\ downFor = 0 /\ retry = FALSE
  /\ handover = "trying" /\ handed = {} /\ told = {}
  /\ waiting = {} /\ toHub = {} /\ answers = {}
  /\ ordered = {} /\ refusable \in SUBSET ItemId

Deposited == Range(outbox) \cup handed \cup told

Forward(who, waits) ==
  /\ toHub' = toHub \cup who
  /\ waiting' = waits \cup who

-----------------------------------------------------------------------------
(* The device.                                                             *)

DepositItem(i) ==
  /\ i \notin Deposited
  /\ IF state = "abandoned"
     THEN told' = told \cup {i} /\ UNCHANGED <<outbox, toHub, waiting>>
     ELSE /\ outbox' = Append(outbox, i)
          /\ Forward(IF state = "up" THEN {i} ELSE {}, waiting)
          /\ UNCHANGED told
  /\ UNCHANGED <<state, downFor, retry, handover, handed, answers, hubSideVars>>

\* _unreachable: no answer, or the mailbox could not reach the hub, or the hub
\* had no room.
Unreachable(i) ==
  /\ i \in waiting
  /\ waiting' = waiting \ {i}
  /\ IF i \in Range(outbox) THEN state' = "down" /\ retry' = TRUE
     ELSE UNCHANGED <<state, retry>>
  /\ UNCHANGED <<outbox, downFor, handover, handed, told, toHub, answers, hubSideVars>>

\* An answer: the item leaves the outbox and the caller is told.
Settled(i) ==
  /\ outbox' = SelectSeq(outbox, LAMBDA j : j # i)
  /\ told' = told \cup {i}

\* Mutant: the hub is back and what waited is not sent again.
NothingSentAgain(i) == {}

\* What the end of an outage sends again: all that is left.
SentAgain(i) == IF i \in Range(outbox) /\ state = "down" THEN Range(outbox) \ {i} ELSE {}

\* The hub has ordered i; if it was down it is back.
Accepted(i) ==
  /\ [id |-> i, accepted |-> TRUE] \in answers
  /\ answers' = answers \ {[id |-> i, accepted |-> TRUE]}
  /\ IF i \in Range(outbox)
     THEN /\ Settled(i)
          /\ state' = "up" /\ downFor' = 0 /\ retry' = FALSE
     ELSE UNCHANGED <<outbox, told, state, downFor, retry>>
  /\ Forward(SentAgain(i), waiting \ {i})
  /\ UNCHANGED <<handover, handed, hubSideVars>>

\* The hub has refused i, which is no outage and no end of one.
Refused(i) ==
  /\ [id |-> i, accepted |-> FALSE] \in answers
  /\ answers' = answers \ {[id |-> i, accepted |-> FALSE]}
  /\ waiting' = waiting \ {i}
  /\ IF i \in Range(outbox) THEN Settled(i) ELSE UNCHANGED <<outbox, told>>
  /\ UNCHANGED <<state, downFor, retry, handover, handed, toHub, hubSideVars>>

\* The scheduled try of the head is made.
Retry ==
  /\ state = "down"
  /\ retry /\ outbox # <<>>
  /\ retry' = FALSE
  /\ Forward({Head(outbox)}, waiting)
  /\ UNCHANGED <<state, outbox, downFor, handover, handed, told, answers, hubSideVars>>

\* An outage gets longer, and after hub_timeout the outbox is abandoned and what
\* it holds goes to a successor group.
OutageGoesOn ==
  /\ state = "down"
  /\ IF downFor + 1 < HubTimeout
     THEN downFor' = downFor + 1 /\ UNCHANGED <<state, outbox, handed, retry>>
     ELSE /\ state' = "abandoned" /\ downFor' = HubTimeout
          /\ outbox' = <<>> /\ handed' = Range(outbox) /\ retry' = FALSE
  /\ UNCHANGED <<handover, told, waiting, toHub, answers, hubSideVars>>

\* The host restores an outbox that was down: the first try is due at once.
OutboxRestored ==
  /\ state = "down"
  /\ retry' = TRUE
  /\ waiting' = {}
  /\ UNCHANGED <<state, outbox, downFor, handover, handed, told, toHub, answers, hubSideVars>>

\* The successor cannot be set up yet, is tried again, takes the items.
HandoverStep(from, to) ==
  /\ state = "abandoned"
  /\ handover = from
  /\ handover' = to
  /\ UNCHANGED <<state, outbox, downFor, retry, handed, told, waiting, toHub, answers, hubSideVars>>

HandoverFailed == HandoverStep("trying", "scheduled")
HandoverRetried == HandoverStep("scheduled", "trying")
HandoverSucceeds == HandoverStep("trying", "done")

-----------------------------------------------------------------------------
(* The hub and the way to it.                                              *)

Answer(i, accepted) == answers' = answers \cup {[id |-> i, accepted |-> accepted]}

HubAnswers(i) ==
  /\ i \in toHub
  /\ toHub' = toHub \ {i}
  /\ \/ i \notin refusable /\ ordered' = ordered \cup {i} /\ Answer(i, TRUE)
     \/ i \in refusable /\ UNCHANGED ordered /\ Answer(i, FALSE)
  /\ UNCHANGED <<trackerVars, waiting, refusable>>

Lost ==
  /\ \/ \E i \in toHub : toHub' = toHub \ {i} /\ UNCHANGED answers
     \/ \E m \in answers : answers' = answers \ {m} /\ UNCHANGED toHub
  /\ UNCHANGED <<trackerVars, waiting, hubSideVars>>

OutboxNext ==
  \/ \E i \in ItemId : \/ DepositItem(i) \/ Unreachable(i) \/ Accepted(i) \/ Refused(i)
                       \/ HubAnswers(i)
  \/ Retry \/ OutageGoesOn \/ OutboxRestored
  \/ HandoverFailed \/ HandoverRetried \/ HandoverSucceeds
  \/ Lost

\* A device does not wait for ever, makes the tries it has scheduled, and a
\* successor can be set up in the end.
OutboxFairness ==
  /\ \A i \in ItemId : WF_outboxVars(Unreachable(i))
  /\ WF_outboxVars(Retry)
  /\ WF_outboxVars(OutageGoesOn)
  /\ WF_outboxVars(HandoverRetried)
  /\ SF_outboxVars(HandoverSucceeds)

OutboxSpec == OutboxInit /\ [][OutboxNext]_outboxVars /\ OutboxFairness

-----------------------------------------------------------------------------
(* Properties.                                                             *)

\* Whatever a device deposits is settled: ordered or refused and the caller told,
\* or taken over by the successor group, even if the hub never answers again.
EverythingSettles ==
  \A i \in ItemId : (i \in Deposited) ~> (i \in told \/ (i \in handed /\ handover = "done"))

\* While the hub is down the device goes on trying: a try is scheduled or its
\* answer is awaited.
DownKeepsTrying == state = "down" /\ outbox # <<>> => retry \/ waiting \cap Range(outbox) # {}
=============================================================================
