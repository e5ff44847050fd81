# DSIP in TLA+

A verification project for the reference implementation of DSIP (decentralized
session initiation), the Python package `impl/tools/dsipvec`.  It holds TLA+
modules of the protocol engines, TLC configurations that model-check them on
small instances, and TLAPS proofs for every value of the constants.
`PROJECT.json` lists components, runs, hazards, findings, theorems, and for each
definition the source lines it models.

Line numbers below are those of the Python files unless said otherwise.

## 1. The system

DSIP sets up calls, broadcasts and messaging between parties that are DIDs.  The
implementation is a set of deterministic engines: each has a `step(event)` that
changes its state and returns what it emits, and the conformance vectors replay
event lists against them.  A vector holds one engine and one order of events.
What no vector covers is several engines together and every order; that is what
the modules here are for.

### Components

| Component | State | Operations | Talks to | Hard parts | Correct when |
|---|---|---|---|---|---|
| Session engine, `session.py` `Endpoint` | sessions by id (role, state, peer, pending update, queue count), timers, started media | local: place_call, cancel, hangup, alert, auto_reject, accept, decline, update, answer_update, reject_update, info; clock; every received message | peers, through relays | crossing messages, timers against late answers, glare, forked answers, update glare | both ends agree once nothing is in transit; one answer per invite; each attempt is bounded by one timer; media iff ACTIVE |
| ... first-contact part of it | grants, presence keys, introductions | introduce, grant, revoke, recv_introduction, recv_grant, recv_own_record | peers | a grant revoked while an invite is under way | an invite without a grant is refused |
| Relay, `relay.py` `Relay` | bindings, known recipients, attempts with their legs, held envelopes | bind, unbind, recv, leg_expired, clock (queues, silent legs, forgetting) | endpoints | legs that answer, reject, expire, bind and are cancelled in any order; store and forward against binding | an attempt has one outcome, and it is what its legs did; nobody is left in a call |
| Hub, `messaging.py` `Hub` | epoch, sequence, roster, digests, two queues per identity, holds, retention clocks | deposit (application, proposal, commit, external commit, GroupInfo, return), ack, clock, restart | mailboxes | welcomes before items, retry after restart, retention, moving between hubs | every member gets every item once, in order, after its welcome |
| Mailbox, `messaging.py` `Mailbox` | registrations, stored items with cursors, acks, key packages, quota, archive | welcome, hub deposit, forward, sync, config, archive, key packages, clock, restart | hubs, devices | handover between hubs, redelivery, queue-mode deletion, pending groups | nothing stored twice or lost, key packages used once |
| Messaging device engines: `Resume`, `GapTracker`, `CommitRetry`, `HubOutage`, `SuccessorTracker`, `MoveArrival`, `Enrolment`, `History` | one small machine each | answers, timeouts, items, crashes | hub, mailbox | retries against late answers, gaps, crash and resume | every item is applied once, in order; members converge |
| Gateway, `gateway.py` `GatewayCall` | a SIP half and a DSIP half | both signalling sides, Timer C | SIP peer, endpoint | cancel crossing 200 OK, early media | both halves end together |
| Wake, `wake.py` `Waker` | registrations, bindings, held invites with whom they woke | register, end, bind, unbind, hold, drop, store, time | relay or mailbox, push service | an invite held again, bindings and registrations while it is held | whoever shows a call is told of its end |
| Broadcast, `broadcast.py` `Authority`, `Subscriber` | subscriptions with leases | subscribe, renew, notify, expire | each other | expiry against renewal, notifies out of order | a subscriber knows whether it is subscribed, and to what |
| Device events, `events.py`, `events_v3.py`, `syslog_sign.py` | alarm list, informs, held clears, replay windows | reports, retransmission, verdicts of the hub, operators' acks, time | devices, hub, members | retransmission against a late verdict, a clear held back against a newer report | the list shows what the device last reported |
| Recording consent, `recording.py`; media binding, `binding.py`; presence, `presence.py` | consents; candidates and rounds; key epochs | | inside a session | pending consent at answer time; early candidates | |
| Envelope pipeline, semantics, registry, identity, transparency, number binding, key agreement | caches only | verification of one object after another | all | parsing and cryptography | |
| Generators, harness, fuzzer; TypeScript twin `impl-ts` | | test tooling; a second implementation of the same vectors | | | |

A call goes Endpoint - connection - Relay - connection - Endpoints.  A message
goes device - own mailbox - hub - members' mailboxes - devices.  The envelope
pipeline stands before every engine: signatures, expiry and the replay check
have happened when `recv` is called.

## 2. Modules

| Module | Models | Composition |
|---|---|---|
| `Signaling` | DIDs, ids, messages, reasons and statuses | extended by the two engines |
| `Endpoint` | `session.py`: the call half of class `Endpoint` | `Spec`: devices before an arbitrary environment |
| `DirectCall` | two or more Endpoints | FIFO connections between Endpoints |
| `Relay` | `relay.py`: class `Relay` | `RelaySpec`: a relay before arbitrary devices |
| `ForkedCall` | caller, relay, callee's devices | Endpoint and Relay, two FIFO connections per device |
| `Hub` | `messaging.py`: class `Hub`, `check_roster_change`, `check_external_join` | `HubSpec`: a hub before arbitrary members and mailboxes |
| `Feed` | what a hub promises each mailbox, abstractly | `Hub` implements it (`Feeds == INSTANCE Feed WITH ...`) |
| `Mailbox` | `messaging.py`: class `Mailbox`, group traffic | the operations of one mailbox; no specification of its own |
| `Resume` | `messaging.py`: class `Resume` | the position of a device, as pure operators |
| `Delivery` | hubs, one mailbox, its devices | Mailbox, Resume, and a queue per hub that obeys Feed |
| `Gateway` | `gateway.py`: class `GatewayCall` | a controller before a SIP party |
| `Outbox` | `messaging.py`: class `HubOutage` | a device, a hub and a lossy way between them |
| `Successors` | `messaging.py`: `SuccessorTracker`, `select_successor` | any number of devices and welcomes under way |
| `Gaps` | `messaging.py`: class `GapTracker` | a device before an arbitrary order of items |
| `CommitRetry` | `messaging.py`: class `CommitRetry` | any number of committers before one hub |
| `Waker` | `wake.py`: class `Waker` | a wake state before arbitrary calls |
| `Subscriptions` | `broadcast.py`: subscriptions of `Authority`, class `Subscriber` | an authority and its subscribers |
| `Alarms` | `events.py`: classes `HoldDown`, `InformTracker`, `AlarmList` | a device's reports, the gateway, the hub's verdicts, the list |
| `EndpointProofs`, `HubProofs`, `RelayProofs`, `DeliveryProofs` | theorems and their proofs | extend `Endpoint`, `Hub`, `Relay`, `Delivery` |
| `CallProofs` | the theorems about two devices | extends `DirectCall` and `EndpointProofs` |
| `ForkProofs` | the theorems about a forked call | extends `ForkedCall`, `EndpointProofs` and `RelayProofs` |
| `EngineProofs` | the theorems about seven small engines | extends `Successors`, `CommitRetry`, `Waker`, `Alarms`, `Subscriptions`, `Gateway`, `Gaps` |
| `LeastNumber` | least and greatest elements of sets of numbers | used by `RelayProofs`, `EngineProofs` and `DeliveryProofs` |
| `MCEndpoint`, `MCDirectCall`, `MCRelay`, `MCForkedCall`, `MCHub`, `MCDelivery`, `MCGateway`, `MCOutbox` | values for TLC | |
| `MCEngines` | the eight engines `Gateway` to `Alarms` | side by side: each behaviour runs one of them |

Definitions whose comment begins "Mutant:" are plausible bugs of the definition
below them.  No specification uses them: each shows that a property can fail.

### How the models correspond to the code

*One action per handler.*  Each local event, each `recv_*`, each relay event and
each kind of deposit is an action.  It models the whole handler: guard from the
conditions and early returns, effects with everything the handler calls (`end`,
`stop_all`, `check_complete`, `_sequence`, `_start_clock`).  A request the code
refuses ("refused", an error to the depositor) changes no state and is no step,
except where the error is a message to a peer that acts on it.

*Messages.*  The engines of the call half take a parameter `rest`: the messages
in transit without the one being handled.  The handler appends what it sends.
The same handlers so serve the open specifications, where the last step's output
is `up` or `down` (the code's `self.out`), and the compositions, where these are
queues.  Ids are numbers, because the code only compares them (glare).  Offers,
media, names and wording are left out.

*Time.*  A running timer may expire at any moment; an invite's `expires_at` is
one event that raises a flag (`lapsed`) for everybody.  This covers every length
of timers.  The hub's retention needs a duration and has a clock per identity.

*Endpoint.*  `sess[d][i]` is the `Session` record, `timers[d]` the running
timers, `media[d]` the sessions whose media was started and not stopped.
`answered` is `answered_device`, `outstanding` the pending update,
`postAnswerSeen` and `wasActive` the flags of the same name.  Grants and the allow
list are abstracted: a device in `FirstContact` may refuse any invite for want of
one, or let it pass.  The answer or refusal of an update names the update it
replies to.

*Relay.*  An attempt's `legs`, `reasons` (as the sequence `rejects`), `heard`
and `outcome` are kept; `inbox` is one sequence in arrival order, as a flush
sorts by arrival.  The device's leg and the queued invites of `bind` are joined
in one action, as `relay_event` does it.

*Hub.*  `digests` maps a digest to its number.  `offered` does not exist in the
code: it is what the hub has sent and not yet seen acknowledged, which a restart
loses.  The clocks hold `now - waiting[identity]`.

*Mailbox.*  `groups[g]` is the registration: `high` is `high_seq`, `prev` is
`previous` with `waited` for `now - since` and `Waiting` for the absent
`released`.  `stream[d]` is what has been written to a device's connection, the
answers to `sync` and the pushes, and not read; it does not exist in the code,
which emits it.  An item without `seq` has 0.  Sizes are 1.

*Resume and Delivery.*  A device processes the head of its stream and commits in
one step, as `_items` does; a crash before the commit is then no change but the
loss of the stream.  What the engines leave to their host is what the profile
prescribes: a device sends `mailbox-config` after its welcome and for each move
(M 7.4), a committer already on `accepted`; a hub retries the head of its queue.
`log[k]` is the hub the group is at once item k is ordered.

*Gateway.*  The DSIP engine lives in the gateway's process: `leg` changes in the
step that tells it.  The SIP party may ring, answer, refuse, cancel, hang up; it
and the queues to it are external.

*Outbox, Successors, Gaps, CommitRetry.*  Each has the state of the class of the
source and next to it what the class talks to: a hub that orders or refuses and
may lose deposits and answers; the welcomes under way; the arrival of items in
any order; the list of commits a hub has accepted.  `emitted` in `Gaps` is what
`step` has returned.

*Waker.*  `screen` is external: the devices on which a call shows, because they
were woken for it and can be told of its end.

*Subscriptions.*  `leases` is the authority's `subscriptions`, `watches` the
subscriber's `subs`; both stand for one target and one list of events.
Subscribes arrive in order, notifies in any.  Whether a subscribe is admitted is
open, since policy, grants and capabilities decide it from documents; so is when
the admitting grant ends.  A subscriber is told nothing of a subscription it
replaced or ended itself: it keeps its entry till that lapses.

*Alarms.*  A report passes `InformTracker` if it is an inform, then `HoldDown`;
the hub decides the deposits in order; the list takes what is ordered.  The hub
refuses only informs here: retrying any other deposit is the outbox's part.
`sent` and `latest` do not exist in the code: what an inform carries, which its
retransmission repeats, and what the gateway was last told of each alarm.
Timers may expire at any moment.  `count` is left out, nothing depends on it.

## 3. What is checked

All runs finish; the passing ones explore everything reachable within the bounds
below.

| Run | Question | Result |
|---|---|---|
| `endpoint` | One device, two sessions, anything from anybody: timers, media, cancellation, one answer | holds |
| `glare` | Two devices call each other: agreement at rest, convergence on the smaller id, calls end together | holds |
| `update` | Updates from both ends: agreement, no false `update-pending`, all settle | holds |
| `relay` | Attempts and held envelopes before arbitrary devices | holds |
| `forked` | Caller, relay and two legs that come and go: one leg active at rest, nobody left behind, answers resolve | holds |
| `hub` | Order, fan-out, welcomes, retention, restart, move and return; the hub implements `Feed` | holds |
| `delivery` | Two hubs, a mailbox, two devices, with a move and a fault: once, in order, nothing lost, everything arrives | holds |
| `engines` | A gateway call; an outage; successors; gaps; racing commits; wakes; subscriptions; alarms | holds |
| `forked_hangup`, `delivery_return`, `gateway_timer`, `outbox_refused` | four sentences of the documents and comments | refuted, section 6 |

The properties with content beyond one engine:

- `CallsAgreeAtRest`, `UpdatesAgreeAtRest`, `OneLegActiveAtRest`,
  `LegRecordsAgreeAtRest`: whatever crossed, the ends agree when the connections
  are empty.  They are the reason for the crossed-cancel rule, late-answer `bye`
  and the relay's rule never to withhold an answer.
- `EndsTogether`, `NobodyLeftBehind`, `AnswersResolve`, `UpdatesSettle`:
  liveness.
- `OpenAttemptHasLeg`, `WaitsForSomebody`: no attempt hangs.
- `HeadsAreOnTheirWay`, `HeldBehindWelcome`: the hub sends the next item only on
  an acknowledgement, so a head that is not under way is a queue that stalls for
  ever, and so is a held queue without a welcome.
- `NobodyIsLeftOut`: who gets an item, who is welcomed.
- `FeedsAreKept`: the refinement.  Nothing is skipped, repeated or overtaken on
  the way to a mailbox; `Delivery` builds on it.
- `NothingIsLost`: responsibility is handed on hop by hop, and never dropped: an
  item is in a hub's queue, in the mailbox, or with every registered device.
- `ProcessedOnce`, `InOrderUnlessAnnounced`, `EverythingArrives`: what the three
  engines promise together.  The hub retries, the mailbox recognises a
  redelivery by its number, the device by its position.
- `LegsEndTogether`, `OneSuccessorAtRest`, `AppliedOnce`: agreement of several
  actors once nothing is under way.
- `EpochsInOrder`, `HeldBehindGap`: the gap rule may neither let an epoch
  overtake an item nor hold anything for ever.
- `LosersHadTheirTries`, `EverythingSettles`, `ShownCallIsHeld`: nobody gives up
  early, no deposit is forgotten, no phone rings on.
- `SubscriberKnows`: authority and subscriber agree when nothing is on its way,
  although either may see a subscription end before the other does.
- `ListShowsTheLatest`: three machines in a row, two of which hold back or repeat
  a report, and the list still ends with the last one.  The exception, an inform
  the hub refused, is real: `HoldDown` has dropped a held clear for it, which the
  device must then send again.

### Bounds

| Bound | Value | Why it is enough |
|---|---|---|
| sessions | 2 (`endpoint`, `glare`), 1 elsewhere | handlers touch one session, except glare, which compares two and may withdraw several: with two ids that happens only when an own id comes back (`SpecColliding`); for more the proofs cover it (`RecvInviteWeLoseInv`) |
| devices | 1 device and two foreign DIDs; 2; a caller and 2 legs | a third leg adds no new relation: legs interact only through the attempt's outcome and the caller's answer |
| update ids | 4, two per device (`update`) | both orders of a glare, and a second update after the first |
| `MaxInFlight` | 0 or 1 | bounds `info` messages only; all other traffic is bounded by the handlers |
| `MaxInbox` | 1 (`relay`), 2 (`forked`) | one held invite or introduction and one later envelope |
| `EnvTag` | 8 tags (`relay`) | one per branch: two reject ranks and an unranked one, a status, and what is routed plainly |
| `MaxSeq`, `MaxEpoch` | 3 | three items: two queued and one ordered behind a welcome |
| `Retention` | 2 ticks | a clock that has run and not expired |
| leaves | two identities, one with two devices | adding an own device, adding another identity, removing part and all of one |
| `delivery`: hubs, devices | 2, 2, one of which may send | one old and one new hub; one device ahead of the other; own items |
| `MaxSeq`, `MaxMoves`, `MaxFaults` | 3, 1, 1 | an item before, at and after a move; each fault at every point.  A second move is in `delivery_return` (4 numbers) |
| `Quota`, `PendingMax`, `PendingTtl`, `Limit`, `MaxCounter` | 9 | not reached: refusals at a limit and pages are left to a hub's retry and are not explored by `delivery` |
| `HandoverWait` | 1 tick | zero or one tick before an item: within the wait or after it |
| `ItemId`, `HubTimeout` | 2, 2 | a head and one item behind it; an outage that ends and one that does not |
| `Heir`, `MaxGroupId` | 3, 3 | three creators, in every order of ids |
| `LastSeq`, `GapTimeout` | 4, 2 | two gaps, and an item held behind a held one |
| `Committer`, `Operation`, `MaxAttempts` | 3, 3, 2 | all want the same, or two or none; the code's default is 3 proposals, with 2 a loser exists among three committers |
| `Sleeper`, `Invite`, `Coalesce`, `MaxTime` | 2, 1, 2, 3 | sessions do not interact; a hold, a second hold and an expiry after both |
| `Watcher`, `MaxSub`, `MaxLease`, `MaxNotices` | 2, 2, 2, 2 | a subscription with its renewal, or those of two devices; an expiry between two changes of the target |
| `Alarm`, `Inform`, `Severity`, `MaxDeposits` | 1, 2, 2, 2 | alarms do not interact; an inform, its retransmission and a newer one; severities below and at the policy |
| `MaxUnderWay` | 2 | bounds provisional responses only |

`MaxRequeues` is the code's own limit.  In `hub` digests are symmetric: no
property or action distinguishes them; that run has no liveness property.
Deadlock is not checked: every engine may stop, when calls are over, ids are used
up or a bound is reached.

### Environment

Connections are reliable and in order, as the core specification requires of
the transport (`v1.0` core, 12.3 and 13.1); nothing is reordered or duplicated
inside one.  In `ForkedCall` a device may be connected late and may disconnect
while nothing is in transit on its connection; what the relay sends to a leg
that has no connection is lost.  The open specifications (`Spec`, `RelaySpec`,
`HubSpec`) assume nothing of the kind: any well-formed message may arrive at any
time, any acknowledgement may be late, repeated or false.

`Fresh` and `FreshInvite` say that an invite id is new to its receiver: ids are
drawn once and the replay check of the envelope pipeline refuses a repetition.
`SpecColliding` drops that promise.

In `Delivery` a fault is a lost answer to a hub, a broken connection or crashed
device, a mailbox restart, a refused cursor, a group-info, or another use of the
mailbox (the welcome again, an archive record, a change of mode, a revoked
device).  In `Outbox` every deposit and answer may be lost or late.  In
`CommitRetry` the hub accepts one commit per epoch, as `Hub` does.

`Forget` in `ForkedCall` happens when nobody waits or decides and nothing is in
transit: the relay forgets an attempt after `T_QUEUE_CAP_S` without a message,
which is not shorter than any timer of a device.

### Fairness

`CallFairness` and `ForkFairness` are weak fairness of delivery on each
connection, of timer expiry, of the relay taking its input, of reconnecting, and
of what a device decides by itself on an offered invite (`alert`, too late or
`auto_reject`) and on an offered update.  The code's scheduling justifies them:
a clock that advances fires a running timer, and the receiver rules have a
device act at once on an invite.  No user action is fair: nobody has to accept,
hang up, or call.

`DeliveryFairness` is weak fairness of a hub's tries (it retries until it is
acknowledged, M 6.5 rule 5), of a device's sync, of its processing of what it is
sent, of the configs it owes, and of the mailbox's clock.  `OutboxFairness` is
weak fairness of giving up the wait for an answer, of a scheduled try, of time,
and of retrying the handover, and strong fairness of a handover succeeding: it
fails any number of times, but not for ever.  No answer is fair: the hub
may never answer, and `EverythingSettles` holds because of `hub_timeout`.

## 4. What is proved

The theorems hold for any sets of devices, parties, sessions, identities,
leaves, digests, committers and operations and any bounds, under the named
assumptions of the modules (`PartyAssumption`, `IdAssumption`,
`PolicyAssumption`; `GroupAssumption`, `BoundAssumption`; `SuccessorAssumption`;
`RetryAssumption`; `WakerAssumption`; `RelayAssumption`; `GapAssumption`;
`AlarmAssumption`; `SubscriptionAssumption`; `GatewayAssumption`;
`MailboxAssumption`, `DeliveryAssumption`), which TLC evaluates.  Two theorems
about `Delivery` and those about `DirectCall` and `ForkedCall` have hypotheses of
their own, given below with the reason.

*Endpoint.*  `EndpointInv` is `TypeOK` and, for each session, `Fits`: the record
is coherent (role follows from state; a live session has a peer; only an active
session has been active or has an update pending; a cancelled one was never
active; it was requeued at most `MaxRequeues` times), its timers are among
`TimersAllowed` of its state, and media is on iff it is ACTIVE.  None of the
four invariants is inductive alone: that a cancelled session was never active
needs that a waiting one has not been; that `end` need not stop media needs that
no session outside ACTIVE has any.  `OneSessionInv` reduces every step to one
session; glare (`RecvInviteWeLoseInv`) and the equal-id case change several and
are proved directly.  From `EndpointInvariant` follow `EndpointTypes`,
`TimersAlwaysMatch`, `MediaFollowsState`, `CancelWins`, `UpdatesNeedActive`.
`OneAnswerOnly` is an action property: `Continues` says what a step may make of
a session that is active or over, `EndpointContinues` that every step obeys it.
The invariant comes in three times: a session that was active is in one of these
two states, a timer that expires finds its session in neither, and a lost glare
withdraws attempts that are in neither.

*DirectCall* (`CallsInvariant`, from which `CallsAgree`, `UpdatesAgreed`,
`UpdatesNeverCollide` and, with one part more, `GlareSettled`).  Any number of
calls and updates, of any ids, between two devices.  `CallsInv` is about one
session at a time, and abstracts a connection to the kinds of the messages about
that session and their order (`KindOf`, `Has`, `Once`, `Before`):

- `CallAgrees`.  `Standing` says for each state of the callee where the caller is
  or what is on the way to it: before the callee has heard of the call the invite
  is ahead of all else (`Unheard`); while it decides the caller waits, or its
  cancel is on the way (`Undecided`); while it is in the call so is the caller,
  or the answer is on its way to it, or the caller is over and word of it on its
  way (`Answered`); the mirror of that once the callee is over (`Over`).
  `CallerSide` and `CalleeSide` say what the record of an end tells of what it
  has sent: that the answer precedes a bye is why no end is left in a call.
- `UpdatesAgree`.  An update is sent once and answered once (`SentOnce`); a
  pending one is on its way, with the other end, or answered (`Awaited`).  The
  part that makes it inductive is `GivenUpLoses`: an end that loses a glare gives
  its update up while that is still on its way, and the other end, which is to
  refuse it, recognises it only because it has a smaller one outstanding until it
  has seen that one answered.
- `Honest`: what is in transit is something the handlers send.
- `GlareSettles`, for `GlareSettled` only: of two attempts in opposite directions
  one has met the other.  `Meant` adds that only who was called heard of it.

At rest all that is "on its way" is gone, and what remains is agreement
(`RestAgrees`).  Every handler of Endpoint is first shown to be, for each
session, one of the fifteen rows of `Turn` (what becomes of the record, which
message is taken, which is sent), and `StepOf` collects what a step does to all
of them; preservation is proved from the rows, once for the caller's side, once
for the callee's and once for the updates.

Two hypotheses.  `TwoDevices`: the properties say of every device but the caller
that it is in the call with it, which is meant, and true, of one other device only;
a call that reaches more than one is the relay's.  `IdentitiesSettled`, for glare:
an identity stands for itself, as `identity_of` (`session.py:124`) takes every DID
to do that its context does not list as a device.
Without it the code's comparison
of identities (`recv_invite`) would not be symmetric.  TLC has found `CallsInv`
and `GlareSettles` to hold on the instances of `glare` and `update` (the latter
with two updates).

*Hub.*  `HubInv` joins the type `HubTypeOK` (`HubTypes`, which no run repeats) and
the queue properties with `ClassesKnown`: order needs all
queues below `nextSeq`; the next head needs a class to be sent with; release
needs a welcome; and `HeldBehindWelcome` needs that what was under way when an
identity became held was its old head.  `HubInvByIdentity` splits it by identity,
`SequencedInv` covers every ordered deposit.  `NumbersAreUnique` is inductive
with the types; `NobodyLeftOut` is an action property, from `OtherSteps` (only
ordered deposits change `digests`) and the handlers.

*The hub implements Feed* (`HubKeepsFeeds`).  The mapping takes `pending` for the
backlogs, `nextSeq - 1` for the last number and what is offered without the
welcomes for what is under way.  `BacklogStep` shows that each hub step changes
each identity's queue in one of the four ways Feed allows; that only the oldest
item is under way afterwards is `HeadsAreOnTheirWay` of `HubInv`, at the state
the step leads to.

*Relay* (`RelayInvariant`, from which `NoAttemptHangs`, `OutcomesAreTrue`,
`HeldForTheOffline`, `ExpiryIsComplete`; with it `OutcomesAreFinal`).  The
invariant is the type, that each attempt is sound (legs, rejects and outcome fit
together) and that of the inbox: whatever is held is for somebody absent and
known, and a held invite is one that is still valid, that the relay has no attempt
for, and of which all copies are for one recipient.  A flush filters the inbox;
what the filter keeps is shown with the least-number principle of `LeastNumber`,
in place of an induction over sequences.

*ForkedCall* (`ForkInvariant`, from which `LegRecordsAgree` and
`NobodyWaitsInVain`; with one part more, `OneLegActive`).  Any number of calls by
one device to an identity with any number of devices, which come and go.
`ForkInv` takes one session at a time and of it the caller and one leg: a `View`
has the records of both, the relay's, and what of the session is on each of the
four connections and in the inbox.  In transit only the place of an invite
matters (`Leads`, `Sole`); for the rest a queue counts as the set of its
messages.  The parts of a view's invariant `Agrees`:

- `CallerFits`, `AttemptFits`: while the invite is on its way nobody else has heard
  of the call; while it is in the inbox the relay has no attempt for it; a cancel
  is only ever sent by a caller that does not wait any more.
- `Waits`: what a waiting caller waits for.  Without the messages it is not
  inductive: the relay closes its attempt while its word is on the way.
- `LegFits`: a leg the relay counts on has the invite before it, has the call
  before its user, or has sent its word; a leg hears of a call once.

`TalkInv`, for `OneLegActive` only, says of a leg in the call that it is the
caller's, that its answer is on its way, or a bye to it: the answer that lost
the race is met with a bye, and each bye says truly that the caller is not, or no
longer, with that leg.

A step is first shown to be a move of every view, or to leave it alone
(`CallerMoves`, `LegMoves`, `RelayHears`, `RelayIsTold`, `LegConnects`,
`TimePasses`): handlers of two modules, cancels that reach several legs, and a
flush of the inbox that connects a leg come down to six kinds of change of nine
fields.  From the moves alone each part of the invariant is then proved.  What
the queues do is in lemmas of their own (`TailQueue`, `ConcatQueue`, `SendQueue`,
`OnlyQueue`, `JoinQueue`).

Hypotheses.  `OneCallee`: the legs are the devices of the identity that is called,
which is neither a device nor the caller's.  A call to a device goes to it alone
(`legs_for`, `relay.py:108-111`) and is not forked.  A call to the caller's own
identity is: the relay would make the calling device a leg of its own call, which
is not the call these properties are about.  `OneLegActive` also has `MayHangUp \cap Leaves = {}`, only the caller
hangs up: without it the property is false, as `forked_hangup` shows.  TLC has
found `ForkInv` and `TalkInv` to hold on the instance of `forked`, and `ForkInv`
on one whose legs hang up as well.

*Gaps* (`GapInvariant`, from which `EpochsStayInOrder`, `NothingHeldForEver`).
Both properties speak of the history `emitted`.  `HistoryFits` relates it to the
present state (what was processed is below the gap or seen and not held, and the
other way round but for what a rejoin passed over); each step appends the numbers it releases in ascending
order, which exist and are unique by `Least` and `Greatest`.

*Successors* (`SettledOnOne`).  `KeepsTheLeast`: a device is in the least
successor it knows and in no other.  `WelcomesReachAll`: what one device knows
the others know or are still to hear of.  With no welcome under way all know the
same, and the least of one set is one group.

*CommitRetry* (`CommittedOnce`, `NobodyGivesUpEarly`).  `AppliedOnce` alone is not inductive; it needs
`NeededWhenProposed`, that the operation of a pending commit is not applied in
the epoch it commits from.  The hub accepts a commit only in its own epoch, so
the accepted operation is new.

*Waker* (`ShownCallsAreHeld`).  `ShownCallIsHeld` is inductive with the types;
the work is in `StillShown`: what shows after a call was not among the calls an
expiry ended, because the registration that keeps it on the screen was live at
the expiry as well.

*Alarms* (`OperatorsSeeTheLatest`).  `ListShowsTheLatest` speaks of a state in
which nothing is held or under way.  `ListCatchesUp` says for every other state
where the last report of an alarm is: held back by `HoldDown`, the last of the
deposits about the alarm, or shown.

*Subscriptions* (`SubscribersKnow`).  `Standing(s)` is the life of one subscribe
from both ends: not decided yet; in force, and then the subscriber knows the
present state or its newest notify is on the way; refused; over; superseded by a
newer one of the same device.  `InTurn`, that subscribes are numbered and decided
in the order they are sent in, is what makes a newer one supersede an older.

*Gateway* (`HalvesEndTogether`).  Each direction of a call has an invariant of
its own (`OutboundCall`, `InboundCall`): for each state of the two halves, what is
in the two queues and what is not, such as that a SIP party which still rings
after the end has a CANCEL or a BYE on its way.  `LegAgrees` ties the controller
to the DSIP engine.  All hold until Timer C has fired, as the run has it.

*Delivery.*  Four invariants, each on top of the one before; all were
model-checked first.

- `DeliveryInv` (`DeliveryInvariant`, `NothingTakenTwice`), for all constants.  A
  device's position covers what the device took and sent, and a device that has not
  joined has its welcome stored, or first on its stream.  The second half is what
  makes the first inductive: the welcome is what sets the position.
- `ReadersInv`.  Streams are in the order of cursors, no item is acknowledged
  unread, and what is stored and not yet taken by a connected device is on its
  stream.  This needs `MaxCounter <= Limit`: an answer to a sync has room for all
  that was ever stored.  Without it the statement is false, as `MCDeliveryPaged`
  shows (section 6).
- `InOrderInv` (`OrderUnlessAnnounced`).  As long as nothing is announced the
  stored numbers ascend with the cursors, up to `high_seq`, and what a device has
  yet to take is above what it processed.  Any number of moves.
- `SafeInv` (`EverythingIsSomewhere`).  Where the move is (`MovedAt`), that a hub's
  queue holds what was ordered while the group was with it (`Queued`), what the
  mailbox knows of the move (`KnowsMove`), and that a number in a queue which
  `high_seq` has passed is stored or will be taken as late (`Passed`).  For at most
  one move: with two it is false, which `delivery_return` shows.

`sync` lists the stored items by cursor.  That the i-th item of the answer is the
one with i items up to it (`Ranks`) takes the place of an induction over
sequences, and the filters of streams that a deletion makes are shown element by
element.

## 5. What is only model-checked, and what is not modelled

Every safety property of the passing runs is proved.  Only model-checked: all
liveness (`EndsTogether`, `NobodyLeftBehind`, `AnswersResolve`, `UpdatesSettle`,
`EverythingArrives`, `EverythingSettles`), which this prover does not handle.

Not modelled: section 1's components without a module, each with its reason in
`PROJECT.json`; most are verification of one object after another.  Recording
consent is an engine of one record, with no second actor.  Within the modelled ones: first contact beyond
its refusal, in the session engine and in the mailbox; KeyPackages; forwarding; a
registration that the owner ends and makes again; a device that rejoins or is
removed; publications, presence records and audiences of the broadcast
authority; the silent-gateway alarm; numeric timer values; the content of offers and answers; `info` topics
and other traffic that only passes the gateway.

## 6. Where code and text disagree

Refuted by a run:

1. `forked_hangup`.  `recv_bye` (`session.py:741-744`) takes a `bye` from anyone.
   A leg that lost the answer race and hangs up by itself ends the caller's call
   with the leg that won, which stays in it.  In `forked` only the caller hangs
   up, so that the rest of that property is checked.
2. `delivery_return`.  A group moves from A to B and back to A while its mailbox
   registers A all the time, because the owner's devices are behind.  A goes on
   delivering with numbers above B's; `high_seq` rises; once the mailbox hears of
   the moves, B's items are at or below `high_seq` and are acknowledged as
   redeliveries (`messaging.py:766`) without having been stored.  The profile
   (M 7.4, lines 1040-1045 and 1067-1068) argues from "the hub delivers in
   order", which is true of each hub and not of the two.
3. `gateway_timer`.  Timer C (`gateway.py:349-351`) does not set `cancelled`; an
   answer that crosses its CANCEL is acknowledged and bridged instead of torn down
   (G 3.1, lines 67 and 71 of the gateway profile).  `engines` checks the calls in
   which Timer C has not fired.
4. `outbox_refused`.  "The answer schedules the next attempt"
   (`messaging.py:1343`), but a refusal does not (1313-1315): the items behind
   the refused head wait for `hub_timeout`.

Six configurations are kept beside the runs and can be run by hand.  The first
five end in a counterexample, the last holds.

| Configuration | Module | Shows |
|---|---|---|
| `MCEndpointColliding.cfg` | `MCEndpoint` | `session.py:589` says an own record "stays as the initiator's ENDED entry"; with two live attempts and an invite that carries the larger one's id lines 573-577 run first and overwrite it |
| `MCRelayTargeted.cfg` | `MCRelay` | `relay.py:3-5` promises the most informative reject when the last leg ends; a targeted cancel of the last leg (242-243) records `cancelled` and forwards nothing |
| `MCForkedSilence.cfg` | `MCForkedCall` | `relay.py:119-123` argues that silence past expiry means the invite was not processed; a progress may be on its connection |
| `MCDeliveryLate.cfg` | `MCDelivery` | "what was stored before is a redelivery as usual" (`messaging.py:743`): a late item of an old hub does not raise `high_seq`, so that, tried again because its answer was lost, it is neither late nor a redelivery and is stored twice |
| `MCDeliveryPaged.cfg` | `MCDelivery` | a live sync binds although its answer is one page of several; an item pushed meanwhile carries the device's cursor past the rest, which queue mode then deletes |
| `MCEndpointUpdate.cfg` | `MCEndpoint` | `UpdateOnlyWhileActive` and `OwnRecordStays` for one session and repeated ids; the first is also proved (`UpdatesNeedActive`) |

## 7. Plan

Done: the call half (Endpoint, Relay, two compositions), the hub and the feed it
implements, the way from hubs to devices, eight single engines, and the proofs of
section 4.  What is left, most important first:

1. `Delivery` with pages, with `GapTracker` in the devices, and with a full
   mailbox.
2. `Attempt`: what a forked attempt promises its initiator (one outcome, reported
   once), with Relay shown to implement it.
3. First contact: grants and presence keys in the session engine and the mailbox.
4. Publications and presence records of the broadcast authority, consent,
   candidates.
