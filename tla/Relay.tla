-------------------------------- MODULE Relay --------------------------------
(***************************************************************************)
(* The forking relay: class Relay of impl/tools/dsipvec/relay.py.  It      *)
(* knows which devices are bound for which identity, delivers an invite to *)
(* every bound device of the addressee (a leg each), tracks the legs until *)
(* the attempt has an outcome, and holds envelopes for known recipients    *)
(* that are offline.                                                       *)
(*                                                                         *)
(* As in Endpoint, every event is one action with a parameter rest, the    *)
(* deliveries in transit before the step; RelaySpec puts the relay in      *)
(* front of devices that may send anything.  The clock is abstract: the    *)
(* expiry of an invite is one event, retention may run out at any time.    *)
(***************************************************************************)
EXTENDS Signaling

CONSTANTS RelayDid,   \* the relay's own DID, the sender of its errors
          MaxInbox,   \* bound: how many envelopes the environment gets queued
          EnvTag      \* bound: the reasons and statuses the environment uses

ASSUME RelayAssumption == /\ RelayDid \in Party \ Device
                          /\ MaxInbox \in Nat
                          /\ EnvTag \subseteq Tag

VARIABLES bound,     \* the devices connected (bindings)
          known,     \* the DIDs a device has bound for and not forgotten
          attempts,  \* session id -> the attempt held for it
          inbox,     \* envelopes held for offline recipients, in arrival order
          down       \* device -> messages delivered to it, in transit

relayVars == <<bound, known, attempts, inbox, down, lapsed>>

-----------------------------------------------------------------------------
(* Attempts.                                                               *)

LegState == {"none", "delivered", "answered", "rejected", "expired", "cancelled"}
Terminal == {"answered", "rejected", "expired", "cancelled"}
Outcome == {"none", "answered", "rejected", "cancelled", "no-response"}

NoAttempt == [initiator |-> Nobody, identity |-> Nobody,
              legs |-> [d \in Device |-> "none"], rejects |-> <<>>, heard |-> {},
              outcome |-> "none"]
Attempt(from, to, D) ==
  [NoAttempt EXCEPT !.initiator = from, !.identity = to,
                    !.legs = [d \in Device |-> IF d \in D THEN "delivered" ELSE "none"]]

Held(i) == attempts[i].initiator # Nobody
Outstanding(a) == {d \in Device : a.legs[d] = "delivered"}
Leg(a, d) == d \in Device /\ a.legs[d] # "none"

\* The order of REASON_RANK; every other reason comes after these.
Rank(reason) ==
  CASE reason = "user.declined" -> 1
    [] reason = "user.no-answer" -> 2
    [] reason = "endpoint.busy" -> 3
    [] reason = "endpoint.unavailable" -> 4
    [] OTHER -> 5

\* The most informative reject, the first of them if several are equally so.
Best(rejects) ==
  LET k == CHOOSE n \in DOMAIN rejects :
             \A j \in DOMAIN rejects :
                \/ Rank(rejects[n].reason) < Rank(rejects[j].reason)
                \/ Rank(rejects[n].reason) = Rank(rejects[j].reason) /\ n <= j
  IN rejects[k]

RelayInit ==
  /\ bound = {}
  /\ known = {}
  /\ attempts = [i \in Sid |-> NoAttempt]
  /\ inbox = <<>>
  /\ down = [d \in Device |-> <<>>]
  /\ lapsed = {}

-----------------------------------------------------------------------------
(* Delivery.                                                               *)

LegsFor(to) == {d \in bound : to = d \/ to = IdentityOf[d]}

\* m goes down the connections of D; what is sent to nobody bound is lost.
SendDown(rest, D, m) ==
  down' = [d \in Device |-> IF d \in D \cap bound THEN Append(rest[d], m) ELSE rest[d]]

RelayError(to, i, reason) == Msg("error", RelayDid, to, i, reason, 0)

Enqueue(m, rest) == inbox' = Append(inbox, m) /\ down' = rest

\* q at the positions in K, in order.
Only(q, K) ==
  LET kept[n \in 0 .. Len(q)] ==
        IF n = 0 THEN <<>> ELSE IF n \in K THEN Append(kept[n - 1], q[n]) ELSE kept[n - 1]
  IN kept[Len(q)]

\* The envelopes at the positions in K leave the inbox.
TakeOut(K) == inbox' = Only(inbox, DOMAIN inbox \ K)

\* Routing by addressee: delivered, held for a known recipient, or refused.
RoutePlain(m, rest) ==
  /\ \/ LegsFor(m.to) # {} /\ SendDown(rest, LegsFor(m.to), m) /\ UNCHANGED inbox
     \/ LegsFor(m.to) = {} /\ m.to \in known /\ Enqueue(m, rest)
     \/ /\ LegsFor(m.to) = {} /\ m.to \notin known
        /\ SendDown(rest, {m.from}, RelayError(m.from, m.sid, "transport.unknown-recipient"))
        /\ UNCHANGED inbox
  /\ UNCHANGED <<bound, known, attempts, lapsed>>

\* a is the new record of attempt i.  When its last outstanding leg ended
\* without an answer the initiator gets the best reject, or the relay's word
\* that nobody responded.
CheckComplete(i, a, rest) ==
  LET Record(outcome) == attempts' = [attempts EXCEPT ![i] = [a EXCEPT !.outcome = outcome]] IN
  \/ /\ a.outcome # "none" \/ Outstanding(a) # {}
     /\ Record(a.outcome)
     /\ down' = rest
  \/ /\ a.outcome = "none" /\ Outstanding(a) = {} /\ a.rejects = <<>>
     /\ Record("no-response")
     /\ SendDown(rest, {a.initiator}, RelayError(a.initiator, i, "transport.no-response"))
  \/ /\ a.outcome = "none" /\ Outstanding(a) = {} /\ a.rejects # <<>>
     /\ Record("rejected")
     /\ LET b == Best(a.rejects) IN
        SendDown(rest, {a.initiator}, Msg("reject", b.leg, a.initiator, i, b.reason, 0))

-----------------------------------------------------------------------------
(* Received envelopes.                                                     *)

\* An introduction is never refused: an unknown and an offline recipient
\* look the same to the sender.
RelayIntroduction(m, rest) ==
  /\ m.type = "introduction"
  /\ \/ LegsFor(m.to) # {} /\ SendDown(rest, LegsFor(m.to), m) /\ UNCHANGED inbox
     \/ LegsFor(m.to) = {} /\ Enqueue(m, rest)
  /\ UNCHANGED <<bound, known, attempts, lapsed>>

\* Forked to every bound device of the addressee.
RelayInvite(m, rest) ==
  /\ m.type = "invite"
  /\ LegsFor(m.to) # {}
  /\ attempts' = [attempts EXCEPT ![m.sid] = Attempt(m.from, m.to, LegsFor(m.to))]
  /\ SendDown(rest, LegsFor(m.to), m)
  /\ UNCHANGED <<bound, known, inbox, lapsed>>

RelayInviteOffline(m, rest) ==
  /\ m.type = "invite"
  /\ LegsFor(m.to) = {}
  /\ RoutePlain(m, rest)

\* The queued invite a cancel withdraws.
QueuedInvite(m) ==
  {k \in DOMAIN inbox : inbox[k].type = "invite" /\ inbox[k].sid = m.sid /\ inbox[k].to = m.to}

RelayCancelQueued(m, rest) ==
  /\ m.type = "cancel" /\ ~Held(m.sid)
  /\ QueuedInvite(m) # {}
  /\ TakeOut(QueuedInvite(m))
  /\ down' = rest
  /\ UNCHANGED <<bound, known, attempts, lapsed>>

AttemptTypes == {"progress", "answer", "reject", "cancel"}

\* Not about an attempt the relay holds, or not from one of its parties.
RelayPlain(m, rest) ==
  LET a == attempts[m.sid] IN
  /\ m.type \notin {"introduction", "invite"}
  /\ \/ ~Held(m.sid) /\ (m.type = "cancel" => QueuedInvite(m) = {})
     \/ Held(m.sid) /\ (m.type \notin AttemptTypes \/ m.upd # 0)
     \/ /\ Held(m.sid) /\ m.type = "cancel" /\ m.from = a.initiator
        /\ ~Leg(a, m.to) /\ m.to # a.identity
     \/ /\ Held(m.sid) /\ m.type \in AttemptTypes /\ m.upd = 0
        /\ ~(m.type = "cancel" /\ m.from = a.initiator)
        /\ ~Leg(a, m.from)
  /\ RoutePlain(m, rest)

\* Cancel by the initiator: to the leg it names, or to every live leg.
RelayCancel(m, rest) ==
  LET a == attempts[m.sid]
      hit == IF Leg(a, m.to) THEN Outstanding(a) \cap {m.to} ELSE Outstanding(a)
      legs == [d \in Device |-> IF d \in hit THEN "cancelled" ELSE a.legs[d]]
  IN
  /\ Held(m.sid) /\ m.type = "cancel" /\ m.from = a.initiator
  /\ Leg(a, m.to) \/ m.to = a.identity
  /\ attempts' = [attempts EXCEPT ![m.sid] =
                    [a EXCEPT !.legs = legs,
                              !.outcome = IF @ = "none" /\ Outstanding(a) \subseteq hit
                                          THEN "cancelled" ELSE @]]
  /\ SendDown(rest, hit, m)
  /\ UNCHANGED <<bound, known, inbox, lapsed>>

\* A message of the attempt from one of its legs.
FromLeg(m) ==
  /\ Held(m.sid) /\ m.type \in AttemptTypes /\ m.upd = 0
  /\ ~(m.type = "cancel" /\ m.from = attempts[m.sid].initiator)
  /\ Leg(attempts[m.sid], m.from)

Heard(m) == [attempts[m.sid] EXCEPT !.heard = @ \cup {m.from}]

\* Mutant: a late answer counts as the outcome.
RelayAnswerAlwaysCounts(m, rest) ==
  /\ FromLeg(m) /\ m.type = "answer"
  /\ attempts' = [attempts EXCEPT ![m.sid] =
                    [Heard(m) EXCEPT !.legs[m.from] = "answered", !.outcome = "answered"]]
  /\ SendDown(rest, {attempts[m.sid].initiator}, m)
  /\ UNCHANGED <<bound, known, inbox, lapsed>>

\* Mutant: the answer of a leg that was given up on is dropped.
RelayAnswerScreened(m, rest) ==
  LET live == attempts[m.sid].legs[m.from] = "delivered" IN
  /\ FromLeg(m) /\ m.type = "answer"
  /\ attempts' = [attempts EXCEPT ![m.sid] =
                    IF live THEN [Heard(m) EXCEPT !.legs[m.from] = "answered", !.outcome = "answered"]
                    ELSE Heard(m)]
  /\ SendDown(rest, IF live THEN {attempts[m.sid].initiator} ELSE {}, m)
  /\ UNCHANGED <<bound, known, inbox, lapsed>>

\* An answer is forwarded whatever the leg's state; only a live leg's is noted.
RelayAnswer(m, rest) ==
  LET a == Heard(m)
      live == a.legs[m.from] = "delivered"
  IN
  /\ FromLeg(m) /\ m.type = "answer"
  /\ attempts' = [attempts EXCEPT ![m.sid] =
       [a EXCEPT !.legs[m.from] = IF live THEN "answered" ELSE @,
                 !.outcome = IF live /\ @ = "none" THEN "answered" ELSE @]]
  /\ SendDown(rest, {a.initiator}, m)
  /\ UNCHANGED <<bound, known, inbox, lapsed>>

RelayProgress(m, rest) ==
  /\ FromLeg(m) /\ m.type = "progress"
  /\ attempts[m.sid].legs[m.from] = "delivered"
  /\ attempts' = [attempts EXCEPT ![m.sid] = Heard(m)]
  /\ SendDown(rest, {attempts[m.sid].initiator}, m)
  /\ UNCHANGED <<bound, known, inbox, lapsed>>

RelayReject(m, rest) ==
  /\ FromLeg(m) /\ m.type = "reject"
  /\ attempts[m.sid].legs[m.from] = "delivered"
  /\ CheckComplete(m.sid,
                   [Heard(m) EXCEPT !.legs[m.from] = "rejected",
                                    !.rejects = Append(@, [leg |-> m.from, reason |-> m.tag])],
                   rest)
  /\ UNCHANGED <<bound, known, inbox, lapsed>>

\* Dropped: a leg that is done speaks again, or a leg sends a cancel.
RelayScreened(m, rest) ==
  /\ FromLeg(m) /\ m.type # "answer"
  /\ attempts[m.sid].legs[m.from] \in Terminal \/ m.type = "cancel"
  /\ attempts' = [attempts EXCEPT ![m.sid] = Heard(m)]
  /\ down' = rest
  /\ UNCHANGED <<bound, known, inbox, lapsed>>

RelayRecv(m, rest) ==
  \/ RelayIntroduction(m, rest)
  \/ RelayInvite(m, rest)
  \/ RelayInviteOffline(m, rest)
  \/ RelayCancelQueued(m, rest)
  \/ RelayPlain(m, rest)
  \/ RelayCancel(m, rest)
  \/ RelayAnswer(m, rest)
  \/ RelayProgress(m, rest)
  \/ RelayReject(m, rest)
  \/ RelayScreened(m, rest)

-----------------------------------------------------------------------------
(* Bindings.                                                               *)

\* What is held for d or its identity.
HeldFor(d) == {k \in DOMAIN inbox : inbox[k].to \in {d, IdentityOf[d]}}

\* Mutant: a device joins attempts that already have an outcome.
JoinsDecided(d) == {i \in Sid : /\ Held(i)
                                /\ attempts[i].identity = IdentityOf[d]
                                /\ attempts[i].legs[d] = "none"
                                /\ i \notin lapsed}

\* Mutant: a device joins attempts whose invite has expired.
JoinsExpired(d) == {i \in Sid : /\ Held(i)
                                /\ attempts[i].identity = IdentityOf[d]
                                /\ attempts[i].outcome = "none"
                                /\ attempts[i].legs[d] = "none"}

\* The live attempts d joins as a leg when it binds.
Joins(d) == {i \in Sid : /\ Held(i)
                         /\ attempts[i].identity = IdentityOf[d]
                         /\ attempts[i].outcome = "none"
                         /\ attempts[i].legs[d] = "none"
                         /\ i \notin lapsed}

\* The invites of the attempts in S, in id order.
JoinInvites(S) ==
  {w \in [1 .. Cardinality(S) ->
            {Msg("invite", attempts[i].initiator, attempts[i].identity, i, "none", 0) : i \in S}] :
     \A j, k \in DOMAIN w : j < k => w[j].sid < w[k].sid}

Invited(q) == {i \in Sid : \E k \in DOMAIN q : q[k].type = "invite" /\ q[k].sid = i}
InviteIn(q, i) == q[CHOOSE k \in DOMAIN q : q[k].type = "invite" /\ q[k].sid = i]

\* d connects: it gets what was held, then the invites of the live attempts.
Bind(d, rest) ==
  LET q == Only(inbox, HeldFor(d))
      S == Joins(d) \ Invited(q)
      AddLeg(a) == [a EXCEPT !.legs[d] = "delivered"]
  IN
  /\ d \notin bound
  /\ bound' = bound \cup {d}
  /\ known' = known \cup {d, IdentityOf[d]}
  /\ TakeOut(HeldFor(d))
  /\ attempts' = [i \in Sid |->
       CASE i \in Invited(q) /\ ~Held(i) ->
              Attempt(InviteIn(q, i).from, InviteIn(q, i).to, {d})
         [] i \in S \/ (i \in Invited(q) /\ Held(i)) -> AddLeg(attempts[i])
         [] OTHER -> attempts[i]]
  /\ \E w \in JoinInvites(S) : down' = [rest EXCEPT ![d] = @ \o q \o w]
  /\ UNCHANGED lapsed

\* The connection of d closes; what was in transit on it is gone.
Unbind(d, rest) ==
  /\ d \in bound
  /\ bound' = bound \ {d}
  /\ down' = [rest EXCEPT ![d] = <<>>]
  /\ UNCHANGED <<known, attempts, inbox, lapsed>>

\* Mutant: the leg is given the outcome's name.
LegExpiredMislabelled(i, d, rest) ==
  /\ Held(i) /\ attempts[i].legs[d] = "delivered"
  /\ CheckComplete(i, [attempts[i] EXCEPT !.legs[d] = "no-response"], rest)
  /\ UNCHANGED <<bound, known, inbox, lapsed>>

\* Mutant: nobody looks whether that was the last leg.
LegExpiredUnchecked(i, d, rest) ==
  /\ Held(i) /\ attempts[i].legs[d] = "delivered"
  /\ attempts' = [attempts EXCEPT ![i].legs[d] = "expired"]
  /\ down' = rest
  /\ UNCHANGED <<bound, known, inbox, lapsed>>

\* A leg is reported expired.
LegExpired(i, d, rest) ==
  /\ Held(i) /\ attempts[i].legs[d] = "delivered"
  /\ CheckComplete(i, [attempts[i] EXCEPT !.legs[d] = "expired"], rest)
  /\ UNCHANGED <<bound, known, inbox, lapsed>>

-----------------------------------------------------------------------------
(* The clock.                                                              *)

\* The expires_at of invite i passes: a queued copy is dropped, a leg that has
\* not said anything is expired.
Advance(i, rest) ==
  LET a == attempts[i]
      silent == Outstanding(a) \ a.heard
      legs == [d \in Device |-> IF d \in silent THEN "expired" ELSE a.legs[d]]
  IN
  /\ i \notin lapsed
  /\ lapsed' = lapsed \cup {i}
  /\ TakeOut({k \in DOMAIN inbox : inbox[k].type = "invite" /\ inbox[k].sid = i})
  /\ IF Held(i) /\ silent # {}
     THEN CheckComplete(i, [a EXCEPT !.legs = legs], rest)
     ELSE UNCHANGED attempts /\ down' = rest
  /\ UNCHANGED <<bound, known>>

\* A held envelope reaches its deadline and is dropped; nobody is told.
ExpireQueued(k, rest) ==
  /\ k \in DOMAIN inbox
  /\ TakeOut({k})
  /\ down' = rest
  /\ UNCHANGED <<bound, known, attempts, lapsed>>

\* Nothing was heard of the attempt for longer than the T-Queue cap.
ForgetAttempt(i, rest) ==
  /\ Held(i)
  /\ attempts' = [attempts EXCEPT ![i] = NoAttempt]
  /\ down' = rest
  /\ UNCHANGED <<bound, known, inbox, lapsed>>

\* Mutant: a recipient is forgotten while envelopes are held for it.
ForgetPartyWithMail(p, rest) ==
  /\ p \in known
  /\ LegsFor(p) = {}
  /\ known' = known \ {p}
  /\ down' = rest
  /\ UNCHANGED <<bound, attempts, inbox, lapsed>>

\* A DID with nothing bound and nothing held is forgotten after retention.
ForgetParty(p, rest) ==
  /\ p \in known
  /\ LegsFor(p) = {}
  /\ \A k \in DOMAIN inbox : inbox[k].to # p
  /\ known' = known \ {p}
  /\ down' = rest
  /\ UNCHANGED <<bound, attempts, inbox, lapsed>>

-----------------------------------------------------------------------------
(* The relay in front of arbitrary devices.                                *)

NothingDown == [d \in Device |-> <<>>]

RelayMessageTypes == MessageType \cup {"introduction"}

\* The replay check lets an invite in once and only while it is valid.
FreshInvite(i) ==
  ~Held(i) /\ i \notin lapsed /\ \A k \in DOMAIN inbox : inbox[k].sid # i

\* A connected device sends anything to anybody.
RelayIncoming ==
  \E type \in RelayMessageTypes, from \in bound, to \in Party \ {RelayDid}, i \in Sid :
  \E tag \in TagsOf(type) \cap EnvTag, u \in UpdatesOf(type) :
     /\ IdentityOf[from] # IdentityOf[to]
     /\ Len(inbox) < MaxInbox
     /\ type = "invite" => FreshInvite(i)
     /\ RelayRecv(Msg(type, from, to, i, tag, u), NothingDown)

RelayBinding == \E d \in Device : Bind(d, NothingDown) \/ Unbind(d, NothingDown)

RelayClock ==
  \/ \E i \in Sid : \/ Advance(i, NothingDown)
                    \/ ForgetAttempt(i, NothingDown)
                    \/ \E d \in Device : LegExpired(i, d, NothingDown)
  \/ \E k \in 1 .. MaxInbox : ExpireQueued(k, NothingDown)
  \/ \E p \in Party : ForgetParty(p, NothingDown)

RelayNext == RelayIncoming \/ RelayBinding \/ RelayClock

RelaySpec == RelayInit /\ [][RelayNext]_relayVars

-----------------------------------------------------------------------------
(* Properties.                                                             *)

RelayMessage == [type : RelayMessageTypes, from : Party, to : Party, sid : Sid,
                 tag : Tag, upd : UpdateId \cup {0}]
AttemptRec ==
  [initiator : Party \cup {Nobody}, identity : Party \cup {Nobody},
   legs : [Device -> LegState], rejects : Seq([leg : Device, reason : Tag]),
   heard : SUBSET Device, outcome : Outcome]

\* Every variable keeps its shape.
RelayTypeOK ==
  /\ bound \subseteq Device
  /\ known \subseteq Party
  /\ attempts \in [Sid -> AttemptRec]
  /\ inbox \in Seq(RelayMessage)
  /\ down \in [Device -> Seq(RelayMessage)]
  /\ lapsed \subseteq Sid

\* No attempt hangs: while it has no outcome some leg is still outstanding,
\* whatever order legs answer, reject, expire, are cancelled and are added in.
OpenAttemptHasLeg ==
  \A i \in Sid : Held(i) /\ attempts[i].outcome = "none" => Outstanding(attempts[i]) # {}

\* The outcome is what the legs did: answered means a leg answered; any other
\* outcome means every leg is done and none of them answered.
OutcomeMatchesLegs ==
  \A i \in Sid :
    LET a == attempts[i] IN
    /\ a.outcome = "answered" => \E d \in Device : a.legs[d] = "answered"
    /\ a.outcome \in {"rejected", "cancelled", "no-response"} =>
         \A d \in Device : a.legs[d] \notin {"delivered", "answered"}
    /\ a.outcome = "no-response" => a.rejects = <<>>

\* Store and forward: an envelope is held only while its recipient has no
\* connection, and the recipient of a held envelope is not forgotten (an
\* introduction may be held for somebody the relay has never met).
HeldOnlyWhileOffline ==
  \A k \in DOMAIN inbox : /\ LegsFor(inbox[k].to) = {}
                          /\ inbox[k].type = "introduction" \/ inbox[k].to \in known

\* Once an invite has expired no copy of it is held and no leg that never
\* spoke is still counted on.
NothingWaitsOnExpiredInvite ==
  \A i \in lapsed : /\ \A k \in DOMAIN inbox : ~(inbox[k].type = "invite" /\ inbox[k].sid = i)
                    /\ Outstanding(attempts[i]) \subseteq attempts[i].heard

\* The outcome of an attempt is decided once: late rejects, expiries, cancels
\* and answers change legs, never the outcome.
OutcomeIsFinal ==
  [][\A i \in Sid : attempts[i].outcome # "none" =>
        \/ attempts'[i].outcome = attempts[i].outcome
        \/ attempts'[i] = NoAttempt]_relayVars

\* When the last outstanding leg ends without an answer and some leg rejected,
\* the initiator is told the most informative reject, unless it withdrew the
\* whole attempt itself.
CompletionIsSignalled ==
  [][\A i \in Sid :
       LET a == attempts'[i]
           withdrawn == \E d \in Device : \E k \in DOMAIN down'[d] :
                           down'[d][k].type = "cancel" /\ down'[d][k].to = a.identity
           told == a.initiator \in Device
                   /\ \E k \in DOMAIN down'[a.initiator] : down'[a.initiator][k].type = "reject"
       IN /\ attempts[i].outcome = "none" /\ a.outcome \in {"rejected", "cancelled"}
          /\ a.rejects # <<>> /\ a.initiator \in bound
          => withdrawn \/ told]_relayVars
=============================================================================
