------------------------------- MODULE Endpoint -------------------------------
(***************************************************************************)
(* The session engine of a DSIP device: class Endpoint of                  *)
(* impl/tools/dsipvec/session.py.  A device holds any number of sessions,  *)
(* as initiator (INVITING, PROCEEDING, ACTIVE, ENDED) or as responder      *)
(* (OFFERED, ALERTING, ACTIVE, ENDED), and the timers that bound them.     *)
(*                                                                         *)
(* Every handler is one action, with a parameter rest: the messages in     *)
(* transit once the step has taken the one it handles.  The handler        *)
(* appends what the device sends.  Spec below puts one set of devices in   *)
(* front of an environment that may send any message at any time, so that  *)
(* up is what the last step emitted (the code's self.out); DirectCall and  *)
(* ForkedCall connect the same handlers to each other.                     *)
(*                                                                         *)
(* Time is abstract: a running timer may expire at any moment, and an      *)
(* invite's expires_at is a flag (lapsed) that is raised once.             *)
(***************************************************************************)
EXTENDS Signaling

CONSTANTS FirstContact,  \* the devices whose policy requires first contact
          MaxInFlight    \* bound: a device adds optional traffic below this

ASSUME PolicyAssumption == FirstContact \subseteq Device /\ MaxInFlight \in Nat

VARIABLES sess,    \* device -> session id -> session record
          timers,  \* device -> the timers running, as <<session id, name>>
          media,   \* device -> the sessions whose media has been started
          up       \* device -> messages it has sent, oldest first, in transit

vars == <<sess, timers, media, lapsed, up>>

-----------------------------------------------------------------------------
(* Sessions, timers and messages.                                          *)

TimerName == {"T-Establish", "T-Ring", "T-Queue", "T-Ring-Local"}
Inviting == {"INVITING", "PROCEEDING"}
MaxRequeues == 3

NoUpdate == [id |-> 0, dir |-> "none"]
Outbound(u) == [id |-> u, dir |-> "outbound"]
Inbound(u) == [id |-> u, dir |-> "inbound"]

\* A session this device does not hold.
Blank == [role |-> "none", state |-> "NONE", peer |-> Nobody,
          inviteTo |-> Nobody, answered |-> Nobody, outstanding |-> NoUpdate,
          cancelled |-> FALSE, wasActive |-> FALSE, postAnswerSeen |-> FALSE,
          queueCount |-> 0]

NewSession(role, state, peer, to) ==
  [Blank EXCEPT !.role = role, !.state = state, !.peer = peer, !.inviteTo = to]

SessionRec ==
  [role : {"none", "initiator", "responder"},
   state : {"NONE", "INVITING", "PROCEEDING", "OFFERED", "ALERTING", "ACTIVE", "ENDED"},
   peer : Party \cup {Nobody}, inviteTo : Party \cup {Nobody},
   answered : Party \cup {Nobody},
   outstanding : {NoUpdate} \cup [id : UpdateId, dir : {"outbound", "inbound"}],
   cancelled : BOOLEAN, wasActive : BOOLEAN, postAnswerSeen : BOOLEAN,
   queueCount : 0 .. MaxRequeues + 1]

\* RENEGOTIATING is the sender's sub-state while its update is outstanding.
Renegotiating(s) == s.outstanding.dir = "outbound"

\* An unknown progress status is treated as trying; "forwarded", which only
\* informs, is handled like trying as well and has no tag of its own.
EffectiveStatus(status) ==
  IF status \in {"ringing", "queued", "trying"} THEN status ELSE "trying"

Emit(d, rest, msgs) == up' = [rest EXCEPT ![d] = @ \o msgs]

Session(d, i, s) == sess' = [sess EXCEPT ![d][i] = s]

Running(d, i, name) == <<i, name>> \in timers[d]
Without(d, i, names) == {t \in timers[d] : ~(t[1] = i /\ t[2] \in names)}
SetTimers(d, ts) == timers' = [timers EXCEPT ![d] = ts]
StopAll(d, i) == SetTimers(d, Without(d, i, TimerName))
StartMedia(d, i) == media' = [media EXCEPT ![d] = @ \cup {i}]
StopMedia(d, i) == media' = [media EXCEPT ![d] = @ \ {i}]

\* Mutant: a session ends with its update still pending.
FinishedKeepsUpdate(s) == [s EXCEPT !.state = "ENDED"]

\* The record a session is left with by end(): the pending update is discarded.
Finished(s) == [s EXCEPT !.state = "ENDED", !.outstanding = NoUpdate]

\* end(s, reason): the timers stop and the session is over; no media ran.
End(d, i, s) == Session(d, i, Finished(s)) /\ StopAll(d, i) /\ UNCHANGED media

\* Mutant: the media of an ended session runs on.
EndKeepsMedia(d, i, s) == Session(d, i, Finished(s)) /\ StopAll(d, i) /\ UNCHANGED media

\* end(s, reason, media_stop=True), for a session whose media was started.
EndWithMedia(d, i, s) == Session(d, i, Finished(s)) /\ StopAll(d, i) /\ StopMedia(d, i)

Init ==
  /\ sess = [d \in Device |-> [i \in Sid |-> Blank]]
  /\ timers = [d \in Device |-> {}]
  /\ media = [d \in Device |-> {}]
  /\ lapsed = {}
  /\ up = [d \in Device |-> <<>>]

-----------------------------------------------------------------------------
(* Local events: what the user and the device's policy ask for.  A request *)
(* the code refuses changes nothing and is no step here.                   *)

PlaceCall(d, i, to, rest) ==
  /\ sess[d][i].state = "NONE"
  /\ Session(d, i, NewSession("initiator", "INVITING", to, to))
  /\ SetTimers(d, timers[d] \cup {<<i, "T-Establish">>})
  /\ Emit(d, rest, <<Msg("invite", d, to, i, "none", 0)>>)
  /\ UNCHANGED <<media, lapsed>>

\* The initiator withdraws the attempt: timers stop, cancel is sent.
Withdraw(d, i, reason, rest) ==
  /\ End(d, i, [sess[d][i] EXCEPT !.cancelled = TRUE])
  /\ Emit(d, rest, <<Msg("cancel", d, sess[d][i].inviteTo, i, reason, 0)>>)

Cancel(d, i, rest) ==
  /\ sess[d][i].state \in Inviting
  /\ Withdraw(d, i, "user.cancelled", rest)
  /\ UNCHANGED lapsed

\* Mutant: the session ends here and the peer is not told.
HangupUnsaid(d, i, rest) ==
  /\ sess[d][i].state = "ACTIVE"
  /\ EndWithMedia(d, i, sess[d][i])
  /\ up' = rest
  /\ UNCHANGED lapsed

Hangup(d, i, rest) ==
  /\ sess[d][i].state = "ACTIVE"
  /\ EndWithMedia(d, i, sess[d][i])
  /\ Emit(d, rest, <<Msg("bye", d, sess[d][i].peer, i, "user.hangup", 0)>>)
  /\ UNCHANGED lapsed

\* Mutant: the session ends and no reject is sent.
TurnDownUnsaid(d, i, reason, rest) == End(d, i, sess[d][i]) /\ up' = rest

\* The responder turns the invite down and the session is over.
TurnDown(d, i, reason, rest) ==
  /\ End(d, i, sess[d][i])
  /\ Emit(d, rest, <<Msg("reject", d, sess[d][i].peer, i, reason, 0)>>)

\* Alerting begins, unless the invite has expired in the meantime.
Alert(d, i, rest) ==
  /\ sess[d][i].state = "OFFERED"
  /\ i \notin lapsed
  /\ Session(d, i, [sess[d][i] EXCEPT !.state = "ALERTING"])
  /\ SetTimers(d, timers[d] \cup {<<i, "T-Ring-Local">>})
  /\ Emit(d, rest, <<Msg("progress", d, sess[d][i].peer, i, "ringing", 0)>>)
  /\ UNCHANGED <<media, lapsed>>

AlertTooLate(d, i, rest) ==
  /\ sess[d][i].state = "OFFERED"
  /\ i \in lapsed
  /\ TurnDown(d, i, "session.expired", rest)
  /\ UNCHANGED lapsed

AutoReject(d, i, rest) ==
  /\ sess[d][i].state = "OFFERED"
  /\ TurnDown(d, i, "endpoint.busy", rest)
  /\ UNCHANGED lapsed

Accept(d, i, rest) ==
  /\ sess[d][i].state = "ALERTING"
  /\ Session(d, i, [sess[d][i] EXCEPT !.state = "ACTIVE", !.wasActive = TRUE])
  /\ StopAll(d, i)
  /\ StartMedia(d, i)
  /\ Emit(d, rest, <<Msg("answer", d, sess[d][i].peer, i, "none", 0)>>)
  /\ UNCHANGED lapsed

Decline(d, i, rest) ==
  /\ sess[d][i].state = "ALERTING"
  /\ TurnDown(d, i, "user.declined", rest)
  /\ UNCHANGED lapsed

Update(d, i, u, rest) ==
  /\ sess[d][i].state = "ACTIVE"
  /\ sess[d][i].outstanding = NoUpdate
  /\ Session(d, i, [sess[d][i] EXCEPT !.outstanding = Outbound(u)])
  /\ Emit(d, rest, <<Msg("update", d, sess[d][i].peer, i, "none", u)>>)
  /\ UNCHANGED <<timers, media, lapsed>>

\* Mutant: the update is answered and stays pending.
SettleKeepsUpdate(d, i, u, type, tag, rest) ==
  /\ sess[d][i].state = "ACTIVE"
  /\ sess[d][i].outstanding = Inbound(u)
  /\ Emit(d, rest, <<Msg(type, d, sess[d][i].peer, i, tag, u)>>)
  /\ UNCHANGED <<sess, timers, media, lapsed>>

\* answer_update and reject_update of the update u (in_reply_to): both settle
\* it when it is the pending inbound one, and are refused otherwise.
SettleUpdate(d, i, u, type, tag, rest) ==
  /\ sess[d][i].state = "ACTIVE"
  /\ sess[d][i].outstanding = Inbound(u)
  /\ Session(d, i, [sess[d][i] EXCEPT !.outstanding = NoUpdate])
  /\ Emit(d, rest, <<Msg(type, d, sess[d][i].peer, i, tag, u)>>)
  /\ UNCHANGED <<timers, media, lapsed>>

AnswerUpdate(d, i, u, rest) == SettleUpdate(d, i, u, "answer", "none", rest)
RejectUpdate(d, i, u, rest) == SettleUpdate(d, i, u, "reject", "user.declined", rest)

Info(d, i, rest) ==
  /\ sess[d][i].state = "ACTIVE"
  /\ Len(up[d]) < MaxInFlight
  /\ Emit(d, rest, <<Msg("info", d, sess[d][i].peer, i, "none", 0)>>)
  /\ UNCHANGED <<sess, timers, media, lapsed>>

-----------------------------------------------------------------------------
(* The clock: timers expire, invites lapse.                                *)

\* fire(t): an attempt timer withdraws the attempt, T-Ring-Local turns the
\* call down; a timer that no longer matches its session does nothing.
Fire(d, i, name, rest) ==
  /\ Running(d, i, name)
  /\ CASE name # "T-Ring-Local" /\ sess[d][i].state \in Inviting ->
              Withdraw(d, i, "session.timeout", rest)
       [] name = "T-Ring-Local" /\ sess[d][i].state = "ALERTING" ->
              TurnDown(d, i, "user.no-answer", rest)
       [] OTHER -> /\ SetTimers(d, timers[d] \ {<<i, name>>})
                   /\ up' = rest
                   /\ UNCHANGED <<sess, media>>
  /\ UNCHANGED lapsed

Lapse(i, rest) ==
  /\ i \notin lapsed
  /\ lapsed' = lapsed \cup {i}
  /\ up' = rest
  /\ UNCHANGED <<sess, timers, media>>

-----------------------------------------------------------------------------
(* Received messages.  The session-scoped handlers take s, the session as  *)
(* recv() leaves it before it dispatches.                                  *)

ErrorReply(d, m, reason) == Msg("error", d, m.from, m.sid, reason, 0)

\* The message does not fit the state: the sender is told, nothing else.
InvalidState(d, m, s, rest) ==
  /\ Session(d, m.sid, s)
  /\ Emit(d, rest, <<ErrorReply(d, m, "session.invalid-state")>>)
  /\ UNCHANGED <<timers, media, lapsed>>

\* The message is taken and only s changes; nothing is sent.
Absorb(d, m, s, rest) ==
  /\ Session(d, m.sid, s)
  /\ up' = rest
  /\ UNCHANGED <<timers, media, lapsed>>

\* Mutant: an attempt the peer has made progress on is overlooked.
RivalsBeforeProgress(d, m) ==
  {i \in Sid : /\ sess[d][i].role = "initiator"
               /\ sess[d][i].state = "INVITING"
               /\ IdentityOf[sess[d][i].inviteTo] = IdentityOf[m.from]}

\* The live attempts of d to the identity m comes from.
Rivals(d, m) ==
  {i \in Sid : /\ sess[d][i].role = "initiator"
               /\ sess[d][i].state \in Inviting
               /\ IdentityOf[sess[d][i].inviteTo] = IdentityOf[m.from]}

RejectInvite(d, m, reason) == Msg("reject", d, m.from, m.sid, reason, 0)

RefusedInvite(m) == [Blank EXCEPT !.role = "responder", !.state = "ENDED", !.peer = m.from]

\* No grant and no allow entry: rejected before anything else is looked at.
RecvInviteFirstContact(d, m, rest) ==
  /\ d \in FirstContact
  /\ Session(d, m.sid, RefusedInvite(m))
  /\ Emit(d, rest, <<RejectInvite(d, m, "policy.first-contact-required")>>)
  /\ UNCHANGED <<timers, media, lapsed>>

\* An id this device already holds, and no attempt of its own competes.
RecvInviteHeld(d, m, rest) ==
  /\ Rivals(d, m) = {}
  /\ sess[d][m.sid].state # "NONE"
  /\ Emit(d, rest, IF sess[d][m.sid].state = "ENDED" THEN <<>>
                   ELSE <<ErrorReply(d, m, "session.invalid-state")>>)
  /\ UNCHANGED <<sess, timers, media, lapsed>>

\* Glare, and an attempt of ours has the smaller id: the inbound one loses.
RecvInviteWeWin(d, m, rest) ==
  /\ \E i \in Rivals(d, m) : i < m.sid
  /\ Session(d, m.sid, RefusedInvite(m))
  /\ Emit(d, rest, <<RejectInvite(d, m, "session.glare")>>)
  /\ UNCHANGED <<timers, media, lapsed>>

\* The cancels of our attempts R, in id order.
GlareCancel(d, i) == Msg("cancel", d, sess[d][i].inviteTo, i, "session.glare", 0)
Withdrawals(d, R) ==
  {w \in [1 .. Cardinality(R) -> {GlareCancel(d, i) : i \in R}] :
     \A j, k \in DOMAIN w : j < k => w[j].sid < w[k].sid}

\* Every session of d in R as a lost glare leaves it.
LostGlare(d, R) ==
  [i \in Sid |-> IF i \in R THEN [sess[d][i] EXCEPT !.state = "ENDED", !.cancelled = TRUE]
                 ELSE sess[d][i]]

\* Mutant: the inbound invite wins whatever its id is.
RecvInviteAlwaysYield(d, m, rest) ==
  LET R == Rivals(d, m) IN
  /\ R # {} /\ m.sid \notin R
  /\ sess' = [sess EXCEPT ![d] =
                [LostGlare(d, R) EXCEPT
                   ![m.sid] = NewSession("responder", "OFFERED", m.from, m.to)]]
  /\ SetTimers(d, {t \in timers[d] : t[1] \notin R})
  /\ \E w \in Withdrawals(d, R) : Emit(d, rest, w)
  /\ UNCHANGED <<media, lapsed>>

\* Glare lost: each of our attempts is withdrawn and the inbound one offered.
RecvInviteWeLose(d, m, rest) ==
  LET R == Rivals(d, m) IN
  /\ R # {}
  /\ \A i \in R : m.sid < i
  /\ sess' = [sess EXCEPT ![d] =
                [LostGlare(d, R) EXCEPT
                   ![m.sid] = NewSession("responder", "OFFERED", m.from, m.to)]]
  /\ SetTimers(d, {t \in timers[d] : t[1] \notin R})
  /\ \E w \in Withdrawals(d, R) : Emit(d, rest, w)
  /\ UNCHANGED <<media, lapsed>>

\* Mutant: the attempts are withdrawn and their timers run on.
RecvInviteEqualKeepsTimers(d, m, rest) ==
  /\ m.sid \in Rivals(d, m)
  /\ sess' = [sess EXCEPT ![d] = LostGlare(d, Rivals(d, m))]
  /\ up' = rest
  /\ UNCHANGED <<timers, media, lapsed>>

\* Mutant: the refused invite is recorded over the own attempt.
RecvInviteEqualOverwrites(d, m, rest) ==
  /\ m.sid \in Rivals(d, m)
  /\ Session(d, m.sid, RefusedInvite(m))
  /\ StopAll(d, m.sid)
  /\ up' = rest
  /\ UNCHANGED <<media, lapsed>>

\* Equal ids: both invites are turned down, our own record stays as ENDED.
RecvInviteEqual(d, m, rest) ==
  LET R == Rivals(d, m) IN
  /\ m.sid \in R
  /\ \A i \in R : m.sid <= i
  /\ sess' = [sess EXCEPT ![d] = LostGlare(d, R)]
  /\ SetTimers(d, {t \in timers[d] : t[1] \notin R})
  /\ \E w \in Withdrawals(d, R) : Emit(d, rest, Append(w, RejectInvite(d, m, "session.glare")))
  /\ UNCHANGED <<media, lapsed>>

RecvInviteOffered(d, m, rest) ==
  /\ Rivals(d, m) = {}
  /\ sess[d][m.sid].state = "NONE"
  /\ Session(d, m.sid, NewSession("responder", "OFFERED", m.from, m.to))
  /\ up' = rest
  /\ UNCHANGED <<timers, media, lapsed>>

RecvInvite(d, m, rest) ==
  /\ m.type = "invite"
  /\ \/ RecvInviteFirstContact(d, m, rest)
     \/ RecvInviteHeld(d, m, rest)
     \/ RecvInviteWeWin(d, m, rest)
     \/ RecvInviteWeLose(d, m, rest)
     \/ RecvInviteEqual(d, m, rest)
     \/ RecvInviteOffered(d, m, rest)

\* Mutant: the relay's word that nobody responded is ignored.
RecvErrorIgnored(d, m, rest) ==
  m.type = "error" /\ up' = rest /\ UNCHANGED <<sess, timers, media, lapsed>>

\* The relay says every leg stayed silent: the attempt is over, no cancel.
RecvError(d, m, rest) ==
  /\ m.type = "error"
  /\ up' = rest
  /\ IF m.tag = "transport.no-response" /\ sess[d][m.sid].state \in Inviting
     THEN End(d, m.sid, sess[d][m.sid]) /\ UNCHANGED lapsed
     ELSE UNCHANGED <<sess, timers, media, lapsed>>

RecvUnknownSession(d, m, rest) ==
  /\ m.type \notin {"invite", "error"}
  /\ sess[d][m.sid].state = "NONE"
  /\ Emit(d, rest, <<ErrorReply(d, m, "session.unknown-session")>>)
  /\ UNCHANGED <<sess, timers, media, lapsed>>

\* Why a late answer to a finished attempt is ended.
LateAnswerReason(s) ==
  CASE s.cancelled -> "session.cancelled"
    [] ~s.cancelled /\ s.wasActive -> "session.already-answered"
    [] OTHER -> "session.failed"

\* Mutant: a late answer sets the finished session up again.
RecvEndedRevives(d, m, rest) ==
  /\ m.type = "answer" /\ m.upd = 0
  /\ sess[d][m.sid].state = "ENDED" /\ sess[d][m.sid].role = "initiator"
  /\ Session(d, m.sid, [sess[d][m.sid] EXCEPT !.state = "ACTIVE", !.wasActive = TRUE,
                                              !.answered = m.from, !.peer = m.from])
  /\ StartMedia(d, m.sid)
  /\ up' = rest
  /\ UNCHANGED <<timers, lapsed>>

\* A finished session: a late answer is ended with bye, the rest dropped.
RecvEnded(d, m, rest) ==
  LET s == sess[d][m.sid] IN
  /\ m.type \notin {"invite", "error"}
  /\ s.state = "ENDED"
  /\ Emit(d, rest, IF m.type = "answer" /\ s.role = "initiator" /\ m.upd = 0
                   THEN <<Msg("bye", d, m.from, m.sid, LateAnswerReason(s), 0)>>
                   ELSE <<>>)
  /\ UNCHANGED <<sess, timers, media, lapsed>>

\* progress on a live attempt: PROCEEDING, requeued q times in a row, with the
\* timers ts.
Proceed(d, i, s, q, ts, rest) ==
  /\ Session(d, i, [s EXCEPT !.state = "PROCEEDING", !.queueCount = q])
  /\ SetTimers(d, ts)
  /\ up' = rest
  /\ UNCHANGED <<media, lapsed>>

\* Mutant: T-Queue is left running beside T-Ring.
RecvRingingKeepsQueue(d, i, s, rest) ==
  Proceed(d, i, s, 0, Without(d, i, {"T-Establish"}) \cup {<<i, "T-Ring">>}, rest)

\* ringing: T-Ring bounds the attempt from here on.
RecvRinging(d, i, s, rest) ==
  Proceed(d, i, s, 0, Without(d, i, {"T-Establish", "T-Queue"}) \cup {<<i, "T-Ring">>}, rest)

\* Mutant: an attempt may be requeued for ever.
RecvQueuedForever(d, i, s, rest) ==
  Proceed(d, i, s, s.queueCount + 1,
          Without(d, i, {"T-Establish", "T-Ring"}) \cup {<<i, "T-Queue">>}, rest)

\* queued: T-Queue replaces whatever ran.
RecvQueued(d, i, s, rest) ==
  /\ s.queueCount < MaxRequeues
  /\ Proceed(d, i, s, s.queueCount + 1,
             Without(d, i, {"T-Establish", "T-Ring"}) \cup {<<i, "T-Queue">>}, rest)

\* queued once too often: the attempt is withdrawn.
RecvQueuedTooOften(d, i, s, rest) ==
  /\ s.queueCount >= MaxRequeues
  /\ End(d, i, [s EXCEPT !.cancelled = TRUE, !.queueCount = s.queueCount + 1])
  /\ Emit(d, rest, <<Msg("cancel", d, s.inviteTo, i, "session.timeout", 0)>>)
  /\ UNCHANGED lapsed

\* trying, or a status this device does not know: T-Ring as the backstop.
RecvTrying(d, i, s, rest) ==
  LET backstop == IF Running(d, i, "T-Ring") \/ Running(d, i, "T-Queue") THEN {}
                  ELSE {<<i, "T-Ring">>}
  IN  Proceed(d, i, s, s.queueCount, Without(d, i, {"T-Establish"}) \cup backstop, rest)

RecvProgress(d, m, s, rest) ==
  LET status == EffectiveStatus(m.tag) IN
  \/ s.state \notin Inviting /\ InvalidState(d, m, s, rest)
  \/ /\ s.state \in Inviting
     /\ \/ status = "ringing" /\ RecvRinging(d, m.sid, s, rest)
        \/ status = "queued" /\ RecvQueued(d, m.sid, s, rest)
        \/ status = "queued" /\ RecvQueuedTooOften(d, m.sid, s, rest)
        \/ status = "trying" /\ RecvTrying(d, m.sid, s, rest)

\* The reply m settles the update this device has outstanding.
SettlesOurs(m, s) == s.outstanding = Outbound(m.upd)

\* Mutant: the reply is taken and the update stays pending.
RecvUpdateReplyIgnored(d, m, s, rest) == Absorb(d, m, s, rest)

RecvUpdateReply(d, m, s, rest) ==
  Absorb(d, m, IF SettlesOurs(m, s) THEN [s EXCEPT !.outstanding = NoUpdate] ELSE s, rest)

\* The first answer establishes the session; the other legs are withdrawn.
RecvFirstAnswer(d, m, s, rest) ==
  /\ Session(d, m.sid, [s EXCEPT !.state = "ACTIVE", !.wasActive = TRUE,
                                 !.answered = m.from, !.peer = m.from])
  /\ StopAll(d, m.sid)
  /\ StartMedia(d, m.sid)
  /\ Emit(d, rest, IF m.from # s.inviteTo
                   THEN <<Msg("cancel", d, s.inviteTo, m.sid, "session.answered-elsewhere", 0)>>
                   ELSE <<>>)
  /\ UNCHANGED lapsed

\* Mutant: the other leg is not told.
RecvLaterAnswerIgnored(d, m, s, rest) == Absorb(d, m, s, rest)

\* Another leg answers an established session: that leg is ended.
RecvLaterAnswer(d, m, s, rest) ==
  /\ Session(d, m.sid, s)
  /\ Emit(d, rest, <<Msg("bye", d, m.from, m.sid, "session.already-answered", 0)>>)
  /\ UNCHANGED <<timers, media, lapsed>>

RecvAnswer(d, m, s, rest) ==
  CASE s.state \in Inviting /\ m.upd = 0 -> RecvFirstAnswer(d, m, s, rest)
    [] s.state = "ACTIVE" /\ m.upd # 0 -> RecvUpdateReply(d, m, s, rest)
    [] s.state = "ACTIVE" /\ s.role = "initiator" /\ m.upd = 0 /\ m.from # s.answered
         -> RecvLaterAnswer(d, m, s, rest)
    [] OTHER -> InvalidState(d, m, s, rest)

RecvReject(d, m, s, rest) ==
  CASE s.state \in Inviting /\ m.upd = 0 -> End(d, m.sid, s) /\ up' = rest /\ UNCHANGED lapsed
    [] s.state = "ACTIVE" /\ m.upd # 0 -> RecvUpdateReply(d, m, s, rest)
    [] OTHER -> InvalidState(d, m, s, rest)

\* A cancel that crossed our answer: a withdrawal, before the initiator spoke.
Crossed(m, s) == m.tag # "session.answered-elsewhere" /\ ~s.postAnswerSeen

RecvCancel(d, m, s, rest) ==
  CASE s.state \in {"OFFERED", "ALERTING"} -> End(d, m.sid, s) /\ up' = rest /\ UNCHANGED lapsed
    [] s.role = "responder" /\ s.state = "ACTIVE" /\ Crossed(m, s)
         -> EndWithMedia(d, m.sid, s) /\ up' = rest /\ UNCHANGED lapsed
    [] OTHER -> InvalidState(d, m, s, rest)

\* Mutant: whatever is pending here yields to the update received.
RecvUpdateAlwaysYield(d, m, s, rest) ==
  IF s.state = "ACTIVE" THEN Absorb(d, m, [s EXCEPT !.outstanding = Inbound(m.upd)], rest)
  ELSE InvalidState(d, m, s, rest)

\* Update glare goes to the smaller id; a second inbound update voids both.
RecvUpdate(d, m, s, rest) ==
  LET Take == Absorb(d, m, [s EXCEPT !.outstanding = Inbound(m.upd)], rest) IN
  CASE s.state # "ACTIVE" -> InvalidState(d, m, s, rest)
    [] s.state = "ACTIVE" /\ s.outstanding = NoUpdate -> Take
    [] s.state = "ACTIVE" /\ Renegotiating(s) ->
         IF s.outstanding.id < m.upd
         THEN /\ Session(d, m.sid, s)
              /\ Emit(d, rest, <<Msg("reject", d, m.from, m.sid, "session.glare", m.upd)>>)
              /\ UNCHANGED <<timers, media, lapsed>>
         ELSE Take
    [] s.state = "ACTIVE" /\ s.outstanding.dir = "inbound" ->
         /\ Session(d, m.sid, [s EXCEPT !.outstanding = NoUpdate])
         /\ Emit(d, rest, <<ErrorReply(d, m, "session.update-pending")>>)
         /\ UNCHANGED <<timers, media, lapsed>>

RecvInfo(d, m, s, rest) ==
  IF s.state = "ACTIVE" THEN Absorb(d, m, s, rest) ELSE InvalidState(d, m, s, rest)

RecvBye(d, m, s, rest) ==
  IF s.state = "ACTIVE" THEN EndWithMedia(d, m.sid, s) /\ up' = rest /\ UNCHANGED lapsed
  ELSE InvalidState(d, m, s, rest)

\* recv() notes that the initiator has spoken since our answer.
Noted(d, m) ==
  LET s == sess[d][m.sid] IN
  IF s.role = "responder" /\ s.state = "ACTIVE" /\ m.type # "cancel"
  THEN [s EXCEPT !.postAnswerSeen = TRUE] ELSE s

RecvLive(d, m, rest) ==
  LET s == Noted(d, m) IN
  /\ s.state \notin {"NONE", "ENDED"}
  /\ \/ m.type = "progress" /\ RecvProgress(d, m, s, rest)
     \/ m.type = "answer" /\ RecvAnswer(d, m, s, rest)
     \/ m.type = "reject" /\ RecvReject(d, m, s, rest)
     \/ m.type = "cancel" /\ RecvCancel(d, m, s, rest)
     \/ m.type = "update" /\ RecvUpdate(d, m, s, rest)
     \/ m.type = "info" /\ RecvInfo(d, m, s, rest)
     \/ m.type = "bye" /\ RecvBye(d, m, s, rest)

Recv(d, m, rest) ==
  \/ RecvInvite(d, m, rest)
  \/ RecvError(d, m, rest)
  \/ RecvUnknownSession(d, m, rest)
  \/ RecvEnded(d, m, rest)
  \/ RecvLive(d, m, rest)

-----------------------------------------------------------------------------
(* The devices in front of an arbitrary environment.                       *)

Quiet == [d \in Device |-> <<>>]

Local(d) ==
  \E i \in Sid :
     \/ \E to \in Party \ {d, IdentityOf[d]} : PlaceCall(d, i, to, Quiet)
     \/ Cancel(d, i, Quiet)
     \/ Hangup(d, i, Quiet)
     \/ Alert(d, i, Quiet)
     \/ AlertTooLate(d, i, Quiet)
     \/ AutoReject(d, i, Quiet)
     \/ Accept(d, i, Quiet)
     \/ Decline(d, i, Quiet)
     \/ \E u \in UpdateId : \/ Update(d, i, u, Quiet)
                            \/ AnswerUpdate(d, i, u, Quiet)
                            \/ RejectUpdate(d, i, u, Quiet)
     \/ Info(d, i, Quiet)

Clock ==
  \/ \E i \in Sid : Lapse(i, Quiet)
  \/ \E d \in Device, i \in Sid, name \in TimerName : Fire(d, i, name, Quiet)

\* Any well-formed message from another party; an invite whose id this
\* device has not met (a ULID is drawn once, and a replayed one is refused by
\* the envelope pipeline before it gets here).
Fresh(d, type, i) == type = "invite" => sess[d][i].state = "NONE"

Incoming(d) ==
  \E type \in MessageType, from \in Party \ {d}, i \in Sid :
  \E tag \in TagsOf(type), u \in UpdatesOf(type) :
     Fresh(d, type, i) /\ Recv(d, Msg(type, from, d, i, tag, u), Quiet)

\* The same without that promise: ids collide and invites repeat.
IncomingColliding(d) ==
  \E type \in MessageType, from \in Party \ {d}, i \in Sid :
  \E tag \in TagsOf(type), u \in UpdatesOf(type) :
     Recv(d, Msg(type, from, d, i, tag, u), Quiet)

Next == Clock \/ \E d \in Device : Local(d) \/ Incoming(d)
NextColliding == Clock \/ \E d \in Device : Local(d) \/ IncomingColliding(d)

Spec == Init /\ [][Next]_vars
SpecColliding == Init /\ [][NextColliding]_vars

-----------------------------------------------------------------------------
(* Properties.                                                             *)

\* Every variable keeps its shape.
TypeOK ==
  /\ sess \in [Device -> [Sid -> SessionRec]]
  /\ timers \in [Device -> SUBSET (Sid \X TimerName)]
  /\ media \in [Device -> SUBSET Sid]
  /\ lapsed \subseteq Sid
  /\ up \in [Device -> Seq(Message)]

\* The sets of timers a session in a given state may have running.
TimersOf(d, i) == {name \in TimerName : Running(d, i, name)}
TimersAllowed(state) ==
  CASE state = "INVITING" -> {{"T-Establish"}}
    [] state = "PROCEEDING" -> {{"T-Ring"}, {"T-Queue"}}
    [] state = "ALERTING" -> {{"T-Ring-Local"}}
    [] OTHER -> {{}}

\* Whatever the peer sends, in whatever order, an attempt always has exactly
\* one timer bounding it, a ringing device exactly T-Ring-Local, and no timer
\* outlives the state it belongs to (start_timer, stop_timer, stop_all, fire).
TimersMatchState ==
  \A d \in Device, i \in Sid : TimersOf(d, i) \in TimersAllowed(sess[d][i].state)

\* Media runs exactly while the session is ACTIVE: no path into ACTIVE forgets
\* to start it and no way out of ACTIVE leaves it running.
MediaIffActive ==
  \A d \in Device, i \in Sid : i \in media[d] <=> sess[d][i].state = "ACTIVE"

\* Cancel is authoritative for the initiator's intent: a session whose
\* initiator has cancelled is over and was never active at the initiator.
CancelIsAuthoritative ==
  \A d \in Device, i \in Sid :
     sess[d][i].cancelled => /\ sess[d][i].state = "ENDED"
                             /\ ~sess[d][i].wasActive

\* An update is pending only inside an ACTIVE session.
UpdateOnlyWhileActive ==
  \A d \in Device, i \in Sid :
     sess[d][i].outstanding # NoUpdate => sess[d][i].state = "ACTIVE"

\* Exactly one answer is ever applied to an invite: once a session has been
\* active, no message changes who it is with, and it is never set up again.
OneAnswerApplied ==
  [][\A d \in Device, i \in Sid :
       sess[d][i].wasActive =>
         /\ sess'[d][i].peer = sess[d][i].peer
         /\ sess'[d][i].answered = sess[d][i].answered
         /\ sess[d][i].state = "ENDED" => sess'[d][i].state = "ENDED"]_vars

\* An id the device already holds never takes the place of the session it
\* names: the record of an own invite stays the initiator's.
OwnRecordStays ==
  [][\A d \in Device, i \in Sid :
       sess[d][i].role = "initiator" => sess'[d][i].role = "initiator"]_vars
=============================================================================
