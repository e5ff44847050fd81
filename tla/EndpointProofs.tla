---------------------------- MODULE EndpointProofs ----------------------------
(***************************************************************************)
(* Proofs about Endpoint: what one device keeps true of its sessions,      *)
(* timers and media whatever arrives, for every set of devices, parties,   *)
(* session ids and update ids.                                             *)
(***************************************************************************)
EXTENDS Endpoint, SequenceTheorems, FiniteSetTheorems, TLAPS

\* What a session record says of itself.  A live session has a peer, its role
\* follows from its state, and only an active session has been active or has an
\* update pending; a session that is not over has been queued at most thrice.
Coherent(s) ==
  /\ s.state \in Inviting => s.role = "initiator"
  /\ s.state \in {"OFFERED", "ALERTING"} => s.role = "responder"
  /\ s.state \notin {"NONE", "ENDED"} => s.peer \in Party /\ s.inviteTo \in Party
  /\ s.state # "ENDED" => s.cancelled = FALSE /\ s.queueCount <= MaxRequeues
  /\ s.state \notin {"ACTIVE", "ENDED"} => s.wasActive = FALSE
  /\ s.cancelled = TRUE => s.wasActive = FALSE
  /\ s.outstanding # NoUpdate => s.state = "ACTIVE"

\* A session s with running timers T, and with media if on.
Fits(s, T, on) ==
  /\ s \in SessionRec
  /\ Coherent(s)
  /\ T \in TimersAllowed(s.state)
  /\ on <=> s.state = "ACTIVE"

\* The inductive invariant: types, and every session fits its timers and media.
EndpointInv ==
  /\ TypeOK
  /\ \A d \in Device, i \in Sid : Fits(sess[d][i], TimersOf(d, i), i \in media[d])

-----------------------------------------------------------------------------
(* Steps that change one session.                                          *)

\* The step leaves the timers T of session i of d running, and every other one.
TimersBecome(d, i, T) ==
  \E ts \in SUBSET (Sid \X TimerName) :
    /\ timers' = [timers EXCEPT ![d] = ts]
    /\ \A k \in Sid, name \in TimerName :
         <<k, name>> \in ts <=> IF k = i THEN name \in T ELSE <<k, name>> \in timers[d]

\* The step leaves session i of d with media if on, and every other as it was.
MediaBecomes(d, i, on) ==
  \E ms \in SUBSET Sid :
    /\ media' = [media EXCEPT ![d] = ms]
    /\ \A k \in Sid : k \in ms <=> IF k = i THEN on ELSE k \in media[d]

\* The step leaves session i of d as s, with timers T and with media if on.
OneSession(d, i, s, T, on) ==
  /\ Session(d, i, s)
  /\ TimersBecome(d, i, T)
  /\ MediaBecomes(d, i, on)

\* A step that leaves one session fitting its timers and media, and touches no
\* other, preserves the invariant.
LEMMA OneSessionInv ==
  ASSUME EndpointInv, NEW d \in Device, NEW i \in Sid, NEW s, NEW T \in SUBSET TimerName,
         NEW on, OneSession(d, i, s, T, on), Fits(s, T, on),
         lapsed' \subseteq Sid, up' \in [Device -> Seq(Message)]
  PROVE  EndpointInv'
<1>1. TypeOK
  BY DEF EndpointInv
<1>2. PICK ts \in SUBSET (Sid \X TimerName) :
        /\ timers' = [timers EXCEPT ![d] = ts]
        /\ \A k \in Sid, name \in TimerName :
             <<k, name>> \in ts <=> IF k = i THEN name \in T ELSE <<k, name>> \in timers[d]
  BY DEF OneSession, TimersBecome
<1>3. PICK ms \in SUBSET Sid :
        /\ media' = [media EXCEPT ![d] = ms]
        /\ \A k \in Sid : k \in ms <=> IF k = i THEN on ELSE k \in media[d]
  BY DEF OneSession, MediaBecomes
<1>4. TypeOK'
  <2>1. sess' \in [Device -> [Sid -> SessionRec]]
    BY <1>1 DEF TypeOK, OneSession, Session, Fits
  <2>2. timers' \in [Device -> SUBSET (Sid \X TimerName)]
    BY <1>1, <1>2 DEF TypeOK
  <2>3. media' \in [Device -> SUBSET Sid]
    BY <1>1, <1>3 DEF TypeOK
  <2> QED BY <2>1, <2>2, <2>3 DEF TypeOK
<1>5. ASSUME NEW e \in Device, NEW k \in Sid
      PROVE  Fits(sess[e][k], TimersOf(e, k), k \in media[e])'
  <2>0. sess'[e][k] = IF e = d /\ k = i THEN s ELSE sess[e][k]
    BY <1>1 DEF TypeOK, OneSession, Session
  <2>1. CASE e = d /\ k = i
    <3>1. TimersOf(e, k)' = T
      BY <1>1, <1>2, <2>1 DEF TimersOf, Running, TypeOK
    <3>2. (k \in media'[e]) <=> on
      BY <1>1, <1>3, <2>1 DEF TypeOK
    <3> QED BY <2>0, <2>1, <3>1, <3>2 DEF Fits
  <2>2. CASE ~(e = d /\ k = i)
    <3>1. TimersOf(e, k)' = TimersOf(e, k)
      BY <1>1, <1>2, <2>2 DEF TimersOf, Running, TypeOK
    <3>2. (k \in media'[e]) <=> k \in media[e]
      BY <1>1, <1>3, <2>2 DEF TypeOK
    <3>3. Fits(sess[e][k], TimersOf(e, k), k \in media[e])
      BY DEF EndpointInv
    <3> QED BY <2>0, <2>2, <3>1, <3>2, <3>3 DEF Fits
  <2> QED BY <2>1, <2>2
<1> QED
  BY <1>4, <1>5 DEF EndpointInv

\* What the ways to set timers leave running.
LEMMA TimerSteps ==
  ASSUME TypeOK, NEW d \in Device, NEW i \in Sid
  PROVE  /\ StopAll(d, i) => TimersBecome(d, i, {})
         /\ UNCHANGED timers => TimersBecome(d, i, TimersOf(d, i))
         /\ \A name \in TimerName :
              SetTimers(d, timers[d] \cup {<<i, name>>})
                => TimersBecome(d, i, TimersOf(d, i) \cup {name})
         /\ \A names \in SUBSET TimerName :
              SetTimers(d, Without(d, i, names)) => TimersBecome(d, i, TimersOf(d, i) \ names)
         /\ \A names \in SUBSET TimerName, name \in TimerName :
              SetTimers(d, Without(d, i, names) \cup {<<i, name>>})
                => TimersBecome(d, i, (TimersOf(d, i) \ names) \cup {name})
<1> DEFINE Leaves(ts, T) ==
             \A k \in Sid, name \in TimerName :
               <<k, name>> \in ts <=> IF k = i THEN name \in T ELSE <<k, name>> \in timers[d]
<1>1. timers \in [Device -> SUBSET (Sid \X TimerName)] /\ timers[d] \subseteq Sid \X TimerName
  BY DEF TypeOK
<1>2. ASSUME NEW ts \in SUBSET (Sid \X TimerName), NEW T, SetTimers(d, ts), Leaves(ts, T)
      PROVE  TimersBecome(d, i, T)
  BY <1>2 DEF TimersBecome, SetTimers
<1>3. StopAll(d, i) => TimersBecome(d, i, {})
  <2>1. Without(d, i, TimerName) \in SUBSET (Sid \X TimerName)
    BY <1>1 DEF Without
  <2>2. Leaves(Without(d, i, TimerName), {})
    BY <1>1 DEF Without
  <2> QED BY <1>2, <2>1, <2>2 DEF StopAll
<1>4. UNCHANGED timers => TimersBecome(d, i, TimersOf(d, i))
  <2>1. UNCHANGED timers => SetTimers(d, timers[d])
    BY <1>1 DEF SetTimers
  <2>2. Leaves(timers[d], TimersOf(d, i))
    BY DEF TimersOf, Running
  <2> QED BY <1>1, <1>2, <2>1, <2>2
<1>5. ASSUME NEW names \in SUBSET TimerName
      PROVE  SetTimers(d, Without(d, i, names)) => TimersBecome(d, i, TimersOf(d, i) \ names)
  <2>1. Without(d, i, names) \in SUBSET (Sid \X TimerName)
    BY <1>1 DEF Without
  <2>2. Leaves(Without(d, i, names), TimersOf(d, i) \ names)
    BY <1>1 DEF Without, TimersOf, Running
  <2> QED BY <1>2, <2>1, <2>2
<1>6. ASSUME NEW names \in SUBSET TimerName, NEW name \in TimerName
      PROVE  SetTimers(d, Without(d, i, names) \cup {<<i, name>>})
                => TimersBecome(d, i, (TimersOf(d, i) \ names) \cup {name})
  <2>1. Without(d, i, names) \cup {<<i, name>>} \in SUBSET (Sid \X TimerName)
    BY <1>1 DEF Without
  <2>2. Leaves(Without(d, i, names) \cup {<<i, name>>}, (TimersOf(d, i) \ names) \cup {name})
    BY <1>1 DEF Without, TimersOf, Running
  <2> QED BY <1>2, <2>1, <2>2
<1>7. ASSUME NEW name \in TimerName
      PROVE  SetTimers(d, timers[d] \cup {<<i, name>>})
                => TimersBecome(d, i, TimersOf(d, i) \cup {name})
  <2>1. timers[d] \cup {<<i, name>>} \in SUBSET (Sid \X TimerName)
    BY <1>1
  <2>2. Leaves(timers[d] \cup {<<i, name>>}, TimersOf(d, i) \cup {name})
    BY <1>1 DEF TimersOf, Running
  <2> QED BY <1>2, <2>1, <2>2
<1> QED
  BY <1>3, <1>4, <1>5, <1>6, <1>7

\* What the ways to set media leave on.
LEMMA MediaSteps ==
  ASSUME TypeOK, NEW d \in Device, NEW i \in Sid
  PROVE  /\ StartMedia(d, i) => MediaBecomes(d, i, TRUE)
         /\ StopMedia(d, i) => MediaBecomes(d, i, FALSE)
         /\ UNCHANGED media => MediaBecomes(d, i, i \in media[d])
<1>1. media \in [Device -> SUBSET Sid]
  BY DEF TypeOK
<1>2. StartMedia(d, i) => MediaBecomes(d, i, TRUE)
  BY <1>1 DEF StartMedia, MediaBecomes
<1>3. StopMedia(d, i) => MediaBecomes(d, i, FALSE)
  BY <1>1 DEF StopMedia, MediaBecomes
<1>4. UNCHANGED media => MediaBecomes(d, i, i \in media[d])
  <2>1. UNCHANGED media => media' = [media EXCEPT ![d] = media[d]]
    BY <1>1
  <2> QED BY <1>1, <2>1 DEF MediaBecomes
<1> QED
  BY <1>2, <1>3, <1>4

\* What a device sends stays well-formed.
LEMMA EmitType ==
  ASSUME NEW d \in Device, NEW rest \in [Device -> Seq(Message)], NEW msgs \in Seq(Message),
         Emit(d, rest, msgs)
  PROVE  up' \in [Device -> Seq(Message)]
  BY ConcatProperties DEF Emit

\* A message of well-formed parts is one.
LEMMA MsgType ==
  ASSUME NEW type \in MessageType, NEW from \in Party, NEW to \in Party, NEW i \in Sid,
         NEW tag \in Tag, NEW u \in UpdateId \cup {0}
  PROVE  /\ Msg(type, from, to, i, tag, u) \in Message
         /\ <<Msg(type, from, to, i, tag, u)>> \in Seq(Message)
<1>1. Msg(type, from, to, i, tag, u) \in Message
  BY DEF Msg, Message
<1> QED BY <1>1

\* What is known of one session of a device.
LEMMA SessionFacts ==
  ASSUME EndpointInv, NEW d \in Device, NEW i \in Sid
  PROVE  /\ TypeOK
         /\ d \in Party
         /\ sess[d][i] \in SessionRec
         /\ Coherent(sess[d][i])
         /\ TimersOf(d, i) \in TimersAllowed(sess[d][i].state)
         /\ TimersOf(d, i) \subseteq TimerName
         /\ i \in media[d] <=> sess[d][i].state = "ACTIVE"
  BY PartyAssumption DEF EndpointInv, Fits, TimersOf

\* The record end() leaves is coherent.
LEMMA FinishedFits ==
  ASSUME NEW s \in SessionRec, s.cancelled = TRUE => s.wasActive = FALSE
  PROVE  Fits(Finished(s), {}, FALSE)
<1>1. Finished(s) \in SessionRec
  BY DEF Finished, SessionRec
<1>2. Finished(s).state = "ENDED" /\ Finished(s).outstanding = NoUpdate
      /\ Finished(s).cancelled = s.cancelled /\ Finished(s).wasActive = s.wasActive
  BY DEF Finished, SessionRec
<1>3. Coherent(Finished(s))
  BY <1>2 DEF Coherent, Inviting
<1> QED BY <1>1, <1>2, <1>3 DEF Fits, TimersAllowed

\* end() of a session without media.
LEMMA EndInv ==
  ASSUME EndpointInv, NEW d \in Device, NEW i \in Sid, NEW s \in SessionRec,
         s.cancelled = TRUE => s.wasActive = FALSE,
         sess[d][i].state # "ACTIVE", End(d, i, s),
         lapsed' \subseteq Sid, up' \in [Device -> Seq(Message)]
  PROVE  EndpointInv'
<1>1. TypeOK /\ (i \in media[d] <=> FALSE)
  BY SessionFacts
<1>2. TimersBecome(d, i, {}) /\ MediaBecomes(d, i, i \in media[d])
  BY <1>1, TimerSteps, MediaSteps DEF End
<1>3. OneSession(d, i, Finished(s), {}, FALSE)
  BY <1>1, <1>2 DEF OneSession, End, MediaBecomes
<1> QED
  BY <1>3, FinishedFits, OneSessionInv

\* end() of a session with media.
LEMMA EndWithMediaInv ==
  ASSUME EndpointInv, NEW d \in Device, NEW i \in Sid, NEW s \in SessionRec,
         s.cancelled = TRUE => s.wasActive = FALSE, EndWithMedia(d, i, s),
         lapsed' \subseteq Sid, up' \in [Device -> Seq(Message)]
  PROVE  EndpointInv'
<1>1. TypeOK
  BY DEF EndpointInv
<1>2. OneSession(d, i, Finished(s), {}, FALSE)
  BY <1>1, TimerSteps, MediaSteps DEF OneSession, EndWithMedia
<1> QED
  BY <1>2, FinishedFits, OneSessionInv

\* A step that changes only the record of a session, to one of the same state.
LEMMA RecordInv ==
  ASSUME EndpointInv, NEW d \in Device, NEW i \in Sid, NEW s \in SessionRec, Coherent(s),
         s.state = sess[d][i].state, Session(d, i, s), UNCHANGED <<timers, media>>,
         lapsed' \subseteq Sid, up' \in [Device -> Seq(Message)]
  PROVE  EndpointInv'
<1>1. TypeOK /\ TimersOf(d, i) \subseteq TimerName
  BY SessionFacts
<1>2. OneSession(d, i, s, TimersOf(d, i), i \in media[d])
  BY <1>1, TimerSteps, MediaSteps DEF OneSession
<1>3. Fits(s, TimersOf(d, i), i \in media[d])
  BY SessionFacts DEF Fits
<1> QED
  BY <1>1, <1>2, <1>3, OneSessionInv

\* The record of a session the device does not hold.
LEMMA BlankFacts ==
  /\ Blank \in SessionRec
  /\ Blank.state = "NONE" /\ Blank.role = "none" /\ Blank.outstanding = NoUpdate
  /\ Blank.cancelled = FALSE /\ Blank.wasActive = FALSE /\ Blank.queueCount = 0
<1>1. /\ Blank.state = "NONE" /\ Blank.role = "none" /\ Blank.outstanding = NoUpdate
      /\ Blank.queueCount = 0
  BY DEF Blank
<1>2. Blank.cancelled = FALSE /\ Blank.wasActive = FALSE
  BY Zenon DEF Blank
<1>3. 0 \in 0 .. MaxRequeues + 1
  BY DEF MaxRequeues
<1>4. Blank \in SessionRec
  BY <1>3, Zenon DEF Blank, SessionRec
<1> QED BY <1>1, <1>2, <1>4

\* A new session of a role in the state it starts in.
LEMMA NewSessionFacts ==
  ASSUME NEW role \in {"initiator", "responder"}, NEW peer \in Party, NEW to \in Party
  PROVE  LET state == IF role = "initiator" THEN "INVITING" ELSE "OFFERED"
             s == NewSession(role, state, peer, to)
         IN  s \in SessionRec /\ Coherent(s) /\ s.state = state
<1> DEFINE state == IF role = "initiator" THEN "INVITING" ELSE "OFFERED"
           s == NewSession(role, state, peer, to)
<1>1. s \in SessionRec
  BY BlankFacts DEF NewSession, SessionRec
<1>2. /\ s.role = role /\ s.state = state /\ s.peer = peer /\ s.inviteTo = to
      /\ s.outstanding = Blank.outstanding /\ s.cancelled = Blank.cancelled
      /\ s.wasActive = Blank.wasActive /\ s.queueCount = Blank.queueCount
  BY BlankFacts DEF NewSession, SessionRec
<1> HIDE DEF s
<1>3. /\ s.outstanding = NoUpdate /\ s.cancelled = FALSE /\ s.wasActive = FALSE
      /\ s.queueCount = 0
  BY <1>2, BlankFacts
<1>4. Coherent(s)
  BY <1>2, <1>3 DEF Coherent, Inviting, MaxRequeues
<1> QED BY <1>1, <1>2, <1>4 DEF s

-----------------------------------------------------------------------------
(* Local events and the clock.                                             *)

\* place_call: a new attempt starts with T-Establish.
LEMMA PlaceCallInv ==
  ASSUME EndpointInv, NEW d \in Device, NEW i \in Sid, NEW to \in Party,
         NEW rest \in [Device -> Seq(Message)], PlaceCall(d, i, to, rest)
  PROVE  EndpointInv'
<1> DEFINE s == NewSession("initiator", "INVITING", to, to)
<1>1. TypeOK /\ d \in Party /\ TimersOf(d, i) = {}
  BY SessionFacts DEF PlaceCall, TimersAllowed
<1>2. s \in SessionRec /\ Coherent(s) /\ s.state = "INVITING"
  BY NewSessionFacts
<1>3. i \notin media[d]
  BY SessionFacts DEF PlaceCall
<1>4. TimersBecome(d, i, {"T-Establish"})
  <2>1. TimersBecome(d, i, TimersOf(d, i) \cup {"T-Establish"})
    BY <1>1, TimerSteps DEF PlaceCall, TimerName
  <2> QED BY <1>1, <2>1 DEF TimersBecome
<1>5. OneSession(d, i, s, {"T-Establish"}, i \in media[d])
  BY <1>1, <1>4, MediaSteps DEF OneSession, PlaceCall
<1>6. Fits(s, {"T-Establish"}, i \in media[d])
  BY <1>2, <1>3 DEF Fits, TimersAllowed
<1>7. up' \in [Device -> Seq(Message)] /\ lapsed' \subseteq Sid
  <2>1. <<Msg("invite", d, to, i, "none", 0)>> \in Seq(Message)
    BY <1>1, MsgType DEF MessageType, Tag
  <2> QED BY <1>1, <2>1, EmitType DEF PlaceCall, TypeOK
<1> QED
  BY <1>5, <1>6, <1>7, OneSessionInv DEF TimerName

\* The initiator's withdrawal of a live attempt, by the user or a timer.
LEMMA WithdrawInv ==
  ASSUME EndpointInv, NEW d \in Device, NEW i \in Sid, NEW reason \in CancelReason,
         NEW rest \in [Device -> Seq(Message)], sess[d][i].state \in Inviting,
         Withdraw(d, i, reason, rest), UNCHANGED lapsed
  PROVE  EndpointInv'
<1> DEFINE s == [sess[d][i] EXCEPT !.cancelled = TRUE]
<1>1. /\ sess[d][i] \in SessionRec /\ sess[d][i].inviteTo \in Party /\ d \in Party
      /\ sess[d][i].wasActive = FALSE /\ sess[d][i].state # "ACTIVE" /\ TypeOK
  BY SessionFacts DEF Coherent, Inviting
<1>2. s \in SessionRec /\ s.wasActive = FALSE
  BY <1>1 DEF SessionRec
<1>3. up' \in [Device -> Seq(Message)]
  <2>1. <<Msg("cancel", d, sess[d][i].inviteTo, i, reason, 0)>> \in Seq(Message)
    BY <1>1, MsgType DEF MessageType, Tag
  <2> QED BY <2>1, EmitType DEF Withdraw
<1>4. lapsed' \subseteq Sid
  BY <1>1 DEF TypeOK
<1> QED
  BY <1>1, <1>2, <1>3, <1>4, EndInv DEF Withdraw

\* The responder's rejection of an invite it has been deciding on.
LEMMA TurnDownInv ==
  ASSUME EndpointInv, NEW d \in Device, NEW i \in Sid, NEW reason \in RejectReason,
         NEW rest \in [Device -> Seq(Message)], sess[d][i].state \in {"OFFERED", "ALERTING"},
         TurnDown(d, i, reason, rest), UNCHANGED lapsed
  PROVE  EndpointInv'
<1>1. /\ sess[d][i] \in SessionRec /\ sess[d][i].peer \in Party /\ d \in Party
      /\ sess[d][i].wasActive = FALSE /\ sess[d][i].state # "ACTIVE" /\ TypeOK
  BY SessionFacts DEF Coherent
<1>2. up' \in [Device -> Seq(Message)]
  <2>1. <<Msg("reject", d, sess[d][i].peer, i, reason, 0)>> \in Seq(Message)
    BY <1>1, MsgType DEF MessageType, Tag
  <2> QED BY <2>1, EmitType DEF TurnDown
<1>3. lapsed' \subseteq Sid
  BY <1>1 DEF TypeOK
<1> QED
  BY <1>1, <1>2, <1>3, EndInv DEF TurnDown

\* alert, in time and too late.
LEMMA AlertInv ==
  ASSUME EndpointInv, NEW d \in Device, NEW i \in Sid,
         NEW rest \in [Device -> Seq(Message)], Alert(d, i, rest)
  PROVE  EndpointInv'
<1> DEFINE r == sess[d][i]
           s == [r EXCEPT !.state = "ALERTING"]
<1>1. /\ TypeOK /\ d \in Party /\ r \in SessionRec /\ Coherent(r) /\ r.state = "OFFERED"
      /\ TimersOf(d, i) = {} /\ r.peer \in Party /\ i \notin media[d]
  BY SessionFacts DEF Alert, TimersAllowed, Coherent
<1>2. /\ s \in SessionRec /\ s.state = "ALERTING" /\ s.role = r.role /\ s.peer = r.peer
      /\ s.inviteTo = r.inviteTo /\ s.cancelled = r.cancelled /\ s.wasActive = r.wasActive
      /\ s.outstanding = r.outstanding /\ s.queueCount = r.queueCount
  BY <1>1 DEF SessionRec
<1>3. Coherent(s)
  BY <1>1, <1>2 DEF Coherent, Inviting
<1>4. TimersBecome(d, i, {"T-Ring-Local"})
  <2>1. TimersBecome(d, i, TimersOf(d, i) \cup {"T-Ring-Local"})
    BY <1>1, TimerSteps DEF Alert, TimerName
  <2> QED BY <1>1, <2>1 DEF TimersBecome
<1>5. OneSession(d, i, s, {"T-Ring-Local"}, i \in media[d])
  BY <1>1, <1>4, MediaSteps DEF OneSession, Alert
<1>6. Fits(s, {"T-Ring-Local"}, i \in media[d])
  BY <1>1, <1>2, <1>3 DEF Fits, TimersAllowed
<1>7. up' \in [Device -> Seq(Message)] /\ lapsed' \subseteq Sid
  <2>1. <<Msg("progress", d, r.peer, i, "ringing", 0)>> \in Seq(Message)
    BY <1>1, MsgType DEF MessageType, Tag, Status
  <2> QED BY <1>1, <2>1, EmitType DEF Alert, TypeOK
<1> QED
  BY <1>5, <1>6, <1>7, OneSessionInv DEF TimerName

\* accept: the responder's way into ACTIVE.
LEMMA AcceptInv ==
  ASSUME EndpointInv, NEW d \in Device, NEW i \in Sid,
         NEW rest \in [Device -> Seq(Message)], Accept(d, i, rest)
  PROVE  EndpointInv'
<1> DEFINE r == sess[d][i]
           s == [r EXCEPT !.state = "ACTIVE", !.wasActive = TRUE]
<1>1. /\ TypeOK /\ d \in Party /\ r \in SessionRec /\ Coherent(r) /\ r.state = "ALERTING"
      /\ r.peer \in Party
  BY SessionFacts DEF Accept, Coherent
<1>2. /\ s \in SessionRec /\ s.state = "ACTIVE" /\ s.role = r.role /\ s.peer = r.peer
      /\ s.inviteTo = r.inviteTo /\ s.cancelled = r.cancelled
      /\ s.outstanding = r.outstanding /\ s.queueCount = r.queueCount
  BY <1>1 DEF SessionRec
<1>3. Coherent(s)
  BY <1>1, <1>2 DEF Coherent, Inviting
<1>4. OneSession(d, i, s, {}, TRUE)
  BY <1>1, TimerSteps, MediaSteps DEF OneSession, Accept
<1>5. Fits(s, {}, TRUE)
  BY <1>2, <1>3 DEF Fits, TimersAllowed
<1>6. up' \in [Device -> Seq(Message)] /\ lapsed' \subseteq Sid
  <2>1. <<Msg("answer", d, r.peer, i, "none", 0)>> \in Seq(Message)
    BY <1>1, MsgType DEF MessageType, Tag
  <2> QED BY <1>1, <2>1, EmitType DEF Accept, TypeOK
<1> QED
  BY <1>4, <1>5, <1>6, OneSessionInv

\* hangup: a local way out of ACTIVE.
LEMMA HangupInv ==
  ASSUME EndpointInv, NEW d \in Device, NEW i \in Sid,
         NEW rest \in [Device -> Seq(Message)], Hangup(d, i, rest)
  PROVE  EndpointInv'
<1>1. /\ TypeOK /\ d \in Party /\ sess[d][i] \in SessionRec /\ sess[d][i].peer \in Party
      /\ sess[d][i].cancelled = FALSE
  BY SessionFacts DEF Hangup, Coherent
<1>2. up' \in [Device -> Seq(Message)] /\ lapsed' \subseteq Sid
  <2>1. <<Msg("bye", d, sess[d][i].peer, i, "user.hangup", 0)>> \in Seq(Message)
    BY <1>1, MsgType DEF MessageType, Tag, ByeReason
  <2> QED BY <1>1, <2>1, EmitType DEF Hangup, TypeOK
<1> QED
  BY <1>1, <1>2, EndWithMediaInv DEF Hangup

\* Recording or settling an update keeps an active session coherent.
LEMMA OutstandingFits ==
  ASSUME NEW r \in SessionRec, Coherent(r), r.state = "ACTIVE",
         NEW o \in {NoUpdate} \cup [id : UpdateId, dir : {"outbound", "inbound"}]
  PROVE  LET s == [r EXCEPT !.outstanding = o]
         IN  s \in SessionRec /\ Coherent(s) /\ s.state = "ACTIVE"
<1> DEFINE s == [r EXCEPT !.outstanding = o]
<1>1. /\ s \in SessionRec /\ s.state = "ACTIVE" /\ s.role = r.role /\ s.peer = r.peer
      /\ s.inviteTo = r.inviteTo /\ s.cancelled = r.cancelled /\ s.wasActive = r.wasActive
      /\ s.queueCount = r.queueCount
  BY DEF SessionRec
<1>2. Coherent(s)
  BY <1>1 DEF Coherent, Inviting
<1> QED BY <1>1, <1>2

\* update: an update becomes pending.
LEMMA UpdateInv ==
  ASSUME EndpointInv, NEW d \in Device, NEW i \in Sid, NEW u \in UpdateId,
         NEW rest \in [Device -> Seq(Message)], Update(d, i, u, rest)
  PROVE  EndpointInv'
<1>1. /\ TypeOK /\ d \in Party /\ sess[d][i] \in SessionRec /\ sess[d][i].peer \in Party
      /\ Coherent(sess[d][i]) /\ sess[d][i].state = "ACTIVE"
  BY SessionFacts DEF Update, Coherent
<1>2. Outbound(u) \in [id : UpdateId, dir : {"outbound", "inbound"}]
  BY DEF Outbound
<1>3. up' \in [Device -> Seq(Message)] /\ lapsed' \subseteq Sid
  <2>1. <<Msg("update", d, sess[d][i].peer, i, "none", u)>> \in Seq(Message)
    BY <1>1, MsgType DEF MessageType, Tag
  <2> QED BY <1>1, <2>1, EmitType DEF Update, TypeOK
<1> QED
  BY <1>1, <1>2, <1>3, OutstandingFits, RecordInv DEF Update

\* answer_update and reject_update: the pending update is settled.
LEMMA SettleUpdateInv ==
  ASSUME EndpointInv, NEW d \in Device, NEW i \in Sid, NEW u \in UpdateId,
         NEW type \in MessageType, NEW tag \in Tag,
         NEW rest \in [Device -> Seq(Message)], SettleUpdate(d, i, u, type, tag, rest)
  PROVE  EndpointInv'
<1>1. /\ TypeOK /\ d \in Party /\ sess[d][i] \in SessionRec /\ sess[d][i].peer \in Party
      /\ Coherent(sess[d][i]) /\ sess[d][i].state = "ACTIVE"
  BY SessionFacts DEF SettleUpdate, Coherent
<1>2. u \in UpdateId \cup {0}
  OBVIOUS
<1>3. up' \in [Device -> Seq(Message)] /\ lapsed' \subseteq Sid
  <2>1. <<Msg(type, d, sess[d][i].peer, i, tag, u)>> \in Seq(Message)
    BY <1>1, <1>2, MsgType
  <2> QED BY <1>1, <2>1, EmitType DEF SettleUpdate, TypeOK
<1> QED
  BY <1>1, <1>3, OutstandingFits, RecordInv DEF SettleUpdate

\* A step that touches no session.
LEMMA NoSessionInv ==
  ASSUME EndpointInv, UNCHANGED <<sess, timers, media>>,
         lapsed' \subseteq Sid, up' \in [Device -> Seq(Message)]
  PROVE  EndpointInv'
  BY DEF EndpointInv, TypeOK, TimersOf, Running

\* info changes no session.
LEMMA InfoInv ==
  ASSUME EndpointInv, NEW d \in Device, NEW i \in Sid,
         NEW rest \in [Device -> Seq(Message)], Info(d, i, rest)
  PROVE  EndpointInv'
<1>1. TypeOK /\ d \in Party /\ sess[d][i].peer \in Party
  BY SessionFacts DEF Info, Coherent
<1>2. <<Msg("info", d, sess[d][i].peer, i, "none", 0)>> \in Seq(Message)
  BY <1>1, MsgType DEF MessageType, Tag
<1> QED
  BY <1>1, <1>2, EmitType, NoSessionInv DEF Info, TypeOK

\* A timer that expires always matches its session: the state it belongs to
\* has not been left.
LEMMA FireInv ==
  ASSUME EndpointInv, NEW d \in Device, NEW i \in Sid, NEW name \in TimerName,
         NEW rest \in [Device -> Seq(Message)], Fire(d, i, name, rest)
  PROVE  EndpointInv'
<1>1. name \in TimersOf(d, i)
  BY DEF Fire, TimersOf
<1>2. \/ name # "T-Ring-Local" /\ sess[d][i].state \in Inviting
      \/ name = "T-Ring-Local" /\ sess[d][i].state = "ALERTING"
  BY <1>1, SessionFacts DEF TimersAllowed, Inviting
<1>3. CASE name # "T-Ring-Local" /\ sess[d][i].state \in Inviting
  <2>1. Withdraw(d, i, "session.timeout", rest) /\ UNCHANGED lapsed
    BY <1>3 DEF Fire
  <2> QED BY <1>3, <2>1, WithdrawInv DEF CancelReason
<1>4. CASE name = "T-Ring-Local" /\ sess[d][i].state = "ALERTING"
  <2>1. TurnDown(d, i, "user.no-answer", rest) /\ UNCHANGED lapsed
    BY <1>4 DEF Fire
  <2> QED BY <1>4, <2>1, TurnDownInv DEF RejectReason
<1> QED
  BY <1>2, <1>3, <1>4

\* The expiry of an invite changes no session.
LEMMA LapseInv ==
  ASSUME EndpointInv, NEW i \in Sid, NEW rest \in [Device -> Seq(Message)], Lapse(i, rest)
  PROVE  EndpointInv'
  BY NoSessionInv DEF Lapse, EndpointInv, TypeOK

\* Every local request preserves the invariant.
LEMMA LocalInv ==
  ASSUME EndpointInv, NEW d \in Device, Local(d) PROVE EndpointInv'
<1>1. Quiet \in [Device -> Seq(Message)]
  BY EmptySeq DEF Quiet
<1>2. PICK i \in Sid :
     \/ \E to \in Party \ {d, IdentityOf[d]} : PlaceCall(d, i, to, Quiet)
     \/ Cancel(d, i, Quiet)
     \/ Hangup(d, i, Quiet)
     \/ Alert(d, i, Quiet)
     \/ AlertTooLate(d, i, Quiet)
     \/ AutoReject(d, i, Quiet)
     \/ Accept(d, i, Quiet)
     \/ Decline(d, i, Quiet)
     \/ \E u \in UpdateId : Update(d, i, u, Quiet)
     \/ \E u \in UpdateId : AnswerUpdate(d, i, u, Quiet) \/ RejectUpdate(d, i, u, Quiet)
     \/ Info(d, i, Quiet)
  BY DEF Local
<1>3. ASSUME NEW to \in Party \ {d, IdentityOf[d]}, PlaceCall(d, i, to, Quiet) PROVE EndpointInv'
  BY <1>1, <1>3, PlaceCallInv
<1>4. ASSUME Cancel(d, i, Quiet) PROVE EndpointInv'
  BY <1>1, <1>4, WithdrawInv DEF Cancel, CancelReason
<1>5. ASSUME Hangup(d, i, Quiet) PROVE EndpointInv'
  BY <1>1, <1>5, HangupInv
<1>6. ASSUME Alert(d, i, Quiet) PROVE EndpointInv'
  BY <1>1, <1>6, AlertInv
<1>7. ASSUME AlertTooLate(d, i, Quiet) \/ AutoReject(d, i, Quiet) \/ Decline(d, i, Quiet)
      PROVE  EndpointInv'
  BY <1>1, <1>7, TurnDownInv DEF AlertTooLate, AutoReject, Decline, RejectReason
<1>8. ASSUME Accept(d, i, Quiet) PROVE EndpointInv'
  BY <1>1, <1>8, AcceptInv
<1>9. ASSUME NEW u \in UpdateId, Update(d, i, u, Quiet) PROVE EndpointInv'
  BY <1>1, <1>9, UpdateInv
<1>10. ASSUME NEW u \in UpdateId,
              AnswerUpdate(d, i, u, Quiet) \/ RejectUpdate(d, i, u, Quiet)
       PROVE  EndpointInv'
  BY <1>1, <1>10, SettleUpdateInv DEF AnswerUpdate, RejectUpdate, MessageType, Tag, RejectReason
<1>11. ASSUME Info(d, i, Quiet) PROVE EndpointInv'
  BY <1>1, <1>11, InfoInv
<1> QED
  BY <1>2, <1>3, <1>4, <1>5, <1>6, <1>7, <1>8, <1>9, <1>10, <1>11

-----------------------------------------------------------------------------
(* Received messages.                                                      *)

\* A reply of the device to a message it has received.
LEMMA ReplyType ==
  ASSUME NEW d \in Device, NEW m \in Message, NEW type \in MessageType, NEW tag \in Tag,
         NEW u \in UpdateId \cup {0}
  PROVE  <<Msg(type, d, m.from, m.sid, tag, u)>> \in Seq(Message)
<1>1. d \in Party /\ m.from \in Party /\ m.sid \in Sid
  BY PartyAssumption DEF Message
<1> QED BY <1>1, MsgType

\* The record of an invite that is turned down at once.
LEMMA RefusedFits ==
  ASSUME NEW m \in Message
  PROVE  Fits(RefusedInvite(m), {}, FALSE)
<1> DEFINE s == RefusedInvite(m)
<1>1. s \in SessionRec
  BY BlankFacts DEF RefusedInvite, SessionRec, Message
<1>2. /\ s.state = "ENDED" /\ s.outstanding = Blank.outstanding
      /\ s.cancelled = Blank.cancelled
  BY BlankFacts DEF RefusedInvite, SessionRec
<1> HIDE DEF s
<1>3. Coherent(s)
  BY <1>2, BlankFacts DEF Coherent, Inviting
<1> QED BY <1>1, <1>2, <1>3 DEF s, Fits, TimersAllowed

\* An invite under an id the device has not met becomes a session that has no
\* timers and no media.
LEMMA FreshSessionInv ==
  ASSUME EndpointInv, NEW d \in Device, NEW i \in Sid, NEW s, sess[d][i].state = "NONE",
         Fits(s, {}, FALSE), Session(d, i, s), UNCHANGED <<timers, media>>,
         lapsed' \subseteq Sid, up' \in [Device -> Seq(Message)]
  PROVE  EndpointInv'
<1>1. TypeOK /\ TimersOf(d, i) = {} /\ (i \in media[d] <=> FALSE)
  BY SessionFacts DEF TimersAllowed
<1>2. TimersBecome(d, i, TimersOf(d, i)) /\ MediaBecomes(d, i, i \in media[d])
  BY <1>1, TimerSteps, MediaSteps
<1>3. OneSession(d, i, s, {}, FALSE)
  BY <1>1, <1>2 DEF OneSession, MediaBecomes
<1> QED BY <1>3, OneSessionInv

\* An invite that meets no attempt of the device, or loses against one.
LEMMA RecvInviteSimpleInv ==
  ASSUME EndpointInv, NEW d \in Device, NEW m \in Message, sess[d][m.sid].state = "NONE",
         NEW rest \in [Device -> Seq(Message)],
         \/ RecvInviteFirstContact(d, m, rest)
         \/ RecvInviteWeWin(d, m, rest)
         \/ RecvInviteOffered(d, m, rest)
  PROVE  EndpointInv'
<1>1. TypeOK /\ m.sid \in Sid /\ m.from \in Party /\ m.to \in Party
  BY DEF EndpointInv, Message
<1>2. lapsed' \subseteq Sid /\ UNCHANGED <<timers, media>>
  BY <1>1 DEF TypeOK, RecvInviteFirstContact, RecvInviteWeWin, RecvInviteOffered
<1>3. CASE RecvInviteFirstContact(d, m, rest) \/ RecvInviteWeWin(d, m, rest)
  <2>1. \E reason \in RejectReason : Emit(d, rest, <<RejectInvite(d, m, reason)>>)
    BY <1>3 DEF RecvInviteFirstContact, RecvInviteWeWin, RejectReason
  <2>2. up' \in [Device -> Seq(Message)]
    BY <2>1, ReplyType, EmitType DEF RejectInvite, MessageType, Tag
  <2>3. Session(d, m.sid, RefusedInvite(m))
    BY <1>3 DEF RecvInviteFirstContact, RecvInviteWeWin
  <2> QED BY <1>1, <1>2, <2>2, <2>3, RefusedFits, FreshSessionInv
<1>4. CASE RecvInviteOffered(d, m, rest)
  <2> DEFINE s == NewSession("responder", "OFFERED", m.from, m.to)
  <2>1. s \in SessionRec /\ Coherent(s) /\ s.state = "OFFERED"
    BY <1>1, NewSessionFacts
  <2>2. Fits(s, {}, FALSE)
    BY <2>1 DEF Fits, TimersAllowed
  <2>3. Session(d, m.sid, s) /\ up' \in [Device -> Seq(Message)]
    BY <1>4 DEF RecvInviteOffered
  <2> QED BY <1>1, <1>2, <2>2, <2>3, FreshSessionInv
<1> QED
  BY <1>3, <1>4

\* The cancels of a device's rival attempts are well-formed messages.
LEMMA WithdrawalsType ==
  ASSUME EndpointInv, NEW d \in Device, NEW m \in Message, NEW w \in Withdrawals(d, Rivals(d, m))
  PROVE  w \in Seq(Message)
<1> DEFINE R == Rivals(d, m)
           n == Cardinality(R)
<1>1. R \subseteq Sid
  BY DEF Rivals
<1>2. n \in Nat
  BY <1>1, IdAssumption, FS_Subset, FS_CardinalityType
<1>3. ASSUME NEW i \in R PROVE GlareCancel(d, i) \in Message
  <2>1. i \in Sid /\ d \in Party /\ sess[d][i].inviteTo \in Party
    BY <1>1, <1>3, SessionFacts DEF Rivals, Coherent, Inviting
  <2> QED BY <2>1, MsgType DEF GlareCancel, MessageType, Tag, CancelReason
<1>4. w \in [1 .. n -> Message]
  BY <1>3 DEF Withdrawals
<1> HIDE DEF n
<1> QED
  BY <1>2, <1>4, SeqDef

\* Glare lost: every rival attempt is over, without timers, and the inbound
\* invite is offered.
LEMMA RecvInviteWeLoseInv ==
  ASSUME EndpointInv, NEW d \in Device, NEW m \in Message, sess[d][m.sid].state = "NONE",
         NEW rest \in [Device -> Seq(Message)], RecvInviteWeLose(d, m, rest)
  PROVE  EndpointInv'
<1> DEFINE R == Rivals(d, m)
           s == NewSession("responder", "OFFERED", m.from, m.to)
<1>1. /\ TypeOK /\ m.sid \in Sid /\ m.from \in Party /\ m.to \in Party
      /\ R \subseteq Sid /\ m.sid \notin R
  BY DEF EndpointInv, Message, Rivals, Inviting
<1>2. /\ sess' = [sess EXCEPT ![d] = [LostGlare(d, R) EXCEPT ![m.sid] = s]]
      /\ timers' = [timers EXCEPT ![d] = {t \in timers[d] : t[1] \notin R}]
      /\ UNCHANGED <<media, lapsed>>
  BY DEF RecvInviteWeLose, SetTimers
<1>3. s \in SessionRec /\ Coherent(s) /\ s.state = "OFFERED"
  BY <1>1, NewSessionFacts
<1>4. ASSUME NEW i \in R
      PROVE  Fits([sess[d][i] EXCEPT !.state = "ENDED", !.cancelled = TRUE], {}, FALSE)
  <2> DEFINE r == sess[d][i]
             l == [r EXCEPT !.state = "ENDED", !.cancelled = TRUE]
  <2>1. r \in SessionRec /\ Coherent(r) /\ r.state \in Inviting
    BY <1>1, <1>4, SessionFacts DEF Rivals
  <2>2. /\ l \in SessionRec /\ l.state = "ENDED"
        /\ l.wasActive = r.wasActive /\ l.outstanding = r.outstanding
    BY <2>1 DEF SessionRec
  <2>3. Coherent(l)
    BY <2>1, <2>2 DEF Coherent, Inviting
  <2> QED BY <2>2, <2>3 DEF Fits, TimersAllowed
<1>5. up' \in [Device -> Seq(Message)]
  BY WithdrawalsType, EmitType DEF RecvInviteWeLose
<1> HIDE DEF R, s
<1>6. ASSUME NEW e \in Device, NEW k \in Sid
      PROVE  /\ sess'[e][k] = IF e # d THEN sess[e][k]
                              ELSE IF k = m.sid THEN s
                              ELSE IF k \in R THEN [sess[d][k] EXCEPT !.state = "ENDED", !.cancelled = TRUE]
                              ELSE sess[d][k]
             /\ TimersOf(e, k)' = IF e = d /\ k \in R THEN {} ELSE TimersOf(e, k)
  <2>1. sess'[e] = IF e = d THEN [LostGlare(d, R) EXCEPT ![m.sid] = s] ELSE sess[e]
    BY <1>1, <1>2 DEF TypeOK
  <2>2. sess'[e][k] = IF e # d THEN sess[e][k]
                      ELSE IF k = m.sid THEN s
                      ELSE IF k \in R THEN [sess[d][k] EXCEPT !.state = "ENDED", !.cancelled = TRUE]
                      ELSE sess[d][k]
    BY <1>1, <2>1 DEF LostGlare
  <2>3. TimersOf(e, k)' = IF e = d /\ k \in R THEN {} ELSE TimersOf(e, k)
    BY <1>1, <1>2 DEF TypeOK, TimersOf, Running
  <2> QED BY <2>2, <2>3
<1>7. TypeOK'
  <2>1. [LostGlare(d, R) EXCEPT ![m.sid] = s] \in [Sid -> SessionRec]
    <3>1. ASSUME NEW k \in Sid
          PROVE  (IF k \in R THEN [sess[d][k] EXCEPT !.state = "ENDED", !.cancelled = TRUE]
                  ELSE sess[d][k]) \in SessionRec
      <4>1. sess[d][k] \in SessionRec
        BY <1>1 DEF TypeOK
      <4>2. ASSUME k \in R
            PROVE  [sess[d][k] EXCEPT !.state = "ENDED", !.cancelled = TRUE] \in SessionRec
        BY <1>4, <4>2, Zenon DEF Fits
      <4> QED BY <4>1, <4>2, Zenon
    <3>2. LostGlare(d, R) \in [Sid -> SessionRec]
      BY <3>1, Zenon DEF LostGlare
    <3> QED BY <1>1, <1>3, <3>2
  <2>2. sess' \in [Device -> [Sid -> SessionRec]]
    BY <1>1, <1>2, <2>1 DEF TypeOK
  <2>3. timers' \in [Device -> SUBSET (Sid \X TimerName)]
    BY <1>1, <1>2 DEF TypeOK
  <2> QED BY <1>1, <1>2, <1>5, <2>2, <2>3 DEF TypeOK
<1>8. ASSUME NEW e \in Device, NEW k \in Sid
      PROVE  Fits(sess'[e][k], TimersOf(e, k)', k \in media'[e])
  <2>1. media' = media
    BY <1>2
  <2>2. CASE e = d /\ k = m.sid
    <3>1. TimersOf(d, k) = {} /\ k \notin media[d]
      BY <2>2, SessionFacts DEF TimersAllowed
    <3>2. sess'[e][k] = s /\ TimersOf(e, k)' = {}
      BY <1>1, <1>6, <2>2, <3>1
    <3> QED BY <1>3, <2>1, <2>2, <3>1, <3>2 DEF Fits, TimersAllowed
  <2>3. CASE e = d /\ k \in R
    <3>1. k \notin media[d]
      BY <2>3, SessionFacts DEF R, Rivals, Inviting
    <3>2. sess'[e][k] = [sess[d][k] EXCEPT !.state = "ENDED", !.cancelled = TRUE] /\ TimersOf(e, k)' = {}
      BY <1>1, <1>6, <2>3
    <3> QED BY <1>4, <2>1, <2>3, <3>1, <3>2 DEF Fits
  <2>4. CASE ~(e = d /\ k \in R \cup {m.sid})
    <3>1. sess'[e][k] = sess[e][k] /\ TimersOf(e, k)' = TimersOf(e, k)
      <4>1. CASE e # d
        BY <1>6, <4>1
      <4>2. CASE e = d
        BY <1>6, <2>4, <4>2
      <4> QED BY <4>1, <4>2
    <3>2. Fits(sess[e][k], TimersOf(e, k), k \in media[e])
      BY DEF EndpointInv
    <3> QED BY <2>1, <3>1, <3>2
  <2> QED BY <2>2, <2>3, <2>4
<1> QED
  BY <1>7, <1>8 DEF EndpointInv

\* recv_invite preserves the invariant.
LEMMA RecvInviteInv ==
  ASSUME EndpointInv, NEW d \in Device, NEW m \in Message, sess[d][m.sid].state = "NONE",
         NEW rest \in [Device -> Seq(Message)], RecvInvite(d, m, rest)
  PROVE  EndpointInv'
<1>1. ~RecvInviteHeld(d, m, rest)
  BY DEF RecvInviteHeld
<1>2. ~RecvInviteEqual(d, m, rest)
  BY DEF RecvInviteEqual, Rivals, Inviting
<1> QED
  BY <1>1, <1>2, RecvInviteSimpleInv, RecvInviteWeLoseInv DEF RecvInvite

\* An error ends an attempt at most.
LEMMA RecvErrorInv ==
  ASSUME EndpointInv, NEW d \in Device, NEW m \in Message,
         NEW rest \in [Device -> Seq(Message)], RecvError(d, m, rest)
  PROVE  EndpointInv'
<1>1. TypeOK /\ m.sid \in Sid /\ up' \in [Device -> Seq(Message)]
  BY DEF EndpointInv, Message, RecvError
<1>2. lapsed' \subseteq Sid
  BY <1>1 DEF TypeOK, RecvError
<1>3. CASE m.tag = "transport.no-response" /\ sess[d][m.sid].state \in Inviting
  <2>1. /\ sess[d][m.sid] \in SessionRec /\ sess[d][m.sid].wasActive = FALSE
        /\ sess[d][m.sid].state # "ACTIVE"
    BY <1>1, <1>3, SessionFacts DEF Coherent, Inviting
  <2> QED BY <1>1, <1>2, <1>3, <2>1, EndInv DEF RecvError
<1>4. CASE ~(m.tag = "transport.no-response" /\ sess[d][m.sid].state \in Inviting)
  BY <1>1, <1>2, <1>4, NoSessionInv DEF RecvError
<1> QED
  BY <1>3, <1>4

\* A message for a session the device does not hold changes none.
LEMMA RecvUnknownSessionInv ==
  ASSUME EndpointInv, NEW d \in Device, NEW m \in Message,
         NEW rest \in [Device -> Seq(Message)], RecvUnknownSession(d, m, rest)
  PROVE  EndpointInv'
<1>1. up' \in [Device -> Seq(Message)]
  BY ReplyType, EmitType
     DEF RecvUnknownSession, ErrorReply, MessageType, Tag, ErrorReason
<1> QED
  BY <1>1, NoSessionInv DEF RecvUnknownSession, EndpointInv, TypeOK

\* A message for a finished session changes none.
LEMMA RecvEndedInv ==
  ASSUME EndpointInv, NEW d \in Device, NEW m \in Message,
         NEW rest \in [Device -> Seq(Message)], RecvEnded(d, m, rest)
  PROVE  EndpointInv'
<1>1. LateAnswerReason(sess[d][m.sid]) \in ByeReason
  <2>1. LateAnswerReason(sess[d][m.sid])
          \in {"session.cancelled", "session.already-answered", "session.failed"}
    BY DEF LateAnswerReason
  <2> QED BY <2>1 DEF ByeReason
<1>2. up' \in [Device -> Seq(Message)]
  <2>1. <<Msg("bye", d, m.from, m.sid, LateAnswerReason(sess[d][m.sid]), 0)>> \in Seq(Message)
    BY <1>1, ReplyType DEF MessageType, Tag
  <2>2. <<>> \in Seq(Message)
    BY EmptySeq
  <2> QED BY <2>1, <2>2, EmitType DEF RecvEnded
<1> QED
  BY <1>2, NoSessionInv DEF RecvEnded, EndpointInv, TypeOK

\* The session as recv() leaves it before dispatch is as coherent as before.
LEMMA NotedFacts ==
  ASSUME EndpointInv, NEW d \in Device, NEW m \in Message
  PROVE  LET s == Noted(d, m)
             r == sess[d][m.sid]
         IN  /\ m.sid \in Sid /\ s \in SessionRec /\ Coherent(s)
             /\ s.state = r.state /\ s.role = r.role
<1> DEFINE r == sess[d][m.sid]
           s == Noted(d, m)
           p == [r EXCEPT !.postAnswerSeen = TRUE]
<1>1. m.sid \in Sid /\ r \in SessionRec /\ Coherent(r)
  BY SessionFacts DEF Message
<1>2. /\ p \in SessionRec /\ p.state = r.state /\ p.role = r.role /\ p.peer = r.peer
      /\ p.inviteTo = r.inviteTo /\ p.cancelled = r.cancelled /\ p.wasActive = r.wasActive
      /\ p.outstanding = r.outstanding /\ p.queueCount = r.queueCount
  BY <1>1 DEF SessionRec
<1>3. Coherent(p)
  BY <1>1, <1>2 DEF Coherent
<1>4. s = p \/ s = r
  BY DEF Noted
<1> QED
  BY <1>1, <1>2, <1>3, <1>4

\* A message that is refused or only absorbed.
LEMMA InvalidStateInv ==
  ASSUME EndpointInv, NEW d \in Device, NEW m \in Message,
         NEW s \in SessionRec, Coherent(s), s.state = sess[d][m.sid].state,
         NEW rest \in [Device -> Seq(Message)],
         InvalidState(d, m, s, rest) \/ Absorb(d, m, s, rest)
  PROVE  EndpointInv'
<1>1. up' \in [Device -> Seq(Message)]
  <2>1. <<ErrorReply(d, m, "session.invalid-state")>> \in Seq(Message)
    BY ReplyType DEF ErrorReply, MessageType, Tag, ErrorReason
  <2> QED BY <2>1, EmitType DEF InvalidState, Absorb
<1>2. m.sid \in Sid /\ lapsed' \subseteq Sid
  BY DEF InvalidState, Absorb, EndpointInv, TypeOK, Message
<1> QED
  BY <1>1, <1>2, RecordInv DEF InvalidState, Absorb

\* An attempt that goes on has one of T-Ring and T-Queue left running.
LEMMA ProceedInv ==
  ASSUME EndpointInv, NEW d \in Device, NEW i \in Sid,
         NEW s \in SessionRec, Coherent(s), s.state = sess[d][i].state, s.state \in Inviting,
         NEW q \in 0 .. MaxRequeues, NEW U \in {{"T-Ring"}, {"T-Queue"}}, NEW ts,
         NEW rest \in [Device -> Seq(Message)],
         Proceed(d, i, s, q, ts, rest), TimersBecome(d, i, U)
  PROVE  EndpointInv'
<1> DEFINE t == [s EXCEPT !.state = "PROCEEDING", !.queueCount = q]
<1>1. TypeOK /\ i \notin media[d]
  BY SessionFacts DEF Inviting
<1>2. q \in 0 .. MaxRequeues + 1 /\ q <= MaxRequeues
  BY DEF MaxRequeues
<1>3. /\ t \in SessionRec /\ t.state = "PROCEEDING" /\ t.queueCount = q /\ t.role = s.role
      /\ t.peer = s.peer /\ t.inviteTo = s.inviteTo /\ t.cancelled = s.cancelled
      /\ t.wasActive = s.wasActive /\ t.outstanding = s.outstanding
  BY <1>2 DEF SessionRec
<1>4. Session(d, i, t) /\ up' = rest /\ UNCHANGED <<media, lapsed>>
  BY DEF Proceed
<1> HIDE DEF t
<1>5. Coherent(t)
  BY <1>2, <1>3 DEF Coherent, Inviting
<1>6. OneSession(d, i, t, U, i \in media[d])
  BY <1>1, <1>4, MediaSteps DEF OneSession
<1>7. Fits(t, U, i \in media[d])
  BY <1>1, <1>3, <1>5 DEF Fits, TimersAllowed
<1>8. U \subseteq TimerName /\ lapsed' \subseteq Sid /\ up' \in [Device -> Seq(Message)]
  BY <1>1, <1>4 DEF TimerName, TypeOK
<1> QED
  BY <1>6, <1>7, <1>8, OneSessionInv

\* progress: exactly one attempt timer is left running, whichever it was.
LEMMA RecvProgressInv ==
  ASSUME EndpointInv, NEW d \in Device, NEW m \in Message,
         NEW s \in SessionRec, Coherent(s), s.state = sess[d][m.sid].state,
         NEW rest \in [Device -> Seq(Message)], RecvProgress(d, m, s, rest)
  PROVE  EndpointInv'
<1>1. CASE s.state \notin Inviting
  BY <1>1, InvalidStateInv DEF RecvProgress
<1>2. CASE s.state \in Inviting
  <2> DEFINE i == m.sid
             T == TimersOf(d, i)
  <2>1. TypeOK /\ i \in Sid /\ d \in Party
    BY SessionFacts DEF Message
  <2>2. T \in {{"T-Establish"}, {"T-Ring"}, {"T-Queue"}}
    BY <1>2, <2>1, SessionFacts DEF Inviting, TimersAllowed
  <2>3. s.wasActive = FALSE /\ s.inviteTo \in Party /\ s.queueCount <= MaxRequeues
    BY <1>2 DEF Coherent, Inviting
  <2>4. s.queueCount \in 0 .. MaxRequeues
    BY <2>3 DEF SessionRec, MaxRequeues
  <2>5. \A names \in SUBSET TimerName, name \in TimerName :
          SetTimers(d, Without(d, i, names) \cup {<<i, name>>})
            => TimersBecome(d, i, (T \ names) \cup {name})
    BY <2>1, TimerSteps
  <2>6. ASSUME RecvRinging(d, i, s, rest) PROVE EndpointInv'
    <3>1. TimersBecome(d, i, (T \ {"T-Establish", "T-Queue"}) \cup {"T-Ring"})
      BY <2>5, <2>6 DEF RecvRinging, Proceed, TimerName
    <3>2. (T \ {"T-Establish", "T-Queue"}) \cup {"T-Ring"} = {"T-Ring"}
      BY <2>2
    <3>3. TimersBecome(d, i, {"T-Ring"})
      BY <3>1, <3>2
    <3>4. 0 \in 0 .. MaxRequeues
      BY DEF MaxRequeues
    <3> QED BY <1>2, <2>1, <2>6, <3>3, <3>4, ProceedInv DEF RecvRinging
  <2>7. ASSUME RecvQueued(d, i, s, rest) PROVE EndpointInv'
    <3>1. TimersBecome(d, i, (T \ {"T-Establish", "T-Ring"}) \cup {"T-Queue"})
      BY <2>5, <2>7 DEF RecvQueued, Proceed, TimerName
    <3>2. (T \ {"T-Establish", "T-Ring"}) \cup {"T-Queue"} = {"T-Queue"}
      BY <2>2
    <3>3. TimersBecome(d, i, {"T-Queue"})
      BY <3>1, <3>2
    <3>4. s.queueCount + 1 \in 0 .. MaxRequeues
      BY <2>4, <2>7 DEF RecvQueued, MaxRequeues
    <3> QED BY <1>2, <2>1, <2>7, <3>3, <3>4, ProceedInv DEF RecvQueued
  <2>8. ASSUME RecvQueuedTooOften(d, i, s, rest) PROVE EndpointInv'
    <3> DEFINE t == [s EXCEPT !.cancelled = TRUE, !.queueCount = s.queueCount + 1]
    <3>1. s.queueCount + 1 \in 0 .. MaxRequeues + 1
      BY <2>4 DEF MaxRequeues
    <3>2. t \in SessionRec /\ t.wasActive = s.wasActive
      BY <3>1 DEF SessionRec
    <3>3. up' \in [Device -> Seq(Message)] /\ lapsed' \subseteq Sid
      <4>1. <<Msg("cancel", d, s.inviteTo, i, "session.timeout", 0)>> \in Seq(Message)
        BY <2>1, <2>3, MsgType DEF MessageType, Tag, CancelReason
      <4> QED BY <2>1, <2>8, <4>1, EmitType DEF RecvQueuedTooOften, TypeOK
    <3>4. sess[d][i].state # "ACTIVE"
      BY <1>2 DEF Inviting
    <3>5. End(d, i, t)
      BY <2>8 DEF RecvQueuedTooOften
    <3> HIDE DEF t
    <3> QED BY <2>1, <2>3, <3>2, <3>3, <3>4, <3>5, EndInv
  <2>9. ASSUME RecvTrying(d, i, s, rest) PROVE EndpointInv'
    <3>1. /\ "T-Ring" \in T <=> Running(d, i, "T-Ring")
          /\ "T-Queue" \in T <=> Running(d, i, "T-Queue")
      BY DEF TimersOf, TimerName
    <3>2. CASE T = {"T-Establish"}
      <4>1. SetTimers(d, Without(d, i, {"T-Establish"}) \cup {<<i, "T-Ring">>})
        BY <2>9, <3>1, <3>2 DEF RecvTrying, Proceed
      <4>2. TimersBecome(d, i, (T \ {"T-Establish"}) \cup {"T-Ring"})
        BY <2>5, <4>1 DEF TimerName
      <4>3. (T \ {"T-Establish"}) \cup {"T-Ring"} = {"T-Ring"}
        BY <3>2
      <4>4. TimersBecome(d, i, {"T-Ring"})
        BY <4>2, <4>3
      <4> QED BY <1>2, <2>1, <2>4, <2>9, <4>4, ProceedInv DEF RecvTrying
    <3>3. CASE T \in {{"T-Ring"}, {"T-Queue"}}
      <4>1. Without(d, i, {"T-Establish"}) \cup {} = Without(d, i, {"T-Establish"})
        OBVIOUS
      <4>2. SetTimers(d, Without(d, i, {"T-Establish"}) \cup {})
        BY <2>9, <3>1, <3>3 DEF RecvTrying, Proceed
      <4>3. TimersBecome(d, i, T \ {"T-Establish"})
        BY <2>1, <4>1, <4>2, TimerSteps DEF TimerName
      <4>4. T \ {"T-Establish"} = T
        BY <3>3
      <4>5. TimersBecome(d, i, T)
        BY <4>3, <4>4
      <4> HIDE DEF T
      <4> QED BY <1>2, <2>1, <2>4, <2>9, <3>3, <4>5, ProceedInv DEF RecvTrying
    <3> QED BY <2>2, <3>2, <3>3
  <2> QED
    BY <1>2, <2>6, <2>7, <2>8, <2>9 DEF RecvProgress
<1> QED
  BY <1>1, <1>2

\* The reply to an update of this device.
LEMMA RecvUpdateReplyInv ==
  ASSUME EndpointInv, NEW d \in Device, NEW m \in Message,
         NEW s \in SessionRec, Coherent(s), s.state = sess[d][m.sid].state, s.state = "ACTIVE",
         NEW rest \in [Device -> Seq(Message)], RecvUpdateReply(d, m, s, rest)
  PROVE  EndpointInv'
<1> DEFINE t == [s EXCEPT !.outstanding = NoUpdate]
<1>1. t \in SessionRec /\ Coherent(t) /\ t.state = "ACTIVE"
  BY OutstandingFits
<1>2. Absorb(d, m, t, rest) \/ Absorb(d, m, s, rest)
  BY DEF RecvUpdateReply
<1> HIDE DEF t
<1> QED
  BY <1>1, <1>2, InvalidStateInv

\* The first answer: the initiator's way into ACTIVE.
LEMMA RecvFirstAnswerInv ==
  ASSUME EndpointInv, NEW d \in Device, NEW m \in Message,
         NEW s \in SessionRec, Coherent(s), s.state = sess[d][m.sid].state, s.state \in Inviting,
         NEW rest \in [Device -> Seq(Message)], RecvFirstAnswer(d, m, s, rest)
  PROVE  EndpointInv'
<1> DEFINE i == m.sid
           t == [s EXCEPT !.state = "ACTIVE", !.wasActive = TRUE,
                          !.answered = m.from, !.peer = m.from]
<1>1. TypeOK /\ i \in Sid /\ d \in Party /\ m.from \in Party
  BY SessionFacts DEF Message
<1>2. /\ s.inviteTo \in Party /\ s.cancelled = FALSE /\ s.queueCount <= MaxRequeues
      /\ s.outstanding = NoUpdate
  BY DEF Coherent, Inviting
<1>3. /\ t \in SessionRec /\ t.state = "ACTIVE" /\ t.peer = m.from /\ t.inviteTo = s.inviteTo
      /\ t.cancelled = s.cancelled /\ t.queueCount = s.queueCount
      /\ t.outstanding = s.outstanding
  BY <1>1 DEF SessionRec
<1>4. Session(d, i, t) /\ StopAll(d, i) /\ StartMedia(d, i)
  BY DEF RecvFirstAnswer
<1> HIDE DEF t
<1>5. Coherent(t)
  BY <1>1, <1>2, <1>3 DEF Coherent, Inviting
<1>6. OneSession(d, i, t, {}, TRUE)
  BY <1>1, <1>4, TimerSteps, MediaSteps DEF OneSession
<1>7. Fits(t, {}, TRUE)
  BY <1>3, <1>5 DEF Fits, TimersAllowed
<1>8. up' \in [Device -> Seq(Message)] /\ lapsed' \subseteq Sid
  <2>1. <<Msg("cancel", d, s.inviteTo, i, "session.answered-elsewhere", 0)>> \in Seq(Message)
    BY <1>1, <1>2, MsgType DEF MessageType, Tag, CancelReason
  <2>2. <<>> \in Seq(Message)
    BY EmptySeq
  <2> QED BY <1>1, <2>1, <2>2, EmitType DEF RecvFirstAnswer, TypeOK
<1> QED
  BY <1>1, <1>6, <1>7, <1>8, OneSessionInv

\* A later answer changes no session.
LEMMA RecvLaterAnswerInv ==
  ASSUME EndpointInv, NEW d \in Device, NEW m \in Message,
         NEW s \in SessionRec, Coherent(s), s.state = sess[d][m.sid].state,
         NEW rest \in [Device -> Seq(Message)], RecvLaterAnswer(d, m, s, rest)
  PROVE  EndpointInv'
<1>1. up' \in [Device -> Seq(Message)]
  BY ReplyType, EmitType DEF RecvLaterAnswer, MessageType, Tag, ByeReason
<1>2. m.sid \in Sid /\ lapsed' \subseteq Sid
  BY DEF RecvLaterAnswer, EndpointInv, TypeOK, Message
<1> QED
  BY <1>1, <1>2, RecordInv DEF RecvLaterAnswer

\* recv_answer preserves the invariant.
LEMMA RecvAnswerInv ==
  ASSUME EndpointInv, NEW d \in Device, NEW m \in Message,
         NEW s \in SessionRec, Coherent(s), s.state = sess[d][m.sid].state,
         NEW rest \in [Device -> Seq(Message)], RecvAnswer(d, m, s, rest)
  PROVE  EndpointInv'
<1>1. \/ s.state \in Inviting /\ RecvFirstAnswer(d, m, s, rest)
      \/ s.state = "ACTIVE" /\ RecvUpdateReply(d, m, s, rest)
      \/ RecvLaterAnswer(d, m, s, rest)
      \/ InvalidState(d, m, s, rest)
  BY DEF RecvAnswer
<1> QED
  BY <1>1, RecvFirstAnswerInv, RecvUpdateReplyInv, RecvLaterAnswerInv, InvalidStateInv

\* A session that ends because of a message and sends nothing.
LEMMA EndedByPeerInv ==
  ASSUME EndpointInv, NEW d \in Device, NEW m \in Message,
         NEW s \in SessionRec, Coherent(s), s.state = sess[d][m.sid].state,
         NEW rest \in [Device -> Seq(Message)], up' = rest, UNCHANGED lapsed,
         \/ s.state # "ACTIVE" /\ End(d, m.sid, s)
         \/ EndWithMedia(d, m.sid, s)
  PROVE  EndpointInv'
<1>1. m.sid \in Sid /\ lapsed' \subseteq Sid /\ up' \in [Device -> Seq(Message)]
  BY DEF EndpointInv, TypeOK, Message
<1>2. s.cancelled = TRUE => s.wasActive = FALSE
  BY DEF Coherent
<1> QED
  BY <1>1, <1>2, EndInv, EndWithMediaInv

\* recv_reject preserves the invariant.
LEMMA RecvRejectInv ==
  ASSUME EndpointInv, NEW d \in Device, NEW m \in Message,
         NEW s \in SessionRec, Coherent(s), s.state = sess[d][m.sid].state,
         NEW rest \in [Device -> Seq(Message)], RecvReject(d, m, s, rest)
  PROVE  EndpointInv'
<1>1. \/ s.state # "ACTIVE" /\ End(d, m.sid, s) /\ up' = rest /\ UNCHANGED lapsed
      \/ s.state = "ACTIVE" /\ RecvUpdateReply(d, m, s, rest)
      \/ InvalidState(d, m, s, rest)
  BY DEF RecvReject, Inviting
<1> QED
  BY <1>1, EndedByPeerInv, RecvUpdateReplyInv, InvalidStateInv

\* recv_cancel preserves the invariant, also when it crosses an answer.
LEMMA RecvCancelInv ==
  ASSUME EndpointInv, NEW d \in Device, NEW m \in Message,
         NEW s \in SessionRec, Coherent(s), s.state = sess[d][m.sid].state,
         NEW rest \in [Device -> Seq(Message)], RecvCancel(d, m, s, rest)
  PROVE  EndpointInv'
<1>1. \/ s.state # "ACTIVE" /\ End(d, m.sid, s) /\ up' = rest /\ UNCHANGED lapsed
      \/ EndWithMedia(d, m.sid, s) /\ up' = rest /\ UNCHANGED lapsed
      \/ InvalidState(d, m, s, rest)
  BY DEF RecvCancel
<1> QED
  BY <1>1, EndedByPeerInv, InvalidStateInv

\* recv_update preserves the invariant in every case of update glare.
LEMMA RecvUpdateInv ==
  ASSUME EndpointInv, NEW d \in Device, NEW m \in Message, m.upd \in UpdateId,
         NEW s \in SessionRec, Coherent(s), s.state = sess[d][m.sid].state,
         NEW rest \in [Device -> Seq(Message)], RecvUpdate(d, m, s, rest)
  PROVE  EndpointInv'
<1>1. CASE s.state # "ACTIVE"
  BY <1>1, InvalidStateInv DEF RecvUpdate
<1>2. CASE s.state = "ACTIVE"
  <2> DEFINE taken == [s EXCEPT !.outstanding = Inbound(m.upd)]
             voided == [s EXCEPT !.outstanding = NoUpdate]
  <2>1. m.sid \in Sid /\ lapsed \subseteq Sid
    BY DEF Message, EndpointInv, TypeOK
  <2>2. Inbound(m.upd) \in [id : UpdateId, dir : {"outbound", "inbound"}]
    BY DEF Inbound
  <2>3. taken \in SessionRec /\ Coherent(taken) /\ taken.state = "ACTIVE"
    BY <1>2, <2>2, OutstandingFits
  <2>4. voided \in SessionRec /\ Coherent(voided) /\ voided.state = "ACTIVE"
    BY <1>2, OutstandingFits
  <2>5. s.outstanding = NoUpdate \/ s.outstanding.dir = "outbound" \/ s.outstanding.dir = "inbound"
    BY DEF SessionRec
  <2>6. NoUpdate.dir = "none"
    BY DEF NoUpdate
  <2>7. \/ Absorb(d, m, taken, rest)
        \/ /\ Session(d, m.sid, s)
           /\ Emit(d, rest, <<Msg("reject", d, m.from, m.sid, "session.glare", m.upd)>>)
           /\ UNCHANGED <<timers, media, lapsed>>
        \/ /\ Session(d, m.sid, voided)
           /\ Emit(d, rest, <<ErrorReply(d, m, "session.update-pending")>>)
           /\ UNCHANGED <<timers, media, lapsed>>
    BY <1>2, <2>5, <2>6 DEF RecvUpdate, Renegotiating
  <2>8. /\ <<Msg("reject", d, m.from, m.sid, "session.glare", m.upd)>> \in Seq(Message)
        /\ <<ErrorReply(d, m, "session.update-pending")>> \in Seq(Message)
    BY ReplyType DEF ErrorReply, MessageType, Tag, RejectReason, ErrorReason
  <2> HIDE DEF taken, voided
  <2>9. CASE Absorb(d, m, taken, rest)
    BY <1>2, <2>3, <2>9, InvalidStateInv
  <2>10. CASE /\ Session(d, m.sid, s)
              /\ Emit(d, rest, <<Msg("reject", d, m.from, m.sid, "session.glare", m.upd)>>)
              /\ UNCHANGED <<timers, media, lapsed>>
    <3>1. up' \in [Device -> Seq(Message)] /\ lapsed' \subseteq Sid
      BY <2>1, <2>8, <2>10, EmitType
    <3> QED BY <2>1, <2>10, <3>1, RecordInv
  <2>11. CASE /\ Session(d, m.sid, voided)
              /\ Emit(d, rest, <<ErrorReply(d, m, "session.update-pending")>>)
              /\ UNCHANGED <<timers, media, lapsed>>
    <3>1. up' \in [Device -> Seq(Message)] /\ lapsed' \subseteq Sid
      BY <2>1, <2>8, <2>11, EmitType
    <3> QED BY <1>2, <2>1, <2>4, <2>11, <3>1, RecordInv
  <2> QED BY <2>7, <2>9, <2>10, <2>11
<1> QED
  BY <1>1, <1>2

\* Any message for a live session preserves the invariant.
LEMMA RecvLiveInv ==
  ASSUME EndpointInv, NEW d \in Device, NEW m \in Message, m.type = "update" => m.upd \in UpdateId,
         NEW rest \in [Device -> Seq(Message)], RecvLive(d, m, rest)
  PROVE  EndpointInv'
<1> DEFINE s == Noted(d, m)
<1>1. s \in SessionRec /\ Coherent(s) /\ s.state = sess[d][m.sid].state
  BY NotedFacts
<1>2. \/ RecvProgress(d, m, s, rest) \/ RecvAnswer(d, m, s, rest) \/ RecvReject(d, m, s, rest)
      \/ RecvCancel(d, m, s, rest) \/ RecvInfo(d, m, s, rest) \/ RecvBye(d, m, s, rest)
      \/ m.upd \in UpdateId /\ RecvUpdate(d, m, s, rest)
  BY DEF RecvLive
<1> HIDE DEF s
<1>3. ASSUME RecvInfo(d, m, s, rest) \/ RecvBye(d, m, s, rest) PROVE EndpointInv'
  <2>1. \/ EndWithMedia(d, m.sid, s) /\ up' = rest /\ UNCHANGED lapsed
        \/ InvalidState(d, m, s, rest) \/ Absorb(d, m, s, rest)
    BY <1>3 DEF RecvInfo, RecvBye
  <2> QED BY <1>1, <2>1, EndedByPeerInv, InvalidStateInv
<1> QED
  BY <1>1, <1>2, <1>3, RecvProgressInv, RecvAnswerInv, RecvRejectInv, RecvCancelInv, RecvUpdateInv

\* recv of any message, under a fresh id if it is an invite.
LEMMA RecvInv ==
  ASSUME EndpointInv, NEW d \in Device, NEW m \in Message,
         m.type = "invite" => sess[d][m.sid].state = "NONE",
         m.type = "update" => m.upd \in UpdateId,
         NEW rest \in [Device -> Seq(Message)], Recv(d, m, rest)
  PROVE  EndpointInv'
<1>1. \/ m.type = "invite" /\ RecvInvite(d, m, rest)
      \/ RecvError(d, m, rest) \/ RecvUnknownSession(d, m, rest) \/ RecvEnded(d, m, rest)
      \/ RecvLive(d, m, rest)
  BY DEF Recv, RecvInvite
<1> QED
  BY <1>1, RecvInviteInv, RecvErrorInv, RecvUnknownSessionInv, RecvEndedInv, RecvLiveInv

\* Whatever arrives, under a fresh id if it is an invite.
LEMMA IncomingInv ==
  ASSUME EndpointInv, NEW d \in Device, Incoming(d) PROVE EndpointInv'
<1>1. PICK type \in MessageType, from \in Party \ {d}, i \in Sid :
        \E tag \in TagsOf(type), u \in UpdatesOf(type) :
           Fresh(d, type, i) /\ Recv(d, Msg(type, from, d, i, tag, u), Quiet)
  BY DEF Incoming
<1>2. PICK tag \in TagsOf(type), u \in UpdatesOf(type) :
        Fresh(d, type, i) /\ Recv(d, Msg(type, from, d, i, tag, u), Quiet)
  BY <1>1
<1> DEFINE m == Msg(type, from, d, i, tag, u)
<1>3. tag \in Tag
  BY DEF TagsOf, Tag
<1>4. u \in UpdateId \cup {0} /\ (type = "update" => u \in UpdateId)
  BY DEF UpdatesOf
<1>5. m \in Message /\ m.type = type /\ m.sid = i /\ m.upd = u
  BY <1>3, <1>4, PartyAssumption DEF Msg, Message
<1>6. Quiet \in [Device -> Seq(Message)]
  BY EmptySeq DEF Quiet
<1>7. Recv(d, m, Quiet) /\ (m.type = "invite" => sess[d][m.sid].state = "NONE")
  BY <1>2, <1>5 DEF Fresh
<1> HIDE DEF m
<1> QED
  BY <1>4, <1>5, <1>6, <1>7, RecvInv

-----------------------------------------------------------------------------
(* The specification.                                                      *)

\* The invariant holds initially.
LEMMA EndpointInitInv == Init => EndpointInv
<1> SUFFICES ASSUME Init PROVE EndpointInv
  OBVIOUS
<1>1. TypeOK
  BY BlankFacts, EmptySeq DEF Init, TypeOK
<1>2. ASSUME NEW d \in Device, NEW i \in Sid
      PROVE  Fits(sess[d][i], TimersOf(d, i), i \in media[d])
  <2>1. sess[d][i] = Blank /\ TimersOf(d, i) = {} /\ i \notin media[d]
    BY DEF Init, TimersOf, Running
  <2>2. Coherent(Blank)
    BY BlankFacts DEF Coherent, Inviting, MaxRequeues
  <2> QED BY <2>1, <2>2, BlankFacts DEF Fits, TimersAllowed
<1> QED BY <1>1, <1>2 DEF EndpointInv

\* Every step preserves the invariant.
LEMMA EndpointNextInv == ASSUME EndpointInv, [Next]_vars PROVE EndpointInv'
<1>1. Quiet \in [Device -> Seq(Message)]
  BY EmptySeq DEF Quiet
<1>2. ASSUME Clock PROVE EndpointInv'
  BY <1>1, <1>2, LapseInv, FireInv DEF Clock
<1>3. ASSUME UNCHANGED vars PROVE EndpointInv'
  BY <1>3, NoSessionInv DEF vars, EndpointInv, TypeOK
<1> QED
  BY <1>2, <1>3, LocalInv, IncomingInv DEF Next

\* The inductive invariant holds in every reachable state.
THEOREM EndpointInvariant == Spec => []EndpointInv
  BY EndpointInitInv, EndpointNextInv, PTL DEF Spec

\* Every variable keeps its shape; in particular every message a device sends
\* is addressed to a party, never to nobody.
THEOREM EndpointTypes == Spec => []TypeOK
<1>1. EndpointInv => TypeOK
  BY DEF EndpointInv
<1> QED BY <1>1, EndpointInvariant, PTL

\* Whatever arrives, an attempt is bounded by exactly one timer and no timer
\* outlives its state.
THEOREM TimersAlwaysMatch == Spec => []TimersMatchState
<1>1. EndpointInv => TimersMatchState
  BY DEF EndpointInv, Fits, TimersMatchState
<1> QED BY <1>1, EndpointInvariant, PTL

\* Media runs exactly while a session is ACTIVE.
THEOREM MediaFollowsState == Spec => []MediaIffActive
<1>1. EndpointInv => MediaIffActive
  BY DEF EndpointInv, Fits, MediaIffActive
<1> QED BY <1>1, EndpointInvariant, PTL

\* A session its initiator cancelled is over and never was active.
THEOREM CancelWins == Spec => []CancelIsAuthoritative
<1>1. EndpointInv => CancelIsAuthoritative
  <2> SUFFICES ASSUME EndpointInv, NEW d \in Device, NEW i \in Sid, sess[d][i].cancelled
               PROVE  sess[d][i].state = "ENDED" /\ ~sess[d][i].wasActive
    BY DEF CancelIsAuthoritative
  <2>1. sess[d][i] \in SessionRec /\ Coherent(sess[d][i])
    BY DEF EndpointInv, Fits
  <2>2. sess[d][i].cancelled \in BOOLEAN /\ sess[d][i].wasActive \in BOOLEAN
    BY <2>1, Zenon DEF SessionRec
  <2> QED BY <2>1, <2>2 DEF Coherent
<1> QED BY <1>1, EndpointInvariant, PTL

\* An update is pending only inside an ACTIVE session.
THEOREM UpdatesNeedActive == Spec => []UpdateOnlyWhileActive
<1>1. EndpointInv => UpdateOnlyWhileActive
  BY DEF EndpointInv, Fits, Coherent, UpdateOnlyWhileActive
<1> QED BY <1>1, EndpointInvariant, PTL
-----------------------------------------------------------------------------
(* No step takes an established session to another party, or revives it.   *)

\* t continues s: a session that is active or over keeps its parties, and one
\* that is over stays over.
Continues(s, t) ==
  s.state \in {"ACTIVE", "ENDED"} =>
    /\ t.peer = s.peer
    /\ t.answered = s.answered
    /\ s.state = "ENDED" => t.state = "ENDED"

\* The step continues every session.
AllContinue == \A e \in Device, k \in Sid : Continues(sess[e][k], sess'[e][k])

\* The step leaves session i of d as some record that continues it.
OneContinues(d, i) == \E t \in SessionRec : Session(d, i, t) /\ Continues(sess[d][i], t)

\* A step that continues one session and touches no other, or touches none.
LEMMA OthersContinue ==
  ASSUME TypeOK, NEW d \in Device, NEW i \in Sid, OneContinues(d, i) \/ UNCHANGED sess
  PROVE  AllContinue
<1>1. CASE UNCHANGED sess
  BY <1>1 DEF AllContinue, Continues
<1>2. CASE OneContinues(d, i)
  <2>1. PICK t \in SessionRec : Session(d, i, t) /\ Continues(sess[d][i], t)
    BY <1>2 DEF OneContinues
  <2>2. ASSUME NEW e \in Device, NEW k \in Sid PROVE Continues(sess[e][k], sess'[e][k])
    <3>1. sess'[e][k] = IF e = d /\ k = i THEN t ELSE sess[e][k]
      BY <2>1 DEF TypeOK, Session
    <3> QED BY <2>1, <3>1 DEF Continues
  <2> QED BY <2>2 DEF AllContinue
<1> QED BY <1>1, <1>2

\* A session that is neither active nor over may become anything.
LEMMA EarlyContinues ==
  ASSUME NEW d \in Device, NEW i \in Sid, NEW t \in SessionRec, Session(d, i, t),
         sess[d][i].state \notin {"ACTIVE", "ENDED"}
  PROVE  OneContinues(d, i)
  BY DEF OneContinues, Continues

\* What end() and the changes of a pending update leave of a record.
LEMMA SameParties ==
  ASSUME NEW s \in SessionRec
  PROVE  /\ Finished(s) \in SessionRec /\ Finished(s).state = "ENDED"
         /\ Finished(s).peer = s.peer /\ Finished(s).answered = s.answered
         /\ \A o \in {NoUpdate} \cup [id : UpdateId, dir : {"outbound", "inbound"}] :
              LET t == [s EXCEPT !.outstanding = o]
              IN  t \in SessionRec /\ t.state = s.state /\ t.peer = s.peer /\ t.answered = s.answered
  BY DEF Finished, SessionRec

\* end() of a session that is not over yet.
LEMMA EndContinues ==
  ASSUME NEW d \in Device, NEW i \in Sid, NEW s \in SessionRec, Session(d, i, Finished(s)),
         s.peer = sess[d][i].peer, s.answered = sess[d][i].answered
  PROVE  OneContinues(d, i)
  BY SameParties DEF OneContinues, Continues

\* A step of the device's user or policy, or of the clock.
LEMMA LocalContinues ==
  ASSUME EndpointInv, NEW d \in Device, Local(d)
  PROVE  AllContinue
<1>1. PICK i \in Sid :
     \/ \E to \in Party \ {d, IdentityOf[d]} : PlaceCall(d, i, to, Quiet)
     \/ Cancel(d, i, Quiet)
     \/ Hangup(d, i, Quiet)
     \/ Alert(d, i, Quiet)
     \/ AlertTooLate(d, i, Quiet)
     \/ AutoReject(d, i, Quiet)
     \/ Accept(d, i, Quiet)
     \/ Decline(d, i, Quiet)
     \/ \E u \in UpdateId : Update(d, i, u, Quiet)
     \/ \E u \in UpdateId : AnswerUpdate(d, i, u, Quiet) \/ RejectUpdate(d, i, u, Quiet)
     \/ Info(d, i, Quiet)
  BY DEF Local
<1> DEFINE r == sess[d][i]
<1>2. TypeOK /\ d \in Party /\ r \in SessionRec
  BY SessionFacts
<1>3. ASSUME NEW to \in Party, PlaceCall(d, i, to, Quiet) PROVE OneContinues(d, i)
  <2>1. NewSession("initiator", "INVITING", to, to) \in SessionRec
    BY NewSessionFacts
  <2> QED BY <1>3, <2>1, EarlyContinues DEF PlaceCall
<1>4. ASSUME Cancel(d, i, Quiet) PROVE OneContinues(d, i)
  <2>1. PICK s \in SessionRec : s = [r EXCEPT !.cancelled = TRUE]
    BY <1>2 DEF SessionRec
  <2>2. s.peer = r.peer /\ s.answered = r.answered
    BY <1>2, <2>1 DEF SessionRec
  <2>3. Session(d, i, Finished(s))
    BY <1>4, <2>1 DEF Cancel, Withdraw, End
  <2> QED BY <2>2, <2>3, EndContinues
<1>5. ASSUME \/ Hangup(d, i, Quiet) \/ AlertTooLate(d, i, Quiet) \/ AutoReject(d, i, Quiet)
             \/ Decline(d, i, Quiet)
      PROVE  OneContinues(d, i)
  <2>1. Session(d, i, Finished(r))
    BY <1>5 DEF Hangup, EndWithMedia, AlertTooLate, AutoReject, Decline, TurnDown, End
  <2> QED BY <1>2, <2>1, EndContinues
<1>6. ASSUME Alert(d, i, Quiet) PROVE OneContinues(d, i)
  <2>1. [r EXCEPT !.state = "ALERTING"] \in SessionRec
    BY <1>2 DEF SessionRec
  <2> QED BY <1>6, <2>1, EarlyContinues DEF Alert
<1>7. ASSUME Accept(d, i, Quiet) PROVE OneContinues(d, i)
  <2>1. [r EXCEPT !.state = "ACTIVE", !.wasActive = TRUE] \in SessionRec
    BY <1>2 DEF SessionRec
  <2> QED BY <1>7, <2>1, EarlyContinues DEF Accept
<1>8. ASSUME NEW u \in UpdateId, \/ Update(d, i, u, Quiet)
                                 \/ AnswerUpdate(d, i, u, Quiet) \/ RejectUpdate(d, i, u, Quiet)
      PROVE  OneContinues(d, i)
  <2>1. PICK o \in {NoUpdate} \cup [id : UpdateId, dir : {"outbound", "inbound"}] :
          Session(d, i, [r EXCEPT !.outstanding = o]) /\ r.state = "ACTIVE"
    BY <1>8 DEF Update, AnswerUpdate, RejectUpdate, SettleUpdate, Outbound
  <2>2. PICK t : t = [r EXCEPT !.outstanding = o]
    OBVIOUS
  <2>3. t \in SessionRec /\ t.state = r.state /\ t.peer = r.peer /\ t.answered = r.answered
    BY <1>2, <2>2 DEF SessionRec
  <2>4. Session(d, i, t)
    BY <2>1, <2>2
  <2> QED BY <2>1, <2>3, <2>4 DEF OneContinues, Continues
<1>9. ASSUME Info(d, i, Quiet) PROVE UNCHANGED sess
  BY <1>9 DEF Info
<1> QED
  BY <1>1, <1>2, <1>3, <1>4, <1>5, <1>6, <1>7, <1>8, <1>9, OthersContinue

\* A timer that expires ends a session that has not been active.
LEMMA ClockContinues ==
  ASSUME EndpointInv, Clock
  PROVE  AllContinue
<1>1. CASE \E i \in Sid : Lapse(i, Quiet)
  BY <1>1 DEF Lapse, AllContinue, Continues
<1>2. ASSUME NEW d \in Device, NEW i \in Sid, NEW name \in TimerName, Fire(d, i, name, Quiet)
      PROVE  AllContinue
  <2>1. TypeOK /\ sess[d][i] \in SessionRec
    BY SessionFacts
  <2>2. PICK s \in SessionRec : s = [sess[d][i] EXCEPT !.cancelled = TRUE]
    BY <2>1 DEF SessionRec
  <2>3. s.peer = sess[d][i].peer /\ s.answered = sess[d][i].answered
    BY <2>1, <2>2 DEF SessionRec
  <2>4. Session(d, i, Finished(s)) \/ Session(d, i, Finished(sess[d][i])) \/ UNCHANGED sess
    BY <1>2, <2>2 DEF Fire, Withdraw, TurnDown, End
  <2> QED BY <2>1, <2>3, <2>4, EndContinues, OthersContinue
<1> QED BY <1>1, <1>2 DEF Clock

\* An invite under a fresh id, whatever it meets: the attempts it defeats have
\* not been active.
LEMMA InviteContinues ==
  ASSUME EndpointInv, NEW d \in Device, NEW m \in Message, sess[d][m.sid].state = "NONE",
         NEW rest, RecvInvite(d, m, rest)
  PROVE  AllContinue
<1>1. TypeOK /\ m.sid \in Sid /\ m.from \in Party /\ m.to \in Party
  BY DEF EndpointInv, Message
<1>2. m.sid \notin Rivals(d, m)
  BY DEF Rivals, Inviting
<1>3. RefusedInvite(m) \in SessionRec
  BY <1>1, BlankFacts DEF RefusedInvite, SessionRec
<1>4. NewSession("responder", "OFFERED", m.from, m.to) \in SessionRec
  BY <1>1, NewSessionFacts
<1>5. CASE \/ Session(d, m.sid, RefusedInvite(m)) \/ UNCHANGED sess
           \/ Session(d, m.sid, NewSession("responder", "OFFERED", m.from, m.to))
  BY <1>1, <1>3, <1>4, <1>5, EarlyContinues, OthersContinue
<1>6. CASE RecvInviteWeLose(d, m, rest)
  <2>1. PICK R \in SUBSET Sid : R = Rivals(d, m)
    BY DEF Rivals
  <2>2. PICK offered \in SessionRec : offered = NewSession("responder", "OFFERED", m.from, m.to)
    BY <1>4
  <2>3. sess' = [sess EXCEPT ![d] = [LostGlare(d, R) EXCEPT ![m.sid] = offered]]
    BY <1>6, <2>1, <2>2 DEF RecvInviteWeLose
  <2>4. ASSUME NEW e \in Device, NEW k \in Sid PROVE Continues(sess[e][k], sess'[e][k])
    <3>1. CASE e # d
      <4>1. sess'[e] = sess[e]
        BY <1>1, <2>3, <3>1 DEF TypeOK
      <4> QED BY <4>1 DEF Continues
    <3>2. CASE e = d /\ k \in R
      BY <2>1, <3>2 DEF Continues, Rivals, Inviting
    <3>3. CASE e = d /\ k = m.sid
      BY <3>3 DEF Continues
    <3>4. CASE e = d /\ k \notin R /\ k # m.sid
      <4>1. sess'[d] = [LostGlare(d, R) EXCEPT ![m.sid] = offered]
        BY <1>1, <2>3 DEF TypeOK
      <4>2. sess'[d][k] = sess[d][k]
        BY <3>4, <4>1 DEF LostGlare
      <4> QED BY <3>4, <4>2 DEF Continues
    <3> QED BY <3>1, <3>2, <3>3, <3>4
  <2> QED BY <2>4 DEF AllContinue
<1> QED
  BY <1>2, <1>5, <1>6 DEF RecvInvite, RecvInviteFirstContact, RecvInviteHeld, RecvInviteWeWin,
     RecvInviteEqual, RecvInviteOffered

\* t is what a handler may make of s, the live session as recv() leaves it.
Follows(s, t) ==
  /\ t \in SessionRec
  /\ s.state = "ACTIVE" => t.peer = s.peer /\ t.answered = s.answered

\* Any message for a live session.
LEMMA LiveContinues ==
  ASSUME EndpointInv, NEW d \in Device, NEW m \in Message, m.type = "update" => m.upd \in UpdateId,
         NEW rest, RecvLive(d, m, rest)
  PROVE  AllContinue
<1> DEFINE r == sess[d][m.sid]
<1>1. TypeOK /\ m.sid \in Sid /\ r \in SessionRec
  BY SessionFacts DEF Message
<1>2. PICK s : s = Noted(d, m)
  OBVIOUS
<1>3. s \in SessionRec /\ Coherent(s) /\ s.state = r.state
  BY <1>2, NotedFacts
<1>4. s.peer = r.peer /\ s.answered = r.answered
  BY <1>1, <1>2 DEF Noted, SessionRec
<1>5. s.state \notin {"NONE", "ENDED"}
  BY <1>2 DEF RecvLive
<1>6. ASSUME NEW t, Follows(s, t), Session(d, m.sid, t) PROVE AllContinue
  <2>1. OneContinues(d, m.sid)
    BY <1>3, <1>4, <1>5, <1>6 DEF OneContinues, Continues, Follows
  <2> QED BY <1>1, <2>1, OthersContinue
<1>7. Follows(s, s) /\ Follows(s, Finished(s))
  BY <1>3, SameParties DEF Follows
<1>8. ASSUME NEW o \in {NoUpdate} \cup [id : UpdateId, dir : {"outbound", "inbound"}]
      PROVE  Follows(s, [s EXCEPT !.outstanding = o])
  BY <1>3, SameParties DEF Follows
<1>9. ASSUME RecvProgress(d, m, s, rest) PROVE AllContinue
  <2>1. CASE s.state \notin Inviting
    <3>1. Session(d, m.sid, s)
      BY <1>9, <2>1 DEF RecvProgress, InvalidState
    <3> QED BY <1>6, <1>7, <3>1
  <2>2. CASE s.state \in Inviting
    <3>1. s.state # "ACTIVE" /\ s.queueCount \in 0 .. MaxRequeues
      BY <1>3, <2>2 DEF Inviting, SessionRec, Coherent, MaxRequeues
    <3>2. ASSUME NEW q \in 0 .. MaxRequeues + 1,
                 Session(d, m.sid, [s EXCEPT !.state = "PROCEEDING", !.queueCount = q])
          PROVE  AllContinue
      <4>1. [s EXCEPT !.state = "PROCEEDING", !.queueCount = q] \in SessionRec
        BY <1>3 DEF SessionRec
      <4> QED BY <1>6, <3>1, <3>2, <4>1 DEF Follows
    <3>3. ASSUME RecvQueuedTooOften(d, m.sid, s, rest) PROVE AllContinue
      <4>0. PICK q \in 0 .. MaxRequeues + 1 : q = s.queueCount + 1
        BY <3>1 DEF MaxRequeues
      <4>1. PICK t : t = [s EXCEPT !.cancelled = TRUE, !.queueCount = q]
        OBVIOUS
      <4>2. t \in SessionRec
        BY <1>3, <4>1 DEF SessionRec
      <4>3. Session(d, m.sid, Finished(t))
        BY <3>3, <4>0, <4>1 DEF RecvQueuedTooOften, End
      <4>4. Follows(s, Finished(t))
        BY <3>1, <4>2, SameParties DEF Follows
      <4> QED BY <1>6, <4>3, <4>4
    <3>4. \/ RecvRinging(d, m.sid, s, rest) \/ RecvQueued(d, m.sid, s, rest)
          \/ RecvTrying(d, m.sid, s, rest) \/ RecvQueuedTooOften(d, m.sid, s, rest)
      BY <1>9, <2>2 DEF RecvProgress
    <3>5. ASSUME RecvRinging(d, m.sid, s, rest) PROVE AllContinue
      <4>1. 0 \in 0 .. MaxRequeues + 1
        BY DEF MaxRequeues
      <4> QED BY <3>2, <3>5, <4>1 DEF RecvRinging, Proceed
    <3>6. ASSUME RecvQueued(d, m.sid, s, rest) PROVE AllContinue
      <4>1. s.queueCount + 1 \in 0 .. MaxRequeues + 1
        BY <3>1 DEF MaxRequeues
      <4> QED BY <3>2, <3>6, <4>1 DEF RecvQueued, Proceed
    <3>7. ASSUME RecvTrying(d, m.sid, s, rest) PROVE AllContinue
      <4>1. s.queueCount \in 0 .. MaxRequeues + 1
        BY <3>1 DEF MaxRequeues
      <4> QED BY <3>2, <3>7, <4>1 DEF RecvTrying, Proceed
    <3> QED BY <3>3, <3>4, <3>5, <3>6, <3>7
  <2> QED BY <2>1, <2>2
<1>10. ASSUME RecvUpdateReply(d, m, s, rest) PROVE AllContinue
  BY <1>6, <1>7, <1>8, <1>10 DEF RecvUpdateReply, Absorb
<1>11. ASSUME RecvAnswer(d, m, s, rest) PROVE AllContinue
  <2>1. \/ s.state \in Inviting /\ RecvFirstAnswer(d, m, s, rest)
        \/ RecvUpdateReply(d, m, s, rest)
        \/ RecvLaterAnswer(d, m, s, rest) \/ InvalidState(d, m, s, rest)
    BY <1>11 DEF RecvAnswer
  <2>2. ASSUME s.state \in Inviting, RecvFirstAnswer(d, m, s, rest) PROVE AllContinue
    <3>1. PICK t : t = [s EXCEPT !.state = "ACTIVE", !.wasActive = TRUE,
                                 !.answered = m.from, !.peer = m.from]
      OBVIOUS
    <3>2. t \in SessionRec
      BY <1>3, <3>1 DEF SessionRec, Message
    <3>3. Session(d, m.sid, t)
      BY <2>2, <3>1 DEF RecvFirstAnswer
    <3> QED BY <1>6, <2>2, <3>2, <3>3 DEF Follows, Inviting
  <2>3. RecvLaterAnswer(d, m, s, rest) \/ InvalidState(d, m, s, rest) => Session(d, m.sid, s)
    BY DEF RecvLaterAnswer, InvalidState
  <2> QED BY <1>6, <1>7, <1>10, <2>1, <2>2, <2>3
<1>12. ASSUME \/ RecvReject(d, m, s, rest) \/ RecvCancel(d, m, s, rest) \/ RecvInfo(d, m, s, rest)
              \/ RecvBye(d, m, s, rest)
       PROVE  AllContinue
  <2>1. \/ Session(d, m.sid, s) \/ Session(d, m.sid, Finished(s))
        \/ RecvUpdateReply(d, m, s, rest)
    BY <1>12 DEF RecvReject, RecvCancel, RecvInfo, RecvBye, InvalidState, Absorb, End, EndWithMedia
  <2> QED BY <1>6, <1>7, <1>10, <2>1
<1>13. ASSUME m.upd \in UpdateId, RecvUpdate(d, m, s, rest) PROVE AllContinue
  <2>1. Inbound(m.upd) \in [id : UpdateId, dir : {"outbound", "inbound"}]
    BY <1>13 DEF Inbound
  <2>2. s.outstanding = NoUpdate \/ s.outstanding.dir = "outbound" \/ s.outstanding.dir = "inbound"
    BY <1>3 DEF SessionRec
  <2>3. \/ Session(d, m.sid, s) \/ Session(d, m.sid, [s EXCEPT !.outstanding = Inbound(m.upd)])
        \/ Session(d, m.sid, [s EXCEPT !.outstanding = NoUpdate])
    BY <1>13, <2>2 DEF RecvUpdate, Renegotiating, InvalidState, Absorb, NoUpdate
  <2> QED BY <1>6, <1>7, <1>8, <2>1, <2>3
<1> QED
  BY <1>2, <1>9, <1>11, <1>12, <1>13 DEF RecvLive

\* Whatever arrives.
LEMMA IncomingContinues ==
  ASSUME EndpointInv, NEW d \in Device, Incoming(d)
  PROVE  AllContinue
<1>1. PICK type \in MessageType, from \in Party \ {d}, i \in Sid :
        \E tag \in TagsOf(type), u \in UpdatesOf(type) :
           Fresh(d, type, i) /\ Recv(d, Msg(type, from, d, i, tag, u), Quiet)
  BY DEF Incoming
<1>2. PICK tag \in TagsOf(type), u \in UpdatesOf(type) :
        Fresh(d, type, i) /\ Recv(d, Msg(type, from, d, i, tag, u), Quiet)
  BY <1>1
<1>3. tag \in Tag
  BY DEF TagsOf, Tag
<1>4. u \in UpdateId \cup {0} /\ (type = "update" => u \in UpdateId)
  BY DEF UpdatesOf
<1>5. PICK m : m = Msg(type, from, d, i, tag, u)
  OBVIOUS
<1>6. m \in Message /\ m.type = type /\ m.sid = i /\ m.upd = u
  BY <1>3, <1>4, <1>5, PartyAssumption DEF Msg, Message
<1>7. Recv(d, m, Quiet) /\ (m.type = "invite" => sess[d][m.sid].state = "NONE")
  BY <1>2, <1>5, <1>6 DEF Fresh
<1>8. TypeOK /\ sess[d][i] \in SessionRec
  BY SessionFacts
<1>9. ASSUME \/ RecvError(d, m, Quiet) \/ RecvUnknownSession(d, m, Quiet) \/ RecvEnded(d, m, Quiet)
      PROVE  AllContinue
  <2>1. UNCHANGED sess \/ Session(d, i, Finished(sess[d][i]))
    BY <1>6, <1>9 DEF RecvError, RecvUnknownSession, RecvEnded, End
  <2> QED BY <1>8, <2>1, EndContinues, OthersContinue
<1>10. \/ m.type = "invite" /\ RecvInvite(d, m, Quiet)
       \/ RecvError(d, m, Quiet) \/ RecvUnknownSession(d, m, Quiet) \/ RecvEnded(d, m, Quiet)
       \/ RecvLive(d, m, Quiet)
  BY <1>7 DEF Recv, RecvInvite
<1> QED
  BY <1>4, <1>6, <1>7, <1>9, <1>10, InviteContinues, LiveContinues

\* Every step of the device continues every session it holds.
LEMMA EndpointContinues ==
  ASSUME EndpointInv, [Next]_vars
  PROVE  AllContinue
<1>1. ASSUME UNCHANGED vars PROVE AllContinue
  BY <1>1 DEF vars, AllContinue, Continues
<1> QED
  BY <1>1, ClockContinues, LocalContinues, IncomingContinues DEF Next

\* Once a session has been active, no step changes who it is with or who
\* answered it, and no late answer or replayed message sets it up again.
THEOREM OneAnswerOnly == Spec => OneAnswerApplied
<1> DEFINE Applied ==
      \A d \in Device, i \in Sid :
        sess[d][i].wasActive =>
          /\ sess'[d][i].peer = sess[d][i].peer
          /\ sess'[d][i].answered = sess[d][i].answered
          /\ sess[d][i].state = "ENDED" => sess'[d][i].state = "ENDED"
<1>1. ASSUME EndpointInv, [Next]_vars PROVE Applied
  <2>1. ASSUME NEW d \in Device, NEW i \in Sid, sess[d][i].wasActive
        PROVE  /\ sess'[d][i].peer = sess[d][i].peer
               /\ sess'[d][i].answered = sess[d][i].answered
               /\ sess[d][i].state = "ENDED" => sess'[d][i].state = "ENDED"
    <3>1. sess[d][i] \in SessionRec /\ Coherent(sess[d][i])
      BY <1>1, SessionFacts
    <3>2. sess[d][i].wasActive \in BOOLEAN
      BY <3>1, Zenon DEF SessionRec
    <3>3. sess[d][i].wasActive # FALSE
      BY <2>1, <3>2, Zenon
    <3>4. sess[d][i].state \in {"ACTIVE", "ENDED"}
      BY <3>1, <3>3 DEF Coherent
    <3>5. Continues(sess[d][i], sess'[d][i])
      BY <1>1, EndpointContinues DEF AllContinue
    <3> QED BY <3>4, <3>5 DEF Continues
  <2> QED BY <2>1
<1>2. EndpointInv /\ [Next]_vars => [Applied]_vars
  BY <1>1
<1> QED
  BY <1>2, EndpointInvariant, PTL DEF Spec, OneAnswerApplied
=============================================================================
