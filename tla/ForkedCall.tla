------------------------------ MODULE ForkedCall ------------------------------
(***************************************************************************)
(* A call to an identity with several devices, end to end: the caller's    *)
(* and the callee's Endpoints (session.py) and the forking Relay           *)
(* (relay.py) between them.  Every device has one connection to the relay, *)
(* up and down, each in order.  A callee device may be connected late, or  *)
(* lose its connection while nothing is in transit on it; what the relay   *)
(* sends to a leg without a connection is lost.                            *)
(***************************************************************************)
EXTENDS Endpoint, Relay

CONSTANTS Caller,        \* the calling device, connected throughout
          Callee,        \* the identity that is called
          BoundAtStart,  \* the devices connected when the call is placed
          MayUnbind,     \* the devices that may lose their connection
          MayHangUp      \* the devices whose users hang up

ASSUME ForkAssumption == /\ Caller \in BoundAtStart \ MayUnbind
                         /\ BoundAtStart \subseteq Device
                         /\ Callee \in Party

endpointVars == <<sess, timers, media, up>>
relayOnlyVars == <<bound, known, attempts, inbox, down>>
forkVars == <<sess, timers, media, up, bound, known, attempts, inbox, down, lapsed>>

Leaves == Device \ {Caller}

\* Every device has been connected before, so the relay knows them all.
ForkInit ==
  /\ Init
  /\ bound = BoundAtStart
  /\ known = Device \cup {IdentityOf[d] : d \in Device}
  /\ attempts = [i \in Sid |-> NoAttempt]
  /\ inbox = <<>>
  /\ down = [d \in Device |-> <<>>]

-----------------------------------------------------------------------------
(* Steps of the devices.                                                   *)

Receive(d) ==
  /\ down[d] # <<>>
  /\ Recv(d, Head(down[d]), up)
  /\ down' = [down EXCEPT ![d] = Tail(@)]
  /\ UNCHANGED <<bound, known, attempts, inbox>>

Call(i) == PlaceCall(Caller, i, Callee, up) /\ UNCHANGED relayOnlyVars

DecideLeg(d, i) ==
  /\ Alert(d, i, up) \/ AlertTooLate(d, i, up) \/ AutoReject(d, i, up)
  /\ UNCHANGED relayOnlyVars

UserStep(d, i) ==
  /\ \/ Cancel(d, i, up)
     \/ d \in MayHangUp /\ Hangup(d, i, up)
     \/ Accept(d, i, up)
     \/ Decline(d, i, up)
  /\ UNCHANGED relayOnlyVars

TimerStep(d, i) ==
  /\ \E name \in TimerName : Fire(d, i, name, up)
  /\ UNCHANGED relayOnlyVars

-----------------------------------------------------------------------------
(* Steps of the relay.                                                     *)

RelayTakes(d) ==
  /\ d \in bound
  /\ up[d] # <<>>
  /\ RelayRecv(Head(up[d]), down)
  /\ up' = [up EXCEPT ![d] = Tail(@)]
  /\ UNCHANGED <<sess, timers, media>>

Connect(d) == Bind(d, down) /\ UNCHANGED endpointVars

Disconnect(d) ==
  /\ d \in MayUnbind
  /\ up[d] = <<>> /\ down[d] = <<>>
  /\ Unbind(d, down)
  /\ UNCHANGED endpointVars

InviteExpires(i) ==
  /\ sess[Caller][i].state # "NONE"
  /\ Advance(i, down)
  /\ UNCHANGED endpointVars

\* The attempt is forgotten after a silence longer than any timer of a device:
\* by then no caller waits, no callee decides and nothing is in transit.
Forget(i) ==
  /\ \A d \in Device : /\ sess[d][i].state \in {"NONE", "ACTIVE", "ENDED"}
                       /\ up[d] = <<>> /\ down[d] = <<>>
  /\ ForgetAttempt(i, down)
  /\ UNCHANGED endpointVars

ForkNext ==
  \/ \E i \in Sid : Call(i) \/ InviteExpires(i) \/ Forget(i)
  \/ \E d \in Device :
        \/ Receive(d)
        \/ RelayTakes(d)
        \/ Connect(d)
        \/ Disconnect(d)
        \/ \E i \in Sid : DecideLeg(d, i) \/ UserStep(d, i) \/ TimerStep(d, i)

\* Connections and the relay make progress, timers expire, devices reconnect
\* and decide on an invite they are offered; users need never do anything.
ForkFairness ==
  \A d \in Device :
     /\ WF_forkVars(Receive(d)) /\ WF_forkVars(RelayTakes(d)) /\ WF_forkVars(Connect(d))
     /\ \A i \in Sid : WF_forkVars(DecideLeg(d, i)) /\ WF_forkVars(TimerStep(d, i))

ForkSpec == ForkInit /\ [][ForkNext]_forkVars
FairForkSpec == ForkSpec /\ ForkFairness

-----------------------------------------------------------------------------
(* Properties.                                                             *)

InTransit == \/ \E d \in Device : up[d] # <<>> \/ down[d] # <<>>
             \/ inbox # <<>>

\* Once nothing is in transit or held, exactly the device the caller is
\* talking to is in the call: a leg whose answer crossed a cancel, lost the
\* race against another leg, or came after the attempt had ended or the leg
\* had been given up on, is never left behind in an ACTIVE session.
OneLegActiveAtRest ==
  ~InTransit =>
    \A i \in Sid, d \in Leaves :
      sess[d][i].state = "ACTIVE" <=>
        sess[Caller][i].state = "ACTIVE" /\ sess[Caller][i].peer = d

\* The relay counts on a leg only while its device can still answer: at rest a
\* leg recorded as outstanding or answered is not one that ended by itself.
LegRecordsAgreeAtRest ==
  ~InTransit =>
    \A i \in Sid, d \in Leaves :
      /\ attempts[i].legs[d] = "delivered" => sess[d][i].state \in {"OFFERED", "ALERTING"}
      /\ attempts[i].legs[d] = "rejected" => sess[d][i].state = "ENDED"

\* A caller that waits while nothing is in transit waits for somebody: the
\* relay holds the attempt open, or the invite expired before anybody got it.
WaitsForSomebody ==
  ~InTransit =>
    \A i \in Sid :
      sess[Caller][i].state \in Inviting =>
        \/ Held(i) /\ attempts[i].outcome = "none"
        \/ i \in lapsed /\ ~Held(i)

\* A leg that rang, answered or rejected is not mistaken for a dead one: the
\* relay expires a leg for its silence only if the device never processed the
\* invite.
SilenceMeansUnprocessed ==
  \A i \in Sid, d \in Leaves :
    attempts[i].legs[d] = "expired" => sess[d][i].state \notin {"ALERTING", "ACTIVE"}

\* When the caller is out of the call, every device of the callee is in the
\* end out of it as well, and stays out.
NobodyLeftBehind ==
  \A i \in Sid :
    (sess[Caller][i].state = "ENDED") ~>
       [](\A d \in Leaves : sess[d][i].state \in {"NONE", "ENDED"})

\* An answer is always taken up: the device that answered is in the end in the
\* call with the caller or told to leave it.
AnswersResolve ==
  \A i \in Sid, d \in Leaves :
    (sess[d][i].state = "ACTIVE") ~>
       \/ sess[d][i].state = "ENDED"
       \/ sess[Caller][i].state = "ACTIVE" /\ sess[Caller][i].peer = d
=============================================================================
