------------------------------ MODULE DirectCall ------------------------------
(***************************************************************************)
(* Endpoints (session.py) calling each other over connections that deliver *)
(* reliably and in order, one device per identity: crossing invites,       *)
(* cancels that cross answers, updates that cross updates, hang-ups in the *)
(* middle of a renegotiation.  Every device runs the handlers of Endpoint; *)
(* what is added here is only who may draw which id and the connection.    *)
(***************************************************************************)
EXTENDS Endpoint

CONSTANTS Owner,        \* session id -> the device that may place that call
          UpdateOwner,  \* update id -> the device that may draw it
          Callable      \* the DIDs a call may be addressed to

ASSUME OwnerAssumption == /\ Owner \in [Sid -> Device]
                          /\ UpdateOwner \in [UpdateId -> Device]
                          /\ Callable \subseteq Party

VARIABLE drawn   \* the update ids used so far: a ULID is drawn once

callVars == <<vars, drawn>>

CallInit == Init /\ drawn = {}

-----------------------------------------------------------------------------

Reaches(m, d) == m.to = d \/ m.to = IdentityOf[d]

\* The oldest message of x's connection reaches d, which handles it.
Deliver(x, d) ==
  /\ up[x] # <<>>
  /\ x # d
  /\ Reaches(Head(up[x]), d)
  /\ Recv(d, Head(up[x]), [up EXCEPT ![x] = Tail(@)])
  /\ UNCHANGED drawn

Place(d, i) ==
  /\ Owner[i] = d
  /\ \E to \in Callable : ~Reaches([to |-> to], d) /\ PlaceCall(d, i, to, up)
  /\ UNCHANGED drawn

\* What the device decides by itself on an invite it has been offered.
Decide(d, i) ==
  /\ Alert(d, i, up) \/ AlertTooLate(d, i, up) \/ AutoReject(d, i, up)
  /\ UNCHANGED drawn

User(d, i) ==
  /\ \/ Cancel(d, i, up)
     \/ Hangup(d, i, up)
     \/ Accept(d, i, up)
     \/ Decline(d, i, up)
     \/ Info(d, i, up)
  /\ UNCHANGED drawn

Offer(d, i, u) ==
  /\ UpdateOwner[u] = d
  /\ u \notin drawn
  /\ Update(d, i, u, up)
  /\ drawn' = drawn \cup {u}

\* The peer's application answers or rejects the update it has been shown.
Settle(d, i) ==
  /\ \E u \in UpdateId : AnswerUpdate(d, i, u, up) \/ RejectUpdate(d, i, u, up)
  /\ UNCHANGED drawn

Expiry(d, i) == (\E name \in TimerName : Fire(d, i, name, up)) /\ UNCHANGED drawn

InviteLapses(i) == Lapse(i, up) /\ UNCHANGED drawn

CallNext ==
  \/ \E x, d \in Device : Deliver(x, d)
  \/ \E d \in Device, i \in Sid :
        \/ Place(d, i)
        \/ Decide(d, i)
        \/ User(d, i)
        \/ Settle(d, i)
        \/ Expiry(d, i)
        \/ \E u \in UpdateId : Offer(d, i, u)
  \/ \E i \in Sid : InviteLapses(i)

\* Connections deliver, timers expire, a device decides on an offered invite
\* at once and answers an update; users need never do anything.
CallFairness ==
  /\ \A x, d \in Device : WF_callVars(Deliver(x, d))
  /\ \A d \in Device, i \in Sid :
        WF_callVars(Decide(d, i)) /\ WF_callVars(Settle(d, i)) /\ WF_callVars(Expiry(d, i))

CallSpec == CallInit /\ [][CallNext]_callVars
FairCallSpec == CallSpec /\ CallFairness

-----------------------------------------------------------------------------
(* Properties.                                                             *)

AtRest == \A d \in Device : up[d] = <<>>

\* Once nothing is in transit, caller and callee agree on every call: both
\* are in it, or neither is; a caller still waiting has a callee still
\* deciding; and an established call joins exactly these two devices.  No
\* crossing of cancel, answer, reject, bye or timeouts leaves one side behind.
CallsAgreeAtRest ==
  AtRest =>
    \A i \in Sid : \A d \in Device \ {Owner[i]} :
       LET c == sess[Owner[i]][i]
           s == sess[d][i] IN
       /\ c.state = "ACTIVE" <=> s.state = "ACTIVE"
       /\ c.state \in Inviting <=> s.state \in {"OFFERED", "ALERTING"}
       /\ c.state = "ACTIVE" => c.peer = d /\ s.peer = Owner[i]

\* Once nothing is in transit, both ends of a call see the same pending update,
\* its sender as outbound and the other side as inbound, or none: the glare
\* rule of recv_update leaves no update that one side waits for in vain.
UpdatesAgreeAtRest ==
  AtRest =>
    \A i \in Sid : \A d \in Device \ {Owner[i]} :
       LET p == sess[Owner[i]][i].outstanding
           q == sess[d][i].outstanding IN
       /\ (p = NoUpdate) <=> (q = NoUpdate)
       /\ p # NoUpdate => p.id = q.id /\ p.dir # q.dir

\* Between two devices that follow the rules nobody is ever told that a second
\* update arrived while one was pending: that error is for a peer that breaks
\* rule 4, and no crossing of updates and replies looks like one.
NoFalseUpdatePending ==
  \A d \in Device : \A k \in DOMAIN up[d] : up[d][k].tag # "session.update-pending"

\* Glare converges: once nothing is in transit, two identities never have
\* attempts open in both directions at the same time; and it converges on the
\* smaller id: who withdraws an attempt for glare has met, as responder, an
\* attempt of the other side with a smaller one.
GlareConverges ==
  /\ AtRest => ~ \E i, j \in Sid : /\ Owner[i] # Owner[j]
                                   /\ sess[Owner[i]][i].state \in Inviting
                                   /\ sess[Owner[j]][j].state \in Inviting
  /\ \A d \in Device : \A k \in DOMAIN up[d] :
       LET m == up[d][k] IN
       m.type = "cancel" /\ m.tag = "session.glare" =>
         \E j \in Sid : j < m.sid /\ Owner[j] # d /\ sess[d][j].role = "responder"

\* A call that is over at one device is in the end over at the other.
EndsTogether ==
  \A i \in Sid, d, x \in Device :
    d # x => (sess[d][i].state = "ENDED" ~> sess[x][i].state = "ENDED")

\* Every update is settled or its call ends.
UpdatesSettle ==
  \A i \in Sid, d \in Device :
    (sess[d][i].outstanding # NoUpdate) ~> (sess[d][i].outstanding = NoUpdate)
=============================================================================
