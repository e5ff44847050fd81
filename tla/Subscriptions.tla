---------------------------- MODULE Subscriptions ----------------------------
(***************************************************************************)
(* Subscriptions to a target: the subscription half of class Authority and *)
(* class Subscriber of impl/tools/dsipvec/broadcast.py, for one target and *)
(* one event class.  What is subscribed to is a value that changes (the    *)
(* state of a publication, the presence of an identity), the decision to   *)
(* admit is left open, and notifies arrive in any order.                   *)
(***************************************************************************)
EXTENDS Integers, Sequences

CONSTANTS Watcher,     \* the devices that subscribe
          MaxSub,      \* bound: the subscribes sent
          MaxLease,    \* expires_in at most, in ticks (the registry's cap)
          MaxNotices,  \* bound: the seq up to which the target changes
          TargetState  \* what a notify tells of the target

ASSUME SubscriptionAssumption == MaxSub \in Nat /\ MaxLease \in Nat /\ MaxNotices \in Nat

SubNo == 1 .. MaxSub

VARIABLES target,   \* the state of the target
          leases,   \* subscription -> what the authority holds of it
          watches,  \* subscription -> what the subscriber holds of it
          asked,    \* subscribes on their way, in order
          notices   \* notifies and rejects on their way, in no order

subscriptionVars == <<target, leases, watches, asked, notices>>

NoLease == [device |-> "nobody", left |-> 0, seq |-> 0]
NoWatch == [state |-> "none", device |-> "nobody", left |-> 0, seq |-> 0, shown |-> "nothing"]

SubscriptionInit ==
  /\ target \in TargetState
  /\ leases = [s \in SubNo |-> NoLease]
  /\ watches = [s \in SubNo |-> NoWatch]
  /\ asked = <<>> /\ notices = {}

HeldLease(s) == leases[s] # NoLease
Notify(s, seq, state) == [sub |-> s, seq |-> seq, state |-> state, told |-> target]

-----------------------------------------------------------------------------
(* The subscriber.                                                         *)

\* A fresh subscribe; lease 0 ends the subscription the device has.
Subscribe(w, lease) ==
  \E s \in SubNo :
    /\ watches[s] = NoWatch /\ \A r \in 1 .. s - 1 : watches[r] # NoWatch
    /\ watches' = [watches EXCEPT ![s] = [NoWatch EXCEPT !.state = "pending", !.device = w,
                                                         !.left = lease]]
    /\ asked' = Append(asked, [sub |-> s, device |-> w, lease |-> lease])
    /\ UNCHANGED <<target, leases, notices>>

\* A notify that is older than one seen, or about an ended subscription, is dropped.
Heeds(m) == /\ m.state # "rejected"
            /\ watches[m.sub].state \notin {"terminated", "rejected"}
            /\ m.seq > watches[m.sub].seq

ReceiveNotice(m) ==
  /\ notices' = notices \ {m}
  /\ watches' =
       CASE m.state = "rejected" -> [watches EXCEPT ![m.sub].state = "rejected"]
         [] Heeds(m) -> [watches EXCEPT ![m.sub].state = m.state, ![m.sub].seq = m.seq,
                                        ![m.sub].shown = IF m.state = "active" THEN m.told ELSE @]
         [] OTHER -> watches
  /\ UNCHANGED <<target, leases, asked>>

-----------------------------------------------------------------------------
(* The authority.                                                          *)

\* Mutant: a renewal replaces the subscription of any device.
OfAnyDevice(w) == {s \in SubNo : HeldLease(s)}

\* The subscription of this device that a subscribe renews or ends.
Existing(w) == {s \in SubNo : HeldLease(s) /\ leases[s].device = w}

Without(S) == [s \in SubNo |-> IF s \in S THEN NoLease ELSE leases[s]]

\* What is asked is done, or refused.  The first notify says that it is accepted.
RecvSubscribe ==
  /\ asked # <<>>
  /\ asked' = Tail(asked)
  /\ LET m == Head(asked) IN
     \/ m.lease = 0 /\ leases' = Without(Existing(m.device)) /\ UNCHANGED notices
     \/ /\ m.lease > 0
        /\ notices' = notices \cup {Notify(m.sub, 0, "rejected")}
        /\ UNCHANGED leases
     \/ /\ m.lease > 0
        /\ leases' = [Without(Existing(m.device)) EXCEPT ![m.sub] =
                        [device |-> m.device, left |-> m.lease, seq |-> 1]]
        /\ notices' = notices \cup {Notify(m.sub, 1, "active")}
  /\ UNCHANGED <<target, watches>>

\* The target changes and everybody subscribed is told.
TargetChanges(state) ==
  /\ state # target /\ target' = state
  /\ \A s \in SubNo : leases[s].seq < MaxNotices
  /\ leases' = [s \in SubNo |-> IF HeldLease(s) THEN [leases[s] EXCEPT !.seq = @ + 1] ELSE leases[s]]
  /\ notices' = notices \cup
       {[Notify(s, leases[s].seq + 1, "active") EXCEPT !.told = state] : s \in {r \in SubNo : HeldLease(r)}}
  /\ UNCHANGED <<watches, asked>>

Ended(S) == {Notify(s, leases[s].seq + 1, "terminated") : s \in S}

\* The grant or policy that admitted s is withdrawn, or has run out.
Terminate(s) ==
  /\ HeldLease(s)
  /\ leases' = Without({s})
  /\ notices' = notices \cup Ended({s})
  /\ UNCHANGED <<target, watches, asked>>

\* Time passes at both ends: the authority ends the leases that have run out
\* and says so; the subscriber sees that one of its own has lapsed.
SubscriptionClock ==
  LET due == {s \in SubNo : HeldLease(s) /\ leases[s].left = 1} IN
  /\ leases' = [s \in SubNo |-> IF HeldLease(s) /\ s \notin due
                                THEN [leases[s] EXCEPT !.left = @ - 1] ELSE NoLease]
  /\ notices' = notices \cup Ended(due)
  /\ watches' = [s \in SubNo |->
       LET v == watches[s]
           left == IF v.left > 0 THEN v.left - 1 ELSE 0
       IN [v EXCEPT !.left = left,
                    !.state = IF @ = "active" /\ left = 0 THEN "lapsed" ELSE @]]
  /\ UNCHANGED <<target, asked>>

SubscriptionNext ==
  \/ \E w \in Watcher, lease \in 0 .. MaxLease : Subscribe(w, lease)
  \/ \E m \in notices : ReceiveNotice(m)
  \/ RecvSubscribe
  \/ \E state \in TargetState : TargetChanges(state)
  \/ \E s \in SubNo : Terminate(s)
  \/ SubscriptionClock

SubscriptionSpec == SubscriptionInit /\ [][SubscriptionNext]_subscriptionVars

-----------------------------------------------------------------------------
(* Properties.                                                             *)

\* When nothing is on its way, whatever order renewals, changes, expiries and
\* notifies came in: who is subscribed knows the target's present state; who
\* thinks to be subscribed is, unless a later subscribe of the same device
\* replaced or ended that.
SubscriberKnows ==
  asked = <<>> /\ notices = {} =>
    \A s \in SubNo :
      LET v == watches[s] IN
      /\ HeldLease(s) => /\ v.state \in {"active", "lapsed"}
                         /\ v.seq = leases[s].seq /\ v.shown = target
      /\ v.state = "active" =>
           \/ HeldLease(s)
           \/ \E r \in s + 1 .. MaxSub : watches[r].device = v.device /\ watches[r].state # "rejected"
=============================================================================
