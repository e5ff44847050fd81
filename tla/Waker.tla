-------------------------------- MODULE Waker --------------------------------
(***************************************************************************)
(* What a relay or a mailbox wakes devices for: class Waker of             *)
(* impl/tools/dsipvec/wake.py.  A relay wakes a device for an invite it    *)
(* holds for it, and tells it when the invite is no longer held; a mailbox *)
(* wakes it for stored items, not too often.  Every call carries the time; *)
(* what has expired by then is settled first.                              *)
(***************************************************************************)
EXTENDS Integers

CONSTANTS Sleeper,   \* devices, of one identity
          Invite,    \* sessions whose invite may be held
          Coalesce,  \* W_COALESCE_S, in ticks
          MaxTime    \* bound: the clock

ASSUME WakerAssumption == Coalesce \in Nat /\ MaxTime \in Nat

VARIABLES component,   \* "relay" or "mailbox"
          at,          \* the time of the last call
          regs,        \* device -> [until, kinds]
          bound,       \* the devices that are bound
          invites,     \* session -> [until, devices, woken]
          lastMessage, \* device -> the last "message" wake since it was bound
          screen       \* <<device, session>>: calls that show on a device, which
                       \* was woken for them and has a registration to be told by

wakerVars == <<component, at, regs, bound, invites, lastMessage, screen>>

Never == -Coalesce
NotHeld == [until |-> 0, devices |-> {}, woken |-> {}]

WakerInit ==
  /\ component \in {"relay", "mailbox"}
  /\ at = 0
  /\ regs = [d \in Sleeper |-> [until |-> 0, kinds |-> {}]]
  /\ bound = {}
  /\ invites = [s \in Invite |-> NotHeld]
  /\ lastMessage = [d \in Sleeper |-> Never]
  /\ screen = {}

\* Registered at the time t for wakes of a kind.
Wants(d, kind, t) == regs[d].until > t /\ kind \in regs[d].kinds

\* The call-ended wakes for s, which stops being held at the time t.
CallEnded(s, t) ==
  {<<d, s>> : d \in {e \in invites[s].woken \cap invites[s].devices : Wants(e, "call-ended", t)}}

Over(t) == {s \in Invite : invites[s].until <= t}
StillHeld(t) == [s \in Invite |-> IF s \in Over(t) THEN NotHeld ELSE invites[s]]

\* A call at the time t: the calls in ended are no longer shown, nor those whose
\* invite has expired, and those in rung show from now on.
Call(t, ended, rung) ==
  /\ t \in at .. MaxTime
  /\ at' = t
  /\ LET over == UNION {CallEnded(s, invites[s].until) : s \in Over(t)} IN
     screen' = {p \in (screen \ (over \cup ended)) \cup rung :
                  Wants(p[1], "call-ended", t) /\ Wants(p[1], "call-ended", t)'}
  /\ UNCHANGED component

Register(d, t) ==
  /\ \E until \in t + 1 .. MaxTime + 1, kinds \in {{"call"}, {"call", "call-ended"}, {"message"}} :
        regs' = [regs EXCEPT ![d] = [until |-> until, kinds |-> kinds]]
  /\ Call(t, {}, {})
  /\ invites' = StillHeld(t)
  /\ UNCHANGED <<bound, lastMessage>>

\* Removed, revoked, forgotten, or ended by the answer of the gateway.
EndRegistration(d, t) ==
  /\ regs' = [regs EXCEPT ![d].until = 0]
  /\ Call(t, {}, {})
  /\ invites' = StillHeld(t)
  /\ UNCHANGED <<bound, lastMessage>>

\* Bound, it is sent what is held for it, and the calls on its screen go on or end.
Bind(d, t) ==
  /\ bound' = bound \cup {d}
  /\ UNCHANGED regs
  /\ Call(t, {d} \X Invite, {})
  /\ invites' = [s \in Invite |-> [StillHeld(t)[s] EXCEPT !.devices = @ \ {d}, !.woken = @ \ {d}]]
  /\ lastMessage' = [lastMessage EXCEPT ![d] = Never]

Unbind(d, t) ==
  /\ bound' = bound \ {d}
  /\ UNCHANGED regs
  /\ Call(t, {}, {})
  /\ invites' = StillHeld(t)
  /\ UNCHANGED lastMessage

\* Mutant: an invite that is held again is a new one.
AlwaysHeldAnew(s, until, t) == [NotHeld EXCEPT !.until = until]

\* An invite that is held already keeps its expiry and whom it woke.
HeldFor(s, until, t) ==
  IF s \in Over(t) THEN [NotHeld EXCEPT !.until = until] ELSE invites[s]

Hold(s, until, for, t) ==
  /\ component = "relay"
  /\ until > t
  /\ LET h == HeldFor(s, until, t)
         waiting == for \ bound
         woken == {d \in waiting \ h.woken : Wants(d, "call", t)}
     IN /\ invites' = [StillHeld(t) EXCEPT
                          ![s] = [h EXCEPT !.devices = @ \cup waiting, !.woken = @ \cup woken]]
        /\ UNCHANGED regs
        /\ Call(t, {}, woken \X {s})
  /\ UNCHANGED <<bound, lastMessage>>

Drop(s, t) ==
  /\ component = "relay"
  /\ s \notin Over(t)
  /\ UNCHANGED regs
  /\ Call(t, CallEnded(s, t), {})
  /\ invites' = [StillHeld(t) EXCEPT ![s] = NotHeld]
  /\ UNCHANGED <<bound, lastMessage>>

\* An item for all devices of the identity.
StoreItem(t) ==
  /\ component = "mailbox"
  /\ LET asleep == {d \in Sleeper \ bound : Wants(d, "message", t)}
         woken == {d \in asleep : t - lastMessage[d] >= Coalesce}
     IN lastMessage' = [d \in Sleeper |-> IF d \in woken THEN t ELSE lastMessage[d]]
  /\ UNCHANGED regs
  /\ Call(t, {}, {})
  /\ invites' = StillHeld(t)
  /\ UNCHANGED bound

WakerNext ==
  \E t \in at .. MaxTime :
     \/ \E d \in Sleeper : Register(d, t) \/ EndRegistration(d, t) \/ Bind(d, t) \/ Unbind(d, t)
     \/ \E s \in Invite : \/ \E until \in t + 1 .. MaxTime + 1, for \in SUBSET Sleeper : Hold(s, until, for, t)
                          \/ Drop(s, t)
     \/ StoreItem(t)

WakerSpec == WakerInit /\ [][WakerNext]_wakerVars

-----------------------------------------------------------------------------
\* A call that shows on a device will be ended there: its invite is held still,
\* and the relay remembers that it woke the device for it, through new holds,
\* bindings, and registrations that come and go.
ShownCallIsHeld ==
  \A p \in screen : p[1] \in invites[p[2]].woken \cap invites[p[2]].devices /\ invites[p[2]].until > at
=============================================================================
