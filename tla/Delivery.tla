------------------------------- MODULE Delivery -------------------------------
(***************************************************************************)
(* From the hubs of a group to the devices of one member: the group is     *)
(* ordered by one hub at a time and moves from hub to hub, each hub feeds  *)
(* the member's mailbox head first (Feed, which module Hub implements),    *)
(* the mailbox (Mailbox) keeps what it admits, and the devices (Resume)    *)
(* read it, process it and tell the mailbox which hub the group is at now. *)
(* Answers to a hub get lost, the mailbox restarts, connections break and  *)
(* devices crash.                                                          *)
(*                                                                         *)
(* The first item of the group is the commit that brought the member in:   *)
(* its welcome is in the mailbox, the group is registered and pending.     *)
(* log[k] is the hub the group is at once item k is ordered, so item k is  *)
(* a move when log[k] differs from log[k - 1].                             *)
(***************************************************************************)
EXTENDS Mailbox, Resume

CONSTANTS FirstHub,    \* where the group starts
          TheGroup,    \* the only group
          Sender,      \* the devices that send into the group
          MaxSeq,      \* bound: numbers given out
          MaxMoves,    \* bound: moves of the group
          MaxFaults    \* bound: lost answers, broken connections, restarts, other uses

ASSUME DeliveryAssumption == FirstHub \in HubName /\ TheGroup \in Group /\ Sender \subseteq Device

VARIABLES log,       \* number -> the hub the group is at after it
          backlog,   \* hub -> what the mailbox has not acknowledged yet
          position,  \* device -> its position in the group
          processed, \* device -> the numbers it has processed, in order
          own,       \* device -> the numbers of its own items
          naming,    \* device -> the moves it has not told the mailbox of, in order
          faults

sourceVars == <<log, backlog>>
readerVars == <<position, processed, own, naming>>
deliveryVars == <<mailboxVars, sourceVars, readerVars, faults>>

HubAfter(k) == IF k = 0 THEN FirstHub ELSE log[k]
Host == HubAfter(Len(log))
IsMove(k) == k > 1 /\ log[k] # log[k - 1]
Moves == {k \in DOMAIN log : IsMove(k)}

DeliveryInit ==
  /\ log = <<FirstHub>>
  /\ groups = [g \in {TheGroup} |-> Registration(FirstHub, "pending")]
  /\ items = {Item(1, "welcome", TheGroup, 1)}
  /\ counter = 1
  /\ acks = [d \in Device |-> 0]
  /\ devices = Device
  /\ mode \in {"sync", "queue"}
  /\ archived = {}
  /\ announced = {}
  /\ bound = {}
  /\ stream = [d \in Device |-> <<>>]
  /\ backlog = [h \in HubName |-> <<>>]
  /\ position = [d \in Device |-> Fresh]
  /\ processed = [d \in Device |-> <<>>]
  /\ own = [d \in Device |-> {}]
  /\ naming = [d \in Device |-> <<>>]
  /\ faults = 0

Fault == faults < MaxFaults /\ faults' = faults + 1

\* The numbers a device needs no copy of any more.
Taken(d) == Range(processed[d]) \cup own[d]

-----------------------------------------------------------------------------
(* The group.                                                              *)

\* The hub of the group orders an item, which may move the group to hub h.
\* A device of the member may be its sender: the hub's accepted tells it the
\* number, and a committer need not wait for the fan-out to name the new hub.
OrderItem(h, sender) ==
  LET seq == Len(log) + 1 IN
  /\ seq <= MaxSeq
  /\ h # Host => Cardinality(Moves) < MaxMoves
  /\ sender \subseteq {d \in Device : position[d].joined}
  /\ log' = Append(log, h)
  /\ backlog' = [backlog EXCEPT ![Host] = Append(@, seq)]
  /\ position' = [d \in Device |-> IF d \in sender THEN Positioned(position[d], seq) ELSE position[d]]
  /\ own' = [d \in Device |-> IF d \in sender THEN own[d] \cup {seq} ELSE own[d]]
  /\ naming' = [d \in Device |-> IF d \in sender /\ h # Host THEN Append(naming[d], seq) ELSE naming[d]]
  /\ UNCHANGED <<mailboxVars, processed, faults>>

ClassOf(seq) == IF IsMove(seq) THEN "handshake" ELSE "application"

\* The hub tries the head of its queue; the mailbox stores it and says so.
Deliver(h) ==
  /\ backlog[h] # <<>>
  /\ HubDeposit(TheGroup, h, ClassOf(Head(backlog[h])), Head(backlog[h]))
  /\ backlog' = [backlog EXCEPT ![h] = Tail(@)]
  /\ UNCHANGED <<log, readerVars, faults>>

\* The same, but the answer is lost and the hub will try again.
DeliverUnanswered(h) ==
  /\ backlog[h] # <<>>
  /\ Fault
  /\ HubDeposit(TheGroup, h, ClassOf(Head(backlog[h])), Head(backlog[h]))
  /\ UNCHANGED <<sourceVars, readerVars>>

\* The mailbox has it already.
DeliverDuplicate(h) ==
  /\ backlog[h] # <<>>
  /\ Duplicate(TheGroup, h, Head(backlog[h]))
  /\ backlog' = [backlog EXCEPT ![h] = Tail(@)]
  /\ UNCHANGED <<mailboxVars, log, readerVars, faults>>

\* The hub passes on the group-info it was given, or an ephemeral item.
DeliverUnnumbered ==
  /\ \/ Fault /\ HubDeposit(TheGroup, Host, "group-info", 0)
     \/ HubDepositNotStored(TheGroup, Host) /\ UNCHANGED faults
  /\ UNCHANGED <<sourceVars, readerVars>>

-----------------------------------------------------------------------------
(* The member's devices.                                                   *)

\* A device that is not bound reads from its cursor on, and says how far it is.
SyncFromCursor(d) ==
  /\ d \in devices \ bound
  /\ Sync(d, position[d].cursor, position[d].cursor)
  /\ UNCHANGED <<sourceVars, readerVars, faults>>

\* A bound device that has read what was sent acknowledges it and asks on.
SyncAgain(d) ==
  /\ d \in bound
  /\ stream[d] = <<>>
  /\ acks[d] < position[d].cursor
  /\ Sync(d, position[d].cursor, position[d].cursor)
  /\ UNCHANGED <<sourceVars, readerVars, faults>>

\* The next item is processed and its position committed.
Process(d) ==
  /\ stream[d] # <<>>
  /\ stream' = [stream EXCEPT ![d] = Tail(@)]
  /\ LET it == Head(stream[d])
         new == ~IsDuplicate(position[d], it)
     IN /\ position' = [position EXCEPT ![d] = Committed(@, it)]
        /\ processed' = IF new /\ Sequenced(it) THEN [processed EXCEPT ![d] = Append(@, it.seq)] ELSE processed
        /\ naming' = IF new /\ (it.class = "welcome" \/ it.class = "handshake")
                     THEN [naming EXCEPT ![d] = Append(@, it.seq)] ELSE naming
  /\ UNCHANGED <<groups, items, counter, deviceVars, archived, announced, sourceVars, own, faults>>

\* The device sends mailbox-config for the next commit that calls for one: it
\* confirms the group after its welcome, and names the hub after a move.
NameHub(d) ==
  /\ naming[d] # <<>>
  /\ LET k == Head(naming[d]) IN
     \/ ~IsMove(k) /\ Joined(TheGroup)
     \/ IsMove(k) /\ MoveTo(TheGroup, log[k], k)
     \/ IsMove(k) /\ groups[TheGroup].hub = log[k] /\ Joined(TheGroup)
  /\ naming' = [naming EXCEPT ![d] = Tail(@)]
  /\ UNCHANGED <<sourceVars, position, processed, own, faults>>

\* A device crashes or loses its connection.
Disconnect(d) ==
  /\ Fault
  /\ Unbind(d)
  /\ UNCHANGED <<sourceVars, readerVars>>

\* On a new connection the mailbox refuses the cursor of the device, which reads
\* from the start.
CursorInvalid(d) ==
  /\ Fault
  /\ Unbind(d)
  /\ position' = [position EXCEPT ![d].cursor = 0]
  /\ UNCHANGED <<sourceVars, processed, own, naming>>

\* What else happens at the mailbox: the hub of the welcome has missed its
\* answer, a device archives what it has, the owner changes the mode or revokes a
\* lost device.
MailboxIsUsed ==
  /\ Fault
  /\ \/ Welcome(TheGroup, FirstHub, 1, TRUE, TheGroup)
     \/ \E d \in devices : \E seq \in Taken(d) : Archive(d, TheGroup, seq)
     \/ \E m \in {"sync", "queue"} : SetMode(m)
     \/ \E d \in devices : devices # {d} /\ RevokeDevice(d)
  /\ UNCHANGED <<sourceVars, readerVars>>

MailboxRestarts == Fault /\ MailboxRestart /\ UNCHANGED <<sourceVars, readerVars>>

MailboxClock ==
  /\ groups[TheGroup].state = "joined" /\ groups[TheGroup].prev.waited < HandoverWait
  /\ groups[TheGroup].prev # NoPrevious
  /\ MailboxAdvance
  /\ UNCHANGED <<sourceVars, readerVars, faults>>

DeliveryNext ==
  \/ \E h \in HubName, sender \in {{}} \cup {{d} : d \in Sender} : OrderItem(h, sender)
  \/ \E h \in HubName : Deliver(h) \/ DeliverUnanswered(h) \/ DeliverDuplicate(h)
  \/ DeliverUnnumbered
  \/ \E d \in Device : \/ SyncFromCursor(d) \/ SyncAgain(d) \/ Process(d) \/ NameHub(d)
                       \/ Disconnect(d) \/ CursorInvalid(d)
  \/ MailboxIsUsed
  \/ MailboxRestarts
  \/ MailboxClock

\* Hubs try again, devices reconnect and send their configs, time passes.
DeliveryFairness ==
  /\ \A h \in HubName : WF_deliveryVars(Deliver(h) \/ DeliverDuplicate(h))
  /\ \A d \in Device : /\ WF_deliveryVars(SyncFromCursor(d) \/ SyncAgain(d))
                       /\ WF_deliveryVars(Process(d))
                       /\ WF_deliveryVars(NameHub(d))
  /\ WF_deliveryVars(MailboxClock)

DeliverySpec == DeliveryInit /\ [][DeliveryNext]_deliveryVars /\ DeliveryFairness

-----------------------------------------------------------------------------
(* Properties.                                                             *)

\* No item is processed twice, and no device is made to decrypt an item of its
\* own, although hubs deliver again, devices read again from an old cursor and
\* every item comes back to its sender (_duplicate, _sent, hub retries).
ProcessedOnce ==
  \A d \in Device :
     /\ \A j, k \in DOMAIN processed[d] : processed[d][j] = processed[d][k] => j = k
     /\ Range(processed[d]) \cap own[d] = {}

\* An item is always somewhere: from the moment it is ordered it is in its hub's
\* queue, in the mailbox, or every registered device has taken it.  An acknowledgement on
\* any of the hops comes after the next one is responsible (_hub_deposit, _sync).
NothingIsLost ==
  \A seq \in 2 .. Len(log) :
     \/ \E h \in HubName : seq \in Range(backlog[h])
     \/ \E it \in items : Sequenced(it) /\ it.seq = seq
     \/ \A d \in devices : seq \in Taken(d)

\* Items are processed in the order of their numbers, across a move as well,
\* unless the mailbox has announced that the wait for the old hub is over.
InOrderUnlessAnnounced ==
  announced = {} =>
    \A d \in Device : \A j, k \in DOMAIN processed[d] : j < k => processed[d][j] < processed[d][k]

\* A number is stored once, however often its hub delivers it.
StoredOnce == \A it, jt \in items : Sequenced(it) /\ Sequenced(jt) /\ it.seq = jt.seq => it = jt

\* The group falls quiet at the bound; then whatever it ordered reaches every
\* registered device, when hubs and devices keep trying: no refusal, wait,
\* move or restart strands an item.
EverythingArrives == <>[](\A d \in devices : 2 .. Len(log) \subseteq Taken(d))
=============================================================================
