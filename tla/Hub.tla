--------------------------------- MODULE Hub ---------------------------------
(***************************************************************************)
(* The ordering hub of one messaging group: class Hub of                   *)
(* impl/tools/dsipvec/messaging.py.  The hub numbers what members deposit, *)
(* keeps the epoch and the roster, and fans every item out through one     *)
(* queue per member identity, head first, each head until the mailbox      *)
(* acknowledges it.  An identity a commit brings in gets a welcome through *)
(* a second queue, and its sequenced items wait behind that welcome.       *)
(*                                                                         *)
(* offered is what the hub has sent to each mailbox and still awaits the   *)
(* acknowledgement of; it is lost when the hub restarts.  A deposit the    *)
(* hub refuses or has sequenced before changes nothing and is no step, nor *)
(* is an ephemeral item, which is forwarded and forgotten.                 *)
(*                                                                         *)
(* The roster is a set of leaves <<identity, device>>.  The clock of an    *)
(* identity is the time since its queues went from empty to not, or saw a  *)
(* head acknowledged (now - waiting[identity] in the code).                *)
(***************************************************************************)
EXTENDS Integers, Sequences, FiniteSets

CONSTANTS Identity,    \* the identities that may be members
          Leaf,        \* the leaves <<identity, device>> that exist
          Founders,    \* the leaves of the group as it is set up here
          Owner,       \* the owner of a personal group; no identity otherwise
          Digest,      \* digests of deposited items
          Retention,   \* mls_retention_s, in ticks of the clock
          MaxSeq,      \* bound: sequence numbers given out
          MaxEpoch     \* bound: the last epoch

ASSUME GroupAssumption == /\ \A l \in Leaf : l[1] \in Identity
                          /\ Founders \subseteq Leaf
ASSUME BoundAssumption == /\ Retention \in Nat \ {0}
                          /\ MaxSeq \in Nat
                          /\ MaxEpoch \in Nat

VARIABLES epoch, nextSeq, roster,
          digests,       \* digest -> the seq it was given, 0 when unknown
          seqClass,      \* seq -> class of the item
          pending,       \* identity -> queue of seqs
          welcomes,      \* identity -> queue of seqs of the adding commits
          unregistered,  \* identities whose queue is held behind a welcome
          clock,         \* identity -> time without progress, or Stopped
          groupInfo,     \* the hub holds a GroupInfo
          moved,         \* the group has left for another hub
          offered        \* identity -> deliveries awaiting acknowledgement

queueVars == <<pending, welcomes, unregistered, clock, offered>>
groupVars == <<epoch, roster, groupInfo, moved>>
orderVars == <<nextSeq, digests, seqClass>>
hubVars == <<groupVars, orderVars, queueVars>>

-----------------------------------------------------------------------------
(* Queues and clocks.                                                      *)

Stopped == -1
Class == {"handshake", "application"}
Delivery(class, seq) == [class |-> class, seq |-> seq]

Members(leaves) == {l[1] : l \in leaves}
LeavesOf(leaves, i) == {l \in leaves : l[1] = i}
Queued(i) == pending[i] # <<>> \/ welcomes[i] # <<>>

\* What the head of a queue is sent as.
PendingHead(q) == IF q = <<>> THEN {} ELSE {Delivery(seqClass[Head(q)], Head(q))}
WelcomeHead(q) == IF q = <<>> THEN {} ELSE {Delivery("welcome", Head(q))}

\* _start_clock for each of who; a clock that runs is left alone.
ClocksStartedFor(who) ==
  [i \in Identity |-> IF i \in who /\ clock[i] = Stopped THEN 0 ELSE clock[i]]

AppendedFor(queue, who, seq) ==
  [i \in Identity |-> IF i \in who THEN Append(queue[i], seq) ELSE queue[i]]

HubInit ==
  /\ epoch = 0
  /\ nextSeq = 1
  /\ roster = Founders
  /\ digests = [g \in Digest |-> 0]
  /\ seqClass = [s \in 1 .. MaxSeq |-> "none"]
  /\ pending = [i \in Identity |-> <<>>]
  /\ welcomes = [i \in Identity |-> <<>>]
  /\ unregistered = {}
  /\ clock = [i \in Identity |-> Stopped]
  /\ groupInfo = FALSE
  /\ moved = FALSE
  /\ offered = [i \in Identity |-> {}]

-----------------------------------------------------------------------------
(* Deposits.                                                               *)

\* _sequence: the next number goes to digest g, and to the queues of targets.
Sequence(g, class, targets) ==
  /\ nextSeq <= MaxSeq
  /\ nextSeq' = nextSeq + 1
  /\ digests' = [digests EXCEPT ![g] = nextSeq]
  /\ seqClass' = [seqClass EXCEPT ![nextSeq] = class]
  /\ pending' = AppendedFor(pending, targets, nextSeq)

\* Mutant: an empty queue is served although it is held behind a welcome.
SentThoughHeld(targets) == {i \in targets : pending[i] = <<>>}

\* The identities the item goes out to at once: nothing queued, nothing held.
SentAtOnce(targets) == {i \in targets : pending[i] = <<>> /\ i \notin unregistered}

\* An item every member gets and that changes neither epoch nor roster.
SequenceToAll(g, class) ==
  /\ Sequence(g, class, Members(roster))
  /\ clock' = ClocksStartedFor(Members(roster))
  /\ offered' = [i \in Identity |->
                   IF i \in SentAtOnce(Members(roster))
                   THEN offered[i] \cup {Delivery(class, nextSeq)} ELSE offered[i]]
  /\ UNCHANGED <<groupVars, welcomes, unregistered>>

\* What every sequenced deposit needs, whoever makes it.
Admitted(g) == ~moved /\ digests[g] = 0

\* M 6.5 rule 3: the current epoch or the one before.
DepositApplication(i, g, e) ==
  /\ Admitted(g)
  /\ i \in Members(roster)
  /\ e \in {epoch, epoch - 1}
  /\ SequenceToAll(g, "application")

DepositProposal(i, g, e) ==
  /\ Admitted(g)
  /\ i \in Members(roster)
  /\ e = epoch
  /\ SequenceToAll(g, "handshake")

\* check_roster_change: another member's leaves are added by nobody else, and
\* removed all together or because their delegations have lapsed.
RosterChangeAllowed(i, adds, removes, lapsed) ==
  /\ \A l \in adds : l[1] = i \/ l[1] \notin Members(roster)
  /\ \A who \in Members(removes) \ {i} :
       LeavesOf(roster, who) \subseteq removes \/ LeavesOf(removes, who) \subseteq lapsed

\* check_external_join: a member's device, or the owner's in its personal
\* group, adds itself and replaces leaves of its own identity.
ExternalJoinAllowed(leaf, adds, removes) ==
  /\ adds = {leaf}
  /\ leaf[1] \in Members(roster) \cup {Owner}
  /\ \A l \in removes : l[1] = leaf[1]

\* A valid commit: ordered for the members it found, then applied; every
\* identity that gained a device is welcomed, unless it joined by itself.
ApplyCommit(g, adds, removes, moves, gained) ==
  LET now == Members(roster) IN
  /\ Sequence(g, "handshake", now)
  /\ roster' = (roster \ removes) \cup adds
  /\ epoch' = epoch + 1
  /\ moved' = moves
  /\ unregistered' = unregistered \cup (gained \ now)
  /\ welcomes' = AppendedFor(welcomes, gained, nextSeq)
  /\ clock' = ClocksStartedFor(now \cup gained)
  /\ offered' = [i \in Identity |->
                   offered[i]
                   \cup {d \in {Delivery("handshake", nextSeq)} : i \in SentAtOnce(now)}
                   \cup {d \in {Delivery("welcome", nextSeq)} : i \in gained /\ welcomes[i] = <<>>}]
  /\ UNCHANGED groupInfo

\* Mutant: nobody the commit adds is welcomed.
DepositCommitUnwelcoming(i, g, e, adds, removes, lapsed, moves) ==
  /\ Admitted(g)
  /\ i \in Members(roster)
  /\ e = epoch
  /\ RosterChangeAllowed(i, adds, removes, lapsed)
  /\ ApplyCommit(g, adds, removes, moves, {})

DepositCommit(i, g, e, adds, removes, lapsed, moves) ==
  /\ Admitted(g)
  /\ i \in Members(roster)
  /\ e = epoch
  /\ RosterChangeAllowed(i, adds, removes, lapsed)
  /\ ApplyCommit(g, adds, removes, moves, Members(adds \ roster))

DepositExternalCommit(leaf, g, e, removes, moves) ==
  /\ Admitted(g)
  /\ ExternalJoinAllowed(leaf, {leaf}, removes)
  /\ e = epoch
  /\ RosterChangeAllowed(leaf[1], {leaf}, removes, {})
  /\ ApplyCommit(g, {leaf}, removes, moves, {})

DepositGroupInfo(i) ==
  /\ ~moved
  /\ i \in Members(roster)
  /\ groupInfo' = TRUE
  /\ UNCHANGED <<epoch, roster, moved, orderVars, queueVars>>

\* Mutant: any number is taken as the last one of the other hub.
ReturnedUnchecked(i, viewEpoch, view, handover) ==
  /\ moved
  /\ i \in Members(view)
  /\ moved' = FALSE
  /\ epoch' = viewEpoch
  /\ roster' = view
  /\ nextSeq' = handover + 1
  /\ groupInfo' = TRUE
  /\ UNCHANGED <<digests, seqClass, queueVars>>

\* _returned: the group comes back with the epoch and roster of the GroupInfo
\* and goes on numbering after the other hub's last seq.
Returned(i, viewEpoch, view, handover) ==
  /\ moved
  /\ i \in Members(view)
  /\ handover >= nextSeq
  /\ moved' = FALSE
  /\ epoch' = viewEpoch
  /\ roster' = view
  /\ nextSeq' = handover + 1
  /\ groupInfo' = TRUE
  /\ UNCHANGED <<digests, seqClass, queueVars>>

-----------------------------------------------------------------------------
(* Acknowledgements, the clock, a restart.                                 *)

\* Mutant: the clock of an emptied queue runs on.
ClockAfterAckRuns(i) == clock' = [clock EXCEPT ![i] = 0]

\* Progress restarts the clock of i; nothing left queued stops it.
ClockAfterAck(i) ==
  clock' = [clock EXCEPT ![i] = IF pending'[i] # <<>> \/ welcomes'[i] # <<>> THEN 0 ELSE Stopped]

\* The head of the pending queue is acknowledged; the next one goes unless held.
AckPending(i, seq) ==
  /\ pending[i] # <<>>
  /\ Head(pending[i]) = seq
  /\ UNCHANGED <<groupVars, orderVars, welcomes, unregistered>>
  /\ pending' = [pending EXCEPT ![i] = Tail(@)]
  /\ ClockAfterAck(i)
  /\ offered' = [offered EXCEPT ![i] =
                   {d \in @ : d.class = "welcome"}
                   \cup (IF i \in unregistered THEN {} ELSE PendingHead(Tail(pending[i])))]

\* Mutant: the last welcome releases nothing.
AckWelcomeKeepsHold(i, seq) ==
  /\ welcomes[i] # <<>>
  /\ Head(welcomes[i]) = seq
  /\ UNCHANGED <<groupVars, orderVars, pending, unregistered>>
  /\ welcomes' = [welcomes EXCEPT ![i] = Tail(@)]
  /\ ClockAfterAck(i)
  /\ offered' = [offered EXCEPT ![i] =
                   {d \in @ : d.class # "welcome"} \cup WelcomeHead(Tail(welcomes[i]))]

\* The head welcome is acknowledged.  The next one goes; after the last one the
\* group is registered and whatever waited behind the welcome goes.
AckWelcome(i, seq) ==
  LET free == Tail(welcomes[i]) = <<>> /\ i \in unregistered IN
  /\ welcomes[i] # <<>>
  /\ Head(welcomes[i]) = seq
  /\ UNCHANGED <<groupVars, orderVars, pending>>
  /\ welcomes' = [welcomes EXCEPT ![i] = Tail(@)]
  /\ ClockAfterAck(i)
  /\ unregistered' = IF free THEN unregistered \ {i} ELSE unregistered
  /\ offered' = [offered EXCEPT ![i] =
                   {d \in @ : d.class # "welcome"}
                   \cup WelcomeHead(Tail(welcomes[i]))
                   \cup (IF free THEN PendingHead(pending[i]) ELSE {})]

\* advance: the queues of an identity that acknowledged nothing for the
\* retention period are dropped and its hold is lifted.
Advance ==
  LET ticked == [i \in Identity |-> IF clock[i] = Stopped THEN Stopped ELSE clock[i] + 1]
      gone == {i \in Identity : ticked[i] >= Retention}
      Emptied(f, nothing) == [i \in Identity |-> IF i \in gone THEN nothing ELSE f[i]]
  IN
  /\ \E i \in Identity : clock[i] # Stopped
  /\ pending' = Emptied(pending, <<>>)
  /\ welcomes' = Emptied(welcomes, <<>>)
  /\ unregistered' = unregistered \ gone
  /\ clock' = Emptied(ticked, Stopped)
  /\ offered' = Emptied(offered, {})
  /\ UNCHANGED <<groupVars, orderVars>>

\* Mutant: a restart sends the sequenced items again and forgets the welcomes.
RestartWithoutWelcomes ==
  /\ offered' = [i \in Identity |-> IF i \in unregistered THEN {} ELSE PendingHead(pending[i])]
  /\ UNCHANGED <<groupVars, orderVars, pending, welcomes, unregistered, clock>>

\* restart: the state is kept, deliveries under way are not; the head of every
\* queue that is not held is sent again.
Restart ==
  /\ offered' = [i \in Identity |->
                   (IF i \in unregistered THEN {} ELSE PendingHead(pending[i]))
                   \cup WelcomeHead(welcomes[i])]
  /\ UNCHANGED <<groupVars, orderVars, pending, welcomes, unregistered, clock>>

-----------------------------------------------------------------------------
(* The hub in front of members and mailboxes that may do anything: deposit *)
(* for any epoch, acknowledge late, twice or what was never sent.          *)

Epochs == 0 .. MaxEpoch

Deposit ==
  \E g \in Digest, e \in Epochs :
     \/ \E i \in Identity : DepositApplication(i, g, e) \/ DepositProposal(i, g, e)
     \/ /\ e < MaxEpoch
        /\ \E removes \in SUBSET roster, moves \in BOOLEAN :
             \/ \E i \in Identity, adds \in SUBSET Leaf, lapsed \in SUBSET removes :
                   DepositCommit(i, g, e, adds, removes, lapsed, moves)
             \/ \E leaf \in Leaf : DepositExternalCommit(leaf, g, e, removes, moves)

Handover ==
  \/ \E i \in Identity : DepositGroupInfo(i)
  \/ \E i \in Identity, e \in Epochs, view \in SUBSET Leaf, last \in 1 .. MaxSeq :
        e >= epoch /\ Returned(i, e, view, last)

Ack == \E i \in Identity, seq \in 1 .. MaxSeq : AckPending(i, seq) \/ AckWelcome(i, seq)

HubNext == Deposit \/ Handover \/ Ack \/ Advance \/ Restart

HubSpec == HubInit /\ [][HubNext]_hubVars

-----------------------------------------------------------------------------
(* Properties.                                                             *)

\* Every variable keeps its shape.
HubTypeOK ==
  /\ epoch \in Nat
  /\ nextSeq \in 1 .. MaxSeq + 1
  /\ roster \subseteq Leaf
  /\ digests \in [Digest -> 0 .. MaxSeq]
  /\ seqClass \in [1 .. MaxSeq -> Class \cup {"none"}]
  /\ pending \in [Identity -> Seq(1 .. MaxSeq)]
  /\ welcomes \in [Identity -> Seq(1 .. MaxSeq)]
  /\ unregistered \subseteq Identity
  /\ clock \in [Identity -> {Stopped} \cup 0 .. Retention - 1]
  /\ groupInfo \in BOOLEAN
  /\ moved \in BOOLEAN
  /\ offered \in [Identity -> SUBSET [class : Class \cup {"welcome"}, seq : 1 .. MaxSeq]]

\* A queue in sequence order, all of whose numbers are below n.
Ordered(q, n) ==
  /\ \A j, k \in DOMAIN q : j < k => q[j] < q[k]
  /\ \A j \in DOMAIN q : q[j] < n

\* Every mailbox gets its items in sequence order, each once, also when the
\* group has left for another hub and come back (_sequence, _ack, _returned).
QueuesInOrder ==
  \A i \in Identity : Ordered(pending[i], nextSeq) /\ Ordered(welcomes[i], nextSeq)

\* No two items share a number: what was numbered before the group left keeps
\* its numbers to itself when it returns (_returned, digests).
SeqsAreUnique ==
  /\ \A g \in Digest : digests[g] < nextSeq
  /\ \A g, h \in Digest : digests[g] = digests[h] /\ digests[g] # 0 => g = h

\* The retention clock of an identity runs exactly while something is queued
\* for it: nothing is kept without bound, nobody is dropped for being idle.
ClockRunsIffQueued == \A i \in Identity : clock[i] # Stopped <=> Queued(i)

OfferedItems(i) == {d \in offered[i] : d.class # "welcome"}
OfferedWelcomes(i) == {d \in offered[i] : d.class = "welcome"}

\* No queue stalls and nothing overtakes: after every step, restarts included,
\* what is on its way to a mailbox is the head of a queue, and the head of every
\* queue that is not held is on its way, since only its acknowledgement makes
\* the hub send the next one.
HeadsAreOnTheirWay ==
  \A i \in Identity :
     /\ OfferedItems(i) \subseteq PendingHead(pending[i])
     /\ i \notin unregistered => OfferedItems(i) = PendingHead(pending[i])
     /\ OfferedWelcomes(i) = WelcomeHead(welcomes[i])

\* Nothing ordered since an identity was brought in reaches its mailbox before
\* the welcome does: that mailbox would refuse it.  What is under way to a held
\* identity was ordered before its latest welcome, when it still was a member.
\* And the hold ends: there is a welcome whose acknowledgement releases it.
HeldBehindWelcome ==
  \A i \in unregistered :
     /\ welcomes[i] # <<>>
     /\ \A d \in OfferedItems(i) : d.seq < welcomes[i][Len(welcomes[i])]

\* Whoever is a member when an item is ordered gets it, the members a commit
\* removes included, and whoever a commit brings in is welcomed by it and held
\* till then, except the owner of a personal group who lets itself in.
NobodyIsLeftOut ==
  [][digests' # digests =>
       /\ \A i \in Members(roster) : pending'[i] = Append(pending[i], nextSeq)
       /\ \A i \in Members(roster') \ Members(roster) :
            \/ welcomes'[i] = Append(welcomes[i], nextSeq) /\ i \in unregistered'
            \/ i = Owner /\ \E l \in LeavesOf(Leaf, i) : roster' = roster \cup {l}]_hubVars

\* What the mailboxes see of the hub.
Feeds == INSTANCE Feed WITH Mailbox <- Identity, backlog <- pending, last <- nextSeq - 1,
                            sent <- [i \in Identity |-> {d.seq : d \in OfferedItems(i)}]

\* The hub implements the feed: whatever members deposit and mailboxes
\* acknowledge, across commits, holds, restarts, retention and a move, every
\* mailbox is sent its items one at a time and in the order of their numbers.
FeedsAreKept == Feeds!FeedSpec
=============================================================================
