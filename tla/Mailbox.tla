------------------------------- MODULE Mailbox -------------------------------
(***************************************************************************)
(* The mailbox of one identity: class Mailbox of                           *)
(* impl/tools/dsipvec/messaging.py, what it does with the traffic of       *)
(* groups.  A hub deposits what it ordered; the mailbox admits it by the   *)
(* registration of the group, numbers it with a cursor of its own, keeps   *)
(* it and pushes it to the devices that are bound.  A device reads with    *)
(* sync, which also says how far it has got; in queue mode what every      *)
(* registered device has acknowledged is deleted.  When a group moves, the *)
(* old hub's items through the move go before the new hub's, for as long   *)
(* as the mailbox is willing to wait for them.                             *)
(*                                                                         *)
(* An item without a number has seq 0.  The digest of a welcome is the     *)
(* number of the commit it belongs to.  Every item has size 1.  What the   *)
(* mailbox refuses changes nothing and is no step, and an ephemeral item   *)
(* is pushed and forgotten.  A sync that is not live is a Sync followed by *)
(* Unbind.  First contact, KeyPackages and the end of a registration by    *)
(* the owner are not in this module.                                       *)
(***************************************************************************)
EXTENDS Integers, Sequences, FiniteSets, SequencesExt

CONSTANTS Device,        \* the owner's devices
          Group,         \* the groups that may be registered
          HubName,       \* the hubs that may host them
          Quota,         \* quota_bytes, in items
          PendingTtl,    \* pending_group_ttl, in ticks
          PendingMax,    \* pending_group_max_items
          HandoverWait,  \* handover_wait, in ticks
          Limit,         \* the most items in the answer to a sync
          MaxCounter     \* bound: items ever stored

ASSUME MailboxAssumption ==
  /\ {Quota, PendingTtl, PendingMax, HandoverWait, MaxCounter} \subseteq Nat
  /\ Limit \in Nat \ {0}

VARIABLES groups,    \* registered group -> its registration
          items,     \* what is stored
          counter,   \* the last cursor given out
          acks,      \* device -> the cursor it has acknowledged
          devices,   \* the registered devices
          mode,      \* "sync" or "queue"
          archived,  \* <<group, seq>> of the archive records taken
          announced, \* groups for which an expired handover was announced
          bound,     \* devices with a live connection
          stream     \* device -> the items on their way to it on that connection

mailboxVars == <<groups, items, counter, acks, devices, mode, archived, announced, bound, stream>>
deviceVars == <<acks, devices, mode, bound>>

-----------------------------------------------------------------------------
(* Registrations.                                                          *)

Waiting == -1
NoPrevious == [hub |-> "none", through |-> 0, waited |-> 0, released |-> Waiting, late |-> {}]

Registration(hub, state) ==
  [hub |-> hub, state |-> state, age |-> 0, stored |-> 0, high |-> 0, prev |-> NoPrevious]

Registered(g, r) == [x \in DOMAIN groups \cup {g} |-> IF x = g THEN r ELSE groups[x]]
Dropped(gone) == [x \in DOMAIN groups \ gone |-> groups[x]]

\* The group has moved, and h is the hub it moved from.
FromPrevious(r, h) == r.prev.hub = h /\ r.hub # h

\* Items of the previous hub are missing and have not been given up.
Awaited(r) == r.high < r.prev.through /\ r.prev.released = Waiting

\* The new hub has to wait for them.
HeldOff(r) == Awaited(r) /\ r.prev.waited < HandoverWait

\* A deposit of the new hub when the wait is over gives the missing items up.
Noticed(r, h) ==
  IF r.hub = h /\ Awaited(r) THEN [r EXCEPT !.prev.released = r.high, !.prev.late = {}] ELSE r

\* M 6.6 and M 7.4: who may deposit which numbers.
Admits(r, h, seq) ==
  \/ FromPrevious(r, h) /\ seq \in 1 .. r.prev.through
  \/ /\ r.hub = h
     /\ ~HeldOff(r)
     /\ r.prev = NoPrevious \/ seq = 0 \/ seq > r.prev.through

\* Mutant: what the previous hub delivers after the wait is never late.
NothingIsLate(r, h, seq) == FALSE

\* An item of the previous hub that was given up and comes after all.
Late(r, h, seq) ==
  /\ FromPrevious(r, h)
  /\ r.prev.released # Waiting
  /\ seq > r.prev.released
  /\ seq \notin r.prev.late

\* The hub delivers in order, so a number not above the highest stored one has
\* been stored already.
Redelivered(r, h, seq) == seq # 0 /\ seq <= r.high /\ ~Late(r, h, seq)

Full(r) == r.state = "pending" /\ r.stored >= PendingMax
OverQuota == Cardinality(items) >= Quota

-----------------------------------------------------------------------------
(* Storing and reading.                                                    *)

Item(n, class, g, seq) == [n |-> n, class |-> class, group |-> g, seq |-> seq]

\* _store: a group has one group-info, the latest; every bound device but the
\* depositor's is pushed the item.
Store(class, g, seq, depositor) ==
  LET item == Item(counter + 1, class, g, seq) IN
  /\ counter < MaxCounter
  /\ counter' = counter + 1
  /\ items' = {item} \cup {it \in items : ~(class = "group-info" /\ it.class = class /\ it.group = g)}
  /\ stream' = [d \in Device |-> IF d \in bound \ depositor THEN Append(stream[d], item) ELSE stream[d]]

\* The i-th oldest of some items.
Oldest(avail, i) == CHOOSE it \in avail : Cardinality({jt \in avail : jt.n <= it.n}) = i

\* What a sync from a cursor is answered with, from the items that are there.
Page(kept, since) ==
  LET avail == {it \in kept : it.n > since}
  IN [i \in 1 .. Min({Limit, Cardinality(avail)}) |-> Oldest(avail, i)]

\* Mutant: one acknowledgement is enough.
AckedByAny(n) == \E d \in devices : acks'[d] >= n

AckedByAll(n) == \A d \in devices : acks'[d] >= n

Sync(d, since, through) ==
  LET kept == IF mode = "queue" THEN {it \in items : ~AckedByAll(it.n)} ELSE items IN
  /\ {since, through} \subseteq 0 .. counter
  /\ mode = "queue" => devices # {}
  /\ acks' = [acks EXCEPT ![d] = IF through > @ THEN through ELSE @]
  /\ items' = kept
  /\ bound' = bound \cup {d}
  /\ stream' = [stream EXCEPT ![d] = @ \o Page(kept, since)]
  /\ UNCHANGED <<groups, counter, devices, mode, archived, announced>>

\* The connection of d ends, and what was on its way is lost with it.
Unbind(d) ==
  /\ d \in bound
  /\ bound' = bound \ {d}
  /\ stream' = [stream EXCEPT ![d] = <<>>]
  /\ UNCHANGED <<groups, items, counter, acks, devices, mode, archived, announced>>

-----------------------------------------------------------------------------
(* Deposits.                                                               *)

\* A welcome from somebody the owner admits, or for a successor of a group that
\* is registered, registers its group until a device confirms it.
Welcome(g, h, digest, granted, predecessor) ==
  /\ granted \/ predecessor \in DOMAIN groups
  /\ ~\E it \in items : it.class = "welcome" /\ it.group = g /\ it.seq = digest
  /\ ~OverQuota
  /\ groups' = IF g \in DOMAIN groups THEN groups ELSE Registered(g, Registration(h, "pending"))
  /\ Store("welcome", g, digest, {})
  /\ UNCHANGED <<deviceVars, archived, announced>>

\* What hub h has ordered for g, or its group-info, is stored.
HubDeposit(g, h, class, seq) ==
  /\ g \in DOMAIN groups
  /\ Admits(groups[g], h, seq)
  /\ ~Redelivered(groups[g], h, seq)
  /\ ~Full(groups[g])
  /\ ~OverQuota
  /\ LET late == Late(groups[g], h, seq)
         r == Noticed(groups[g], h)
     IN groups' = [groups EXCEPT ![g] =
                     [r EXCEPT !.stored = @ + 1,
                               !.high = IF late \/ seq = 0 THEN @ ELSE seq,
                               !.prev.late = IF late THEN @ \cup {seq} ELSE @]]
  /\ announced' = announced \cup {x \in {g} : groups[g].hub = h /\ Awaited(groups[g])}
  /\ Store(class, g, seq, {})
  /\ UNCHANGED <<deviceVars, archived>>

\* A deposit of the new hub that is not stored, because it is ephemeral, numbered
\* too low or over a limit, ends the wait as one that is.
HubDepositNotStored(g, h) ==
  /\ g \in DOMAIN groups
  /\ groups[g].hub = h
  /\ Awaited(groups[g]) /\ ~HeldOff(groups[g])
  /\ groups' = [groups EXCEPT ![g] = Noticed(@, h)]
  /\ announced' = announced \cup {g}
  /\ UNCHANGED <<items, counter, deviceVars, archived, stream>>

\* A hub's try that is acknowledged as a duplicate: nothing is stored.
Duplicate(g, h, seq) ==
  /\ g \in DOMAIN groups
  /\ Admits(groups[g], h, seq)
  /\ Redelivered(groups[g], h, seq)

\* One record for each item of a group, and none in queue mode.
Archive(d, g, seq) ==
  /\ mode # "queue"
  /\ <<g, seq>> \notin archived
  /\ ~OverQuota
  /\ archived' = archived \cup {<<g, seq>>}
  /\ Store("archive", g, seq, {d})
  /\ UNCHANGED <<groups, deviceVars, announced>>

-----------------------------------------------------------------------------
(* mailbox-config, the clock, a restart.                                   *)

ConfigVars == <<items, counter, acks, archived, announced>>

\* Mutant: what the hub before still has to deliver is not waited for.
MoveWithoutWait(g, h, handover) ==
  /\ g \in DOMAIN groups
  /\ groups[g].hub # h
  /\ groups' = [groups EXCEPT ![g] =
                  [@ EXCEPT !.state = "joined", !.age = 0, !.hub = h,
                            !.prev = [NoPrevious EXCEPT !.hub = groups[g].hub, !.through = handover,
                                                        !.released = groups[g].high]]]
  /\ UNCHANGED <<ConfigVars, deviceVars, stream>>

\* The group has moved to hub h by the item numbered handover; what the hub
\* before it ordered up to there is still to come.
MoveTo(g, h, handover) ==
  /\ g \in DOMAIN groups
  /\ groups[g].hub # h
  /\ groups' = [groups EXCEPT ![g] =
                  [@ EXCEPT !.state = "joined", !.age = 0, !.hub = h,
                            !.prev = [NoPrevious EXCEPT !.hub = groups[g].hub, !.through = handover]]]
  /\ UNCHANGED <<ConfigVars, deviceVars, stream>>

\* A device confirms the group.
Joined(g) ==
  /\ g \in DOMAIN groups
  /\ groups' = [groups EXCEPT ![g].state = "joined", ![g].age = 0]
  /\ UNCHANGED <<ConfigVars, deviceVars, stream>>

SetMode(m) ==
  /\ mode # m
  /\ mode' = m
  /\ UNCHANGED <<groups, ConfigVars, devices, bound, stream>>

\* A revoked device is not waited for, and not served.
RevokeDevice(d) ==
  /\ d \in devices
  /\ devices' = devices \ {d}
  /\ bound' = bound \ {d}
  /\ stream' = [stream EXCEPT ![d] = <<>>]
  /\ UNCHANGED <<groups, ConfigVars, mode>>

Tick(n, limit) == IF n < limit THEN n + 1 ELSE n

\* Time passes: a pending group nobody confirmed is dropped, and its items.
MailboxAdvance ==
  LET gone == {g \in DOMAIN groups : groups[g].state = "pending" /\ groups[g].age = PendingTtl} IN
  /\ groups' = [g \in DOMAIN groups \ gone |->
                  [groups[g] EXCEPT !.age = IF groups[g].state = "pending" THEN Tick(@, PendingTtl) ELSE @,
                                    !.prev.waited = IF groups[g].prev = NoPrevious THEN @ ELSE Tick(@, HandoverWait)]]
  /\ items' = {it \in items : it.group \notin gone \/ it.class = "archive"}
  /\ UNCHANGED <<counter, deviceVars, archived, announced, stream>>

\* Everything but the connections survives.
MailboxRestart ==
  /\ bound' = {}
  /\ stream' = [d \in Device |-> <<>>]
  /\ UNCHANGED <<groups, items, counter, acks, devices, mode, archived, announced>>
=============================================================================
