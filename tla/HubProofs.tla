------------------------------ MODULE HubProofs ------------------------------
(***************************************************************************)
(* Proofs about Hub: its queues for every set of identities, leaves and    *)
(* digests and every bound.                                                *)
(***************************************************************************)
EXTENDS Hub, SequenceTheorems, TLAPS

\* Every number in a pending queue has a class to be sent with.
ClassesKnown ==
  \A i \in Identity : \A j \in DOMAIN pending[i] : seqClass[pending[i][j]] \in Class

\* The inductive invariant: the parts need each other.  A number is fresh for
\* every queue because all queues are below nextSeq; the next head is sent with
\* a class because it has one; a hold is lifted because there is a welcome; and
\* what was under way to an identity when it became held is its old head.
HubInv ==
  /\ HubTypeOK
  /\ QueuesInOrder
  /\ ClassesKnown
  /\ ClockRunsIffQueued
  /\ HeadsAreOnTheirWay
  /\ HeldBehindWelcome

-----------------------------------------------------------------------------
(* Facts about queues.                                                     *)

LastOf(q) == q[Len(q)]

\* A new number at the end of a queue.
LEMMA AppendQueue ==
  ASSUME NEW M \in Nat, NEW q \in Seq(1 .. M), NEW n \in 1 .. M, Ordered(q, n)
  PROVE  /\ Append(q, n) \in Seq(1 .. M)
         /\ Append(q, n) # <<>>
         /\ Ordered(Append(q, n), n + 1)
         /\ LastOf(Append(q, n)) = n
         /\ Head(Append(q, n)) = IF q = <<>> THEN n ELSE Head(q)
         /\ \A j \in DOMAIN Append(q, n) :
               Append(q, n)[j] = n \/ \E k \in DOMAIN q : Append(q, n)[j] = q[k]
<1> DEFINE r == Append(q, n)
<1>1. /\ r \in Seq(1 .. M)
      /\ r # <<>>
      /\ Len(r) = Len(q) + 1
      /\ \A j \in 1 .. Len(q) : r[j] = q[j]
      /\ r[Len(q) + 1] = n
  BY AppendProperties
<1>2. /\ Len(q) \in Nat
      /\ DOMAIN q = 1 .. Len(q)
      /\ DOMAIN r = 1 .. Len(q) + 1
      /\ \A j \in 1 .. Len(q) : q[j] \in 1 .. M
  BY <1>1, LenProperties, ElementOfSeq
<1>3. Head(r) = IF q = <<>> THEN n ELSE Head(q)
  BY HeadTailAppend
<1> HIDE DEF r
<1>4. Ordered(r, n + 1)
  <2>1. ASSUME NEW j \in 1 .. Len(q) + 1 PROVE r[j] \in 1 .. M /\ r[j] < n + 1
    BY SMTT(30), <1>1, <1>2 DEF Ordered
  <2>2. ASSUME NEW j \in 1 .. Len(q) + 1, NEW k \in 1 .. Len(q) + 1, j < k PROVE r[j] < r[k]
    <3>1. j \in 1 .. Len(q) /\ r[j] = q[j]
      BY <2>2, <1>1, <1>2
    <3>2. CASE k = Len(q) + 1
      BY <3>1, <3>2, <1>1, <1>2 DEF Ordered
    <3>3. CASE k \in 1 .. Len(q)
      BY <2>2, <3>1, <3>3, <1>1, <1>2 DEF Ordered
    <3> QED BY <3>2, <3>3, <1>2
  <2> QED BY <1>2, <2>1, <2>2 DEF Ordered
<1>5. \A j \in DOMAIN r : r[j] = n \/ \E k \in DOMAIN q : r[j] = q[k]
  BY <1>1, <1>2
<1>6. LastOf(r) = n
  BY <1>1, <1>2 DEF LastOf
<1> QED
  BY <1>1, <1>3, <1>4, <1>5, <1>6 DEF r

\* A queue that loses its head.
LEMMA TailQueue ==
  ASSUME NEW M \in Nat, NEW n \in Nat, NEW q \in Seq(1 .. M), q # <<>>, Ordered(q, n)
  PROVE  /\ Tail(q) \in Seq(1 .. M)
         /\ Ordered(Tail(q), n)
         /\ Tail(q) # <<>> => LastOf(Tail(q)) = LastOf(q)
         /\ \A j \in DOMAIN Tail(q) : \E k \in DOMAIN q : Tail(q)[j] = q[k]
<1> DEFINE r == Tail(q)
<1>1. /\ r \in Seq(1 .. M)
      /\ Len(r) = Len(q) - 1
      /\ \A j \in 1 .. Len(r) : r[j] = q[j + 1]
  BY HeadTailProperties
<1>2. /\ Len(q) \in Nat
      /\ DOMAIN q = 1 .. Len(q)
      /\ DOMAIN r = 1 .. Len(r)
      /\ \A j \in 1 .. Len(q) : q[j] \in 1 .. M
      /\ r # <<>> => Len(r) \in Nat \ {0}
      /\ Len(r) \in Nat
  BY <1>1, LenProperties, ElementOfSeq, EmptySeq
<1> HIDE DEF r
<1>3. Ordered(r, n)
  <2>1. ASSUME NEW j \in 1 .. Len(r) PROVE j + 1 \in DOMAIN q /\ r[j] = q[j + 1]
    BY <1>1, <1>2
  <2>2. ASSUME NEW j \in 1 .. Len(r), NEW k \in 1 .. Len(r), j < k PROVE r[j] < r[k]
    <3>1. /\ j + 1 \in DOMAIN q /\ k + 1 \in DOMAIN q /\ j + 1 < k + 1
          /\ r[j] = q[j + 1] /\ r[k] = q[k + 1]
      BY <2>1, <2>2, <1>2
    <3> QED BY <3>1 DEF Ordered
  <2> QED BY <1>2, <2>1, <2>2 DEF Ordered
<1>4. \A j \in DOMAIN r : \E k \in DOMAIN q : r[j] = q[k]
  <2> TAKE j \in DOMAIN r
  <2>1. j \in 1 .. Len(r) /\ Len(r) = Len(q) - 1 /\ Len(q) \in Nat
    BY <1>1, <1>2
  <2>2. j + 1 \in 1 .. Len(q)
    BY <2>1
  <2>3. j + 1 \in DOMAIN q /\ r[j] = q[j + 1]
    BY <1>1, <1>2, <2>1, <2>2
  <2> QED BY <2>3
<1>5. r # <<>> => LastOf(r) = LastOf(q)
  BY <1>1, <1>2 DEF LastOf
<1> QED
  BY <1>1, <1>3, <1>4, <1>5 DEF r

\* The head and the last number of a queue that is not empty.
LEMMA HeadQueue ==
  ASSUME NEW M \in Nat, NEW n \in Nat, NEW q \in Seq(1 .. M), q # <<>>, Ordered(q, n)
  PROVE  /\ 1 \in DOMAIN q
         /\ Head(q) = q[1]
         /\ Head(q) \in 1 .. M
         /\ Head(q) < n
         /\ LastOf(q) \in 1 .. M
         /\ LastOf(q) < n
<1>1. /\ Len(q) \in Nat \ {0}
      /\ DOMAIN q = 1 .. Len(q)
      /\ \A j \in 1 .. Len(q) : q[j] \in 1 .. M
  BY LenProperties, ElementOfSeq, EmptySeq
<1>2. Head(q) = q[1]
  BY <1>1
<1> QED
  BY <1>1, <1>2 DEF Ordered, LastOf

-----------------------------------------------------------------------------
(* One identity's part of the invariant.                                   *)

QueueInv(i) ==
  /\ Ordered(pending[i], nextSeq) /\ Ordered(welcomes[i], nextSeq)
  /\ \A j \in DOMAIN pending[i] : seqClass[pending[i][j]] \in Class
  /\ clock[i] # Stopped <=> Queued(i)
  /\ i \in unregistered => welcomes[i] # <<>>
  /\ OfferedItems(i) \subseteq PendingHead(pending[i])
  /\ i \notin unregistered => OfferedItems(i) = PendingHead(pending[i])
  /\ OfferedWelcomes(i) = WelcomeHead(welcomes[i])
  /\ i \in unregistered =>
       \A d \in OfferedItems(i) : d.seq < welcomes[i][Len(welcomes[i])]

\* The invariant is its type and one such part for every identity.
LEMMA HubInvByIdentity == HubInv <=> HubTypeOK /\ \A i \in Identity : QueueInv(i)
<1>1. HubTypeOK => unregistered \subseteq Identity
  BY DEF HubTypeOK
<1> QED
  BY <1>1 DEF HubInv, QueueInv, QueuesInOrder, ClassesKnown, ClockRunsIffQueued,
              HeadsAreOnTheirWay, HeldBehindWelcome

\* The initial state.
LEMMA HubInitInv == HubInit => HubInv
<1> SUFFICES ASSUME HubInit PROVE HubInv
  OBVIOUS
<1>1. HubTypeOK
  <2>1. /\ pending \in [Identity -> Seq(1 .. MaxSeq)]
        /\ welcomes \in [Identity -> Seq(1 .. MaxSeq)]
    BY EmptySeq DEF HubInit
  <2>2. moved \in BOOLEAN /\ groupInfo \in BOOLEAN
    BY DEF HubInit
  <2>3. /\ epoch \in Nat
        /\ nextSeq \in 1 .. MaxSeq + 1
        /\ digests \in [Digest -> 0 .. MaxSeq]
        /\ clock \in [Identity -> {Stopped} \cup 0 .. Retention - 1]
    BY BoundAssumption DEF HubInit
  <2>4. /\ seqClass \in [1 .. MaxSeq -> Class \cup {"none"}]
        /\ offered \in [Identity -> SUBSET [class : Class \cup {"welcome"}, seq : 1 .. MaxSeq]]
        /\ unregistered \subseteq Identity
        /\ roster \subseteq Leaf
    BY GroupAssumption DEF HubInit
  <2> QED
    BY <2>1, <2>2, <2>3, <2>4 DEF HubTypeOK
<1>2. ASSUME NEW i \in Identity PROVE QueueInv(i)
  <2>1. /\ pending[i] = <<>> /\ welcomes[i] = <<>> /\ offered[i] = {}
        /\ unregistered = {} /\ clock[i] = Stopped
    BY DEF HubInit
  <2> QED
    BY <2>1 DEF QueueInv, Ordered, Queued, OfferedItems, OfferedWelcomes, PendingHead, WelcomeHead
<1> QED
  BY <1>1, <1>2, HubInvByIdentity

-----------------------------------------------------------------------------
(* Every step preserves the invariant.                                     *)

\* What sequencing an item does to the queue, the clock and the deliveries of
\* one identity that is welcomed by the step or not.
LEMMA SequenceKeepsQueue ==
  ASSUME HubTypeOK, NEW i \in Identity, QueueInv(i),
         NEW g \in Digest, NEW class \in Class, NEW targets \in SUBSET Identity,
         NEW gained \in SUBSET Identity,
         Sequence(g, class, targets),
         unregistered' = unregistered \cup (gained \ targets),
         welcomes' = AppendedFor(welcomes, gained, nextSeq),
         clock' = ClocksStartedFor(targets \cup gained),
         offered'[i] = offered[i]
           \cup {d \in {Delivery(class, nextSeq)} : i \in SentAtOnce(targets)}
           \cup {d \in {Delivery("welcome", nextSeq)} : i \in gained /\ welcomes[i] = <<>>}
  PROVE  QueueInv(i)'
<1>1. /\ nextSeq \in 1 .. MaxSeq /\ nextSeq' = nextSeq + 1 /\ MaxSeq \in Nat
      /\ pending[i] \in Seq(1 .. MaxSeq) /\ welcomes[i] \in Seq(1 .. MaxSeq)
      /\ seqClass' = [seqClass EXCEPT ![nextSeq] = class]
      /\ seqClass \in [1 .. MaxSeq -> Class \cup {"none"}]
      /\ offered[i] \subseteq [class : Class \cup {"welcome"}, seq : 1 .. MaxSeq]
  BY BoundAssumption DEF HubTypeOK, Sequence
<1>2. /\ pending'[i] = IF i \in targets THEN Append(pending[i], nextSeq) ELSE pending[i]
      /\ welcomes'[i] = IF i \in gained THEN Append(welcomes[i], nextSeq) ELSE welcomes[i]
      /\ clock'[i] = IF i \in targets \cup gained /\ clock[i] = Stopped THEN 0 ELSE clock[i]
      /\ i \in unregistered' <=> i \in unregistered \/ (i \in gained /\ i \notin targets)
  BY DEF Sequence, AppendedFor, ClocksStartedFor
<1>3. /\ Ordered(pending[i], nextSeq) /\ Ordered(welcomes[i], nextSeq)
      /\ Ordered(pending[i], nextSeq + 1) /\ Ordered(welcomes[i], nextSeq + 1)
      /\ \A j \in DOMAIN pending[i] : /\ pending[i][j] \in 1 .. MaxSeq
                                      /\ pending[i][j] < nextSeq
                                      /\ seqClass'[pending[i][j]] = seqClass[pending[i][j]]
  <2>1. /\ DOMAIN pending[i] = 1 .. Len(pending[i]) /\ DOMAIN welcomes[i] = 1 .. Len(welcomes[i])
        /\ \A j \in DOMAIN pending[i] : pending[i][j] \in 1 .. MaxSeq
        /\ \A j \in DOMAIN welcomes[i] : welcomes[i][j] \in 1 .. MaxSeq
    BY <1>1, LenProperties, ElementOfSeq
  <2>2. Ordered(pending[i], nextSeq) /\ Ordered(welcomes[i], nextSeq)
    BY DEF QueueInv
  <2> QED
    BY SMTT(30), <1>1, <2>1, <2>2 DEF Ordered
<1>app. \A q \in {pending[i], welcomes[i]} :
          /\ Append(q, nextSeq) # <<>>
          /\ Ordered(Append(q, nextSeq), nextSeq + 1)
          /\ LastOf(Append(q, nextSeq)) = nextSeq
          /\ Head(Append(q, nextSeq)) = IF q = <<>> THEN nextSeq ELSE Head(q)
          /\ \A j \in DOMAIN Append(q, nextSeq) :
               \/ Append(q, nextSeq)[j] = nextSeq
               \/ \E k \in DOMAIN q : Append(q, nextSeq)[j] = q[k]
  <2> TAKE q \in {pending[i], welcomes[i]}
  <2>1. q \in Seq(1 .. MaxSeq) /\ Ordered(q, nextSeq)
    BY <1>1, <1>3
  <2>2. nextSeq \in 1 .. MaxSeq /\ MaxSeq \in Nat
    BY <1>1
  <2>3. /\ Append(q, nextSeq) # <<>>
        /\ Ordered(Append(q, nextSeq), nextSeq + 1)
        /\ LastOf(Append(q, nextSeq)) = nextSeq
    BY <2>1, <2>2, AppendQueue
  <2>4. Head(Append(q, nextSeq)) = IF q = <<>> THEN nextSeq ELSE Head(q)
    BY <2>1, <2>2, AppendQueue
  <2>5. \A j \in DOMAIN Append(q, nextSeq) :
               \/ Append(q, nextSeq)[j] = nextSeq
               \/ \E k \in DOMAIN q : Append(q, nextSeq)[j] = q[k]
    BY <2>1, <2>2, AppendQueue
  <2> QED BY <2>3, <2>4, <2>5
<1>4. Ordered(pending'[i], nextSeq') /\ Ordered(welcomes'[i], nextSeq')
  BY <1>1, <1>2, <1>3, <1>app
<1>5. \A j \in DOMAIN pending'[i] : seqClass'[pending'[i][j]] \in Class
  <2>1. CASE i \in targets
    <3>1. \A j \in DOMAIN pending'[i] :
             pending'[i][j] = nextSeq \/ \E k \in DOMAIN pending[i] : pending'[i][j] = pending[i][k]
      <4>1. pending'[i] = Append(pending[i], nextSeq)
        BY <1>2, <2>1
      <4>2. \A j \in DOMAIN Append(pending[i], nextSeq) :
               \/ Append(pending[i], nextSeq)[j] = nextSeq
               \/ \E k \in DOMAIN pending[i] : Append(pending[i], nextSeq)[j] = pending[i][k]
        BY <1>app
      <4> QED BY Zenon, <4>1, <4>2
    <3>2. seqClass'[nextSeq] \in Class
      BY <1>1
    <3> QED BY <3>1, <3>2, <1>3 DEF QueueInv
  <2>2. CASE i \notin targets
    BY <2>2, <1>2, <1>3 DEF QueueInv
  <2> QED BY <2>1, <2>2
<1>6. clock'[i] # Stopped <=> pending'[i] # <<>> \/ welcomes'[i] # <<>>
  <2>1. i \in targets => pending'[i] # <<>>
    BY <1>2, <1>3, <1>app
  <2>2. i \in gained => welcomes'[i] # <<>>
    BY <1>2, <1>3, <1>app
  <2> QED BY <1>2, <2>1, <2>2 DEF QueueInv, Queued, Stopped
<1>7. i \in unregistered' => welcomes'[i] # <<>>
  BY <1>2, <1>app DEF QueueInv
<1>8. OfferedWelcomes(i)' = WelcomeHead(welcomes'[i])
  <2>1. OfferedWelcomes(i)' = OfferedWelcomes(i)
           \cup (IF i \in gained /\ welcomes[i] = <<>> THEN {Delivery("welcome", nextSeq)} ELSE {})
    BY DEF OfferedWelcomes, Delivery, Class
  <2>2. i \in gained => welcomes'[i] # <<>> /\ Head(welcomes'[i]) =
           IF welcomes[i] = <<>> THEN nextSeq ELSE Head(welcomes[i])
    BY <1>2, <1>3, <1>app
  <2> QED BY <1>2, <2>1, <2>2 DEF QueueInv, WelcomeHead
<1>9. OfferedItems(i)' = OfferedItems(i)
         \cup (IF i \in SentAtOnce(targets) THEN {Delivery(class, nextSeq)} ELSE {})
  BY DEF OfferedItems, Delivery, Class
<1>10. /\ OfferedItems(i)' \subseteq PendingHead(pending[i])'
       /\ i \notin unregistered' => OfferedItems(i)' = PendingHead(pending[i])'
  <2>1. i \in targets => pending'[i] # <<>> /\ Head(pending'[i]) =
           IF pending[i] = <<>> THEN nextSeq ELSE Head(pending[i])
    BY <1>2, <1>3, <1>app
  <2>2. pending[i] # <<>> => seqClass'[Head(pending[i])] = seqClass[Head(pending[i])]
    BY <1>1, <1>3, HeadQueue
  <2>3. seqClass'[nextSeq] = class
    BY <1>1
  <2> QED BY <1>2, <1>9, <2>1, <2>2, <2>3 DEF QueueInv, PendingHead, SentAtOnce
<1>11. ASSUME i \in unregistered', NEW d \in OfferedItems(i)' PROVE d.seq < LastOf(welcomes'[i])
  <2>1. d \in OfferedItems(i)
    BY <1>2, <1>9, <1>11 DEF SentAtOnce
  <2>2. d.seq < nextSeq
    <3>1. CASE i \in unregistered
      <4>1. LastOf(welcomes[i]) \in 1 .. MaxSeq /\ LastOf(welcomes[i]) < nextSeq
        <5>1. welcomes[i] # <<>>
          BY <3>1 DEF QueueInv
        <5> QED BY <1>1, <1>3, <5>1, HeadQueue
      <4>2. d.seq \in 1 .. MaxSeq
        BY <1>1, <2>1 DEF OfferedItems
      <4>3. d.seq < LastOf(welcomes[i])
        BY <2>1, <3>1 DEF QueueInv, LastOf
      <4> QED BY <1>1, <4>1, <4>2, <4>3
    <3>2. CASE i \notin unregistered
      <4>1. pending[i] # <<>> /\ d.seq = Head(pending[i])
        BY <2>1, <3>2 DEF QueueInv, PendingHead, Delivery
      <4> QED BY <1>1, <1>3, <4>1, HeadQueue
    <3> QED BY <3>1, <3>2
  <2>3. CASE i \in gained
    <3>1. LastOf(welcomes'[i]) = nextSeq
      BY <1>1, <1>2, <2>3, <1>app
    <3> QED BY <2>2, <3>1
  <2>4. CASE i \notin gained
    BY <1>2, <1>11, <2>1, <2>4 DEF QueueInv, LastOf
  <2> QED BY <2>3, <2>4
<1> QED
  BY <1>4, <1>5, <1>6, <1>7, <1>8, <1>10, <1>11 DEF QueueInv, Queued, WelcomeHead, LastOf

\* The members of a set of leaves are identities.
LEMMA MembersAreIdentities ==
  ASSUME NEW leaves \in SUBSET Leaf PROVE Members(leaves) \subseteq Identity
  BY GroupAssumption DEF Members

\* Sequencing an item preserves the invariant.
LEMMA SequencedInv ==
  ASSUME HubInv,
         NEW g \in Digest, NEW class \in Class, NEW targets \in SUBSET Identity,
         NEW gained \in SUBSET Identity,
         Sequence(g, class, targets),
         unregistered' = unregistered \cup (gained \ targets),
         welcomes' = AppendedFor(welcomes, gained, nextSeq),
         clock' = ClocksStartedFor(targets \cup gained),
         offered' = [i \in Identity |-> offered[i]
           \cup {d \in {Delivery(class, nextSeq)} : i \in SentAtOnce(targets)}
           \cup {d \in {Delivery("welcome", nextSeq)} : i \in gained /\ welcomes[i] = <<>>}],
         epoch' \in Nat, roster' \subseteq Leaf, moved' \in BOOLEAN, groupInfo' \in BOOLEAN
  PROVE  HubInv'
<1>1. HubTypeOK /\ \A i \in Identity : QueueInv(i)
  BY HubInvByIdentity
<1>2. ASSUME NEW i \in Identity PROVE QueueInv(i)'
  <2>1. offered'[i] = offered[i]
           \cup {d \in {Delivery(class, nextSeq)} : i \in SentAtOnce(targets)}
           \cup {d \in {Delivery("welcome", nextSeq)} : i \in gained /\ welcomes[i] = <<>>}
    OBVIOUS
  <2> QED BY <1>1, <2>1, SequenceKeepsQueue
<1>3. HubTypeOK'
  <2>1. /\ nextSeq \in 1 .. MaxSeq /\ MaxSeq \in Nat /\ Retention \in Nat \ {0}
        /\ nextSeq' = nextSeq + 1
    BY <1>1, BoundAssumption DEF HubTypeOK, Sequence
  <2>2. nextSeq' \in 1 .. MaxSeq + 1 /\ digests' \in [Digest -> 0 .. MaxSeq]
    BY <1>1, <2>1 DEF HubTypeOK, Sequence
  <2>3. seqClass' \in [1 .. MaxSeq -> Class \cup {"none"}]
    BY <1>1, <2>1 DEF HubTypeOK, Sequence
  <2>4. ASSUME NEW queue \in [Identity -> Seq(1 .. MaxSeq)], NEW who
        PROVE  AppendedFor(queue, who, nextSeq) \in [Identity -> Seq(1 .. MaxSeq)]
    BY <2>1, AppendProperties DEF AppendedFor
  <2>5. /\ pending' \in [Identity -> Seq(1 .. MaxSeq)]
        /\ welcomes' \in [Identity -> Seq(1 .. MaxSeq)]
    BY <1>1, <2>4 DEF HubTypeOK, Sequence
  <2>6. clock' \in [Identity -> {Stopped} \cup 0 .. Retention - 1]
    BY <1>1, <2>1 DEF HubTypeOK, ClocksStartedFor, Stopped
  <2>7. offered' \in [Identity -> SUBSET [class : Class \cup {"welcome"}, seq : 1 .. MaxSeq]]
    BY <1>1, <2>1 DEF HubTypeOK, Delivery
  <2>8. unregistered' \subseteq Identity
    BY <1>1 DEF HubTypeOK
  <2> QED
    BY <2>2, <2>3, <2>5, <2>6, <2>7, <2>8 DEF HubTypeOK
<1> QED
  <2>1. (HubTypeOK /\ \A i \in Identity : QueueInv(i))'
    BY <1>2, <1>3
  <2> QED BY <2>1, HubInvByIdentity, PTL

\* An item sequenced for every member preserves the invariant.
LEMMA SequenceToAllInv ==
  ASSUME HubInv, NEW g \in Digest, NEW class \in Class, SequenceToAll(g, class) PROVE HubInv'
<1> DEFINE T == Members(roster)
<1>1. HubTypeOK /\ T \in SUBSET Identity
  BY MembersAreIdentities DEF HubInv, HubTypeOK
<1>2. /\ Sequence(g, class, T)
      /\ clock' = ClocksStartedFor(T \cup {})
      /\ UNCHANGED <<groupVars, welcomes, unregistered>>
      /\ offered' = [i \in Identity |->
                       IF i \in SentAtOnce(T)
                       THEN offered[i] \cup {Delivery(class, nextSeq)} ELSE offered[i]]
  BY DEF SequenceToAll
<1>3. unregistered' = unregistered \cup ({} \ T)
  BY <1>2
<1>4. welcomes' = AppendedFor(welcomes, {}, nextSeq)
  BY <1>1, <1>2 DEF HubTypeOK, AppendedFor
<1>5. offered' = [i \in Identity |-> offered[i]
           \cup {d \in {Delivery(class, nextSeq)} : i \in SentAtOnce(T)}
           \cup {d \in {Delivery("welcome", nextSeq)} : i \in {} /\ welcomes[i] = <<>>}]
  BY <1>2
<1>6. epoch' \in Nat /\ roster' \subseteq Leaf /\ moved' \in BOOLEAN /\ groupInfo' \in BOOLEAN
  BY <1>1, <1>2 DEF HubTypeOK, groupVars
<1> HIDE DEF T
<1> QED
  BY <1>1, <1>2, <1>3, <1>4, <1>5, <1>6, SequencedInv

\* A commit preserves the invariant, whoever it adds and removes.
LEMMA ApplyCommitInv ==
  ASSUME HubInv, NEW g \in Digest, NEW adds \in SUBSET Leaf, NEW removes, NEW moves \in BOOLEAN,
         NEW gained \in SUBSET Identity, ApplyCommit(g, adds, removes, moves, gained)
  PROVE  HubInv'
<1> DEFINE T == Members(roster)
<1>1. HubTypeOK /\ T \in SUBSET Identity /\ "handshake" \in Class
  BY MembersAreIdentities DEF HubInv, HubTypeOK, Class
<1>2. /\ Sequence(g, "handshake", T)
      /\ unregistered' = unregistered \cup (gained \ T)
      /\ welcomes' = AppendedFor(welcomes, gained, nextSeq)
      /\ clock' = ClocksStartedFor(T \cup gained)
      /\ offered' = [i \in Identity |-> offered[i]
           \cup {d \in {Delivery("handshake", nextSeq)} : i \in SentAtOnce(T)}
           \cup {d \in {Delivery("welcome", nextSeq)} : i \in gained /\ welcomes[i] = <<>>}]
  BY DEF ApplyCommit
<1>3. epoch' \in Nat /\ roster' \subseteq Leaf
  BY <1>1 DEF HubTypeOK, ApplyCommit
<1>4. moved' \in BOOLEAN /\ groupInfo' \in BOOLEAN
  BY <1>1 DEF HubTypeOK, ApplyCommit
<1> HIDE DEF T
<1> QED
  BY <1>1, <1>2, <1>3, <1>4, SequencedInv

\* A GroupInfo changes no queue.
LEMMA DepositGroupInfoInv ==
  ASSUME HubInv, NEW i \in Identity, DepositGroupInfo(i) PROVE HubInv'
<1>1. HubTypeOK'
  BY DEF HubInv, HubTypeOK, DepositGroupInfo, orderVars, queueVars
<1> QED
  BY <1>1 DEF HubInv, DepositGroupInfo, orderVars, queueVars, QueuesInOrder, ClassesKnown,
       ClockRunsIffQueued, Queued, HeadsAreOnTheirWay, OfferedItems,
       OfferedWelcomes, PendingHead, WelcomeHead, HeldBehindWelcome

\* The group returns with a higher number to go on from; the queues stay.
LEMMA ReturnedInv ==
  ASSUME HubInv, NEW i \in Identity, NEW e \in Nat, NEW view \in SUBSET Leaf,
         NEW last \in 1 .. MaxSeq, Returned(i, e, view, last)
  PROVE  HubInv'
<1>1. HubTypeOK /\ nextSeq' = last + 1 /\ nextSeq <= last /\ MaxSeq \in Nat /\ nextSeq \in Nat
  BY BoundAssumption DEF HubInv, HubTypeOK, Returned
<1>2. UNCHANGED <<digests, seqClass, pending, welcomes, unregistered, clock, offered>>
  BY DEF Returned, queueVars
<1>3. HubTypeOK'
  <2>1. moved' \in BOOLEAN /\ groupInfo' \in BOOLEAN
    BY DEF Returned
  <2>2. epoch' \in Nat /\ roster' \subseteq Leaf /\ nextSeq' \in 1 .. MaxSeq + 1
    BY <1>1 DEF Returned
  <2> QED BY <1>1, <1>2, <2>1, <2>2 DEF HubTypeOK
<1>4. QueuesInOrder'
  <2> SUFFICES ASSUME NEW k \in Identity
               PROVE  Ordered(pending[k], nextSeq') /\ Ordered(welcomes[k], nextSeq')
    BY <1>2 DEF QueuesInOrder
  <2>1. ASSUME NEW q \in Seq(1 .. MaxSeq), Ordered(q, nextSeq) PROVE Ordered(q, nextSeq')
    <3>1. DOMAIN q = 1 .. Len(q)
      BY LenProperties
    <3>2. \A j \in DOMAIN q : q[j] \in 1 .. MaxSeq
      BY <3>1, ElementOfSeq
    <3> QED BY <1>1, <2>1, <3>2 DEF Ordered
  <2>2. /\ pending[k] \in Seq(1 .. MaxSeq) /\ welcomes[k] \in Seq(1 .. MaxSeq)
        /\ Ordered(pending[k], nextSeq) /\ Ordered(welcomes[k], nextSeq)
    BY DEF HubInv, HubTypeOK, QueuesInOrder
  <2> QED BY <2>1, <2>2
<1> QED
  BY <1>2, <1>3, <1>4 DEF HubInv, ClassesKnown, ClockRunsIffQueued, Queued,
       HeadsAreOnTheirWay, OfferedItems, OfferedWelcomes, PendingHead, WelcomeHead,
       HeldBehindWelcome

\* An identity whose queues, clock, hold and deliveries a step leaves alone.
LEMMA QueueUntouched ==
  ASSUME NEW i \in Identity, QueueInv(i), UNCHANGED <<orderVars>>,
         pending'[i] = pending[i], welcomes'[i] = welcomes[i], clock'[i] = clock[i],
         offered'[i] = offered[i], i \in unregistered' <=> i \in unregistered
  PROVE  QueueInv(i)'
  BY DEF QueueInv, Queued, OfferedItems, OfferedWelcomes, PendingHead, WelcomeHead, orderVars

\* The invariant after a step, from its parts.
LEMMA HubInvNext ==
  ASSUME HubTypeOK', \A i \in Identity : QueueInv(i)' PROVE HubInv'
<1>1. (HubTypeOK /\ \A i \in Identity : QueueInv(i))'
  OBVIOUS
<1> QED BY <1>1, HubInvByIdentity, PTL

\* The acknowledgement of a sequenced item preserves the invariant.
LEMMA AckPendingInv ==
  ASSUME HubInv, NEW i \in Identity, NEW seq, AckPending(i, seq) PROVE HubInv'
<1>1. HubTypeOK /\ (\A k \in Identity : QueueInv(k)) /\ MaxSeq \in Nat /\ Retention \in Nat \ {0}
  BY HubInvByIdentity, BoundAssumption
<1> DEFINE q == pending[i]
           t == Tail(pending[i])
<1>2. /\ q \in Seq(1 .. MaxSeq) /\ q # <<>> /\ Ordered(q, nextSeq) /\ nextSeq \in Nat
      /\ \A j \in DOMAIN q : seqClass[q[j]] \in Class
  BY <1>1 DEF AckPending, QueueInv, HubTypeOK
<1>3. /\ t \in Seq(1 .. MaxSeq) /\ Ordered(t, nextSeq)
      /\ \A j \in DOMAIN t : \E k \in DOMAIN q : t[j] = q[k]
  BY <1>1, <1>2, TailQueue
<1>4. t # <<>> => Head(t) \in 1 .. MaxSeq /\ seqClass[Head(t)] \in Class
  BY SMTT(30), <1>1, <1>2, <1>3, HeadQueue
<1>5. PendingHead(t) \subseteq [class : Class, seq : 1 .. MaxSeq]
  BY <1>4 DEF PendingHead, Delivery
<1>6. /\ pending' = [pending EXCEPT ![i] = t]
      /\ offered' = [offered EXCEPT ![i] =
                       {d \in offered[i] : d.class = "welcome"}
                       \cup (IF i \in unregistered THEN {} ELSE PendingHead(t))]
      /\ clock' = [clock EXCEPT ![i] = IF pending'[i] # <<>> \/ welcomes'[i] # <<>> THEN 0 ELSE Stopped]
      /\ UNCHANGED <<groupVars, orderVars, welcomes, unregistered>>
  BY DEF AckPending, ClockAfterAck
<1> HIDE DEF q, t
<1>7. HubTypeOK'
  <2>1. pending' \in [Identity -> Seq(1 .. MaxSeq)]
    BY <1>1, <1>3, <1>6 DEF HubTypeOK
  <2>2. offered' \in [Identity -> SUBSET [class : Class \cup {"welcome"}, seq : 1 .. MaxSeq]]
    BY <1>1, <1>5, <1>6 DEF HubTypeOK
  <2>3. clock' \in [Identity -> {Stopped} \cup 0 .. Retention - 1]
    BY <1>1, <1>6 DEF HubTypeOK, Stopped
  <2> QED BY <1>1, <1>6, <2>1, <2>2, <2>3 DEF HubTypeOK, groupVars, orderVars
<1>8. ASSUME NEW k \in Identity PROVE QueueInv(k)'
  <2>1. CASE k # i
    BY <1>1, <1>6, <2>1, QueueUntouched DEF HubTypeOK
  <2>2. CASE k = i
    <3>1. /\ pending'[i] = t /\ welcomes'[i] = welcomes[i]
          /\ clock'[i] = IF t # <<>> \/ welcomes[i] # <<>> THEN 0 ELSE Stopped
          /\ nextSeq' = nextSeq /\ seqClass' = seqClass /\ unregistered' = unregistered
          /\ offered'[i] = {d \in offered[i] : d.class = "welcome"}
                             \cup (IF i \in unregistered THEN {} ELSE PendingHead(t))
      BY <1>1, <1>6 DEF HubTypeOK, orderVars
    <3>2. \A j \in DOMAIN t : seqClass[t[j]] \in Class
      BY <1>2, <1>3
    <3>3. clock'[i] # Stopped <=> Queued(i)'
      BY <3>1 DEF Queued, Stopped
    <3>4. OfferedWelcomes(i)' = OfferedWelcomes(i)
      BY <3>1, <1>5 DEF OfferedWelcomes, Class
    <3>5. OfferedItems(i)' = IF i \in unregistered THEN {} ELSE PendingHead(t)
      BY <3>1, <1>5 DEF OfferedItems, Class
    <3>6. PendingHead(pending[i])' = PendingHead(t) /\ WelcomeHead(welcomes[i])' = WelcomeHead(welcomes[i])
      BY <3>1 DEF PendingHead, WelcomeHead
    <3> QED
      BY <1>1, <1>3, <2>2, <3>1, <3>2, <3>3, <3>4, <3>5, <3>6 DEF QueueInv
  <2> QED BY <2>1, <2>2
<1> QED BY <1>7, <1>8, HubInvNext

\* The acknowledgement of a welcome preserves the invariant, also when it is
\* the last one and releases the queue.
LEMMA AckWelcomeInv ==
  ASSUME HubInv, NEW i \in Identity, NEW seq, AckWelcome(i, seq) PROVE HubInv'
<1>1. HubTypeOK /\ (\A k \in Identity : QueueInv(k)) /\ MaxSeq \in Nat /\ Retention \in Nat \ {0}
  BY HubInvByIdentity, BoundAssumption
<1> DEFINE q == welcomes[i]
           t == Tail(welcomes[i])
           p == pending[i]
           free == t = <<>> /\ i \in unregistered
<1>2. /\ q \in Seq(1 .. MaxSeq) /\ q # <<>> /\ Ordered(q, nextSeq) /\ nextSeq \in Nat
      /\ p \in Seq(1 .. MaxSeq) /\ Ordered(p, nextSeq)
      /\ \A j \in DOMAIN p : seqClass[p[j]] \in Class
      /\ welcomes[i] = q /\ pending[i] = p
  BY <1>1 DEF AckWelcome, QueueInv, HubTypeOK
<1>3. /\ t \in Seq(1 .. MaxSeq) /\ Ordered(t, nextSeq)
      /\ t # <<>> => LastOf(t) = LastOf(q)
  BY <1>1, <1>2, TailQueue
<1>4. WelcomeHead(t) \subseteq [class : {"welcome"}, seq : 1 .. MaxSeq]
  <2>1. t # <<>> => Head(t) \in 1 .. MaxSeq
    BY <1>1, <1>2, <1>3, HeadQueue
  <2> QED BY <2>1 DEF WelcomeHead, Delivery
<1>5. PendingHead(p) \subseteq [class : Class, seq : 1 .. MaxSeq]
  <2>1. p # <<>> => Head(p) \in 1 .. MaxSeq /\ seqClass[Head(p)] \in Class
    BY <1>1, <1>2, HeadQueue
  <2> QED BY <2>1 DEF PendingHead, Delivery
<1>6. /\ welcomes' = [welcomes EXCEPT ![i] = t]
      /\ offered' = [offered EXCEPT ![i] =
                       {d \in offered[i] : d.class # "welcome"} \cup WelcomeHead(t)
                       \cup (IF free THEN PendingHead(p) ELSE {})]
      /\ clock' = [clock EXCEPT ![i] = IF pending'[i] # <<>> \/ welcomes'[i] # <<>> THEN 0 ELSE Stopped]
      /\ unregistered' = (IF free THEN unregistered \ {i} ELSE unregistered)
      /\ UNCHANGED <<groupVars, orderVars, pending>>
  BY DEF AckWelcome, ClockAfterAck
<1>7. free <=> t = <<>> /\ i \in unregistered
  OBVIOUS
<1> HIDE DEF q, t, p, free
<1>8. HubTypeOK'
  <2>1. welcomes' \in [Identity -> Seq(1 .. MaxSeq)]
    BY <1>1, <1>3, <1>6 DEF HubTypeOK
  <2>2. offered' \in [Identity -> SUBSET [class : Class \cup {"welcome"}, seq : 1 .. MaxSeq]]
    BY <1>1, <1>4, <1>5, <1>6 DEF HubTypeOK
  <2>3. clock' \in [Identity -> {Stopped} \cup 0 .. Retention - 1]
    BY <1>1, <1>6 DEF HubTypeOK, Stopped
  <2> QED BY <1>1, <1>6, <2>1, <2>2, <2>3 DEF HubTypeOK, groupVars, orderVars
<1>9. ASSUME NEW k \in Identity PROVE QueueInv(k)'
  <2>1. CASE k # i
    BY <1>1, <1>6, <2>1, QueueUntouched DEF HubTypeOK
  <2>2. CASE k = i
    <3>1. /\ pending'[i] = p /\ welcomes'[i] = t
          /\ clock'[i] = IF p # <<>> \/ t # <<>> THEN 0 ELSE Stopped
          /\ nextSeq' = nextSeq /\ seqClass' = seqClass
          /\ i \in unregistered' <=> i \in unregistered /\ t # <<>>
          /\ offered'[i] = {d \in offered[i] : d.class # "welcome"} \cup WelcomeHead(t)
                             \cup (IF free THEN PendingHead(p) ELSE {})
      BY <1>1, <1>2, <1>6, <1>7 DEF HubTypeOK, orderVars
    <3>2. clock'[i] # Stopped <=> Queued(i)'
      BY <3>1 DEF Queued, Stopped
    <3>3. OfferedWelcomes(i)' = WelcomeHead(t)
      BY <3>1, <1>4, <1>5 DEF OfferedWelcomes, Class
    <3>4. OfferedItems(i)' = OfferedItems(i) \cup (IF free THEN PendingHead(p) ELSE {})
      BY <3>1, <1>4, <1>5 DEF OfferedItems, Class
    <3>5. PendingHead(pending[i])' = PendingHead(p) /\ WelcomeHead(welcomes[i])' = WelcomeHead(t)
      BY <3>1 DEF PendingHead, WelcomeHead
    <3>6. OfferedItems(i) \subseteq PendingHead(p)
      BY <1>1, <1>2 DEF QueueInv
    <3>7. /\ OfferedItems(i)' \subseteq PendingHead(pending[i])'
          /\ i \notin unregistered' => OfferedItems(i)' = PendingHead(pending[i])'
      <4>1. i \notin unregistered => OfferedItems(i) = PendingHead(p)
        BY <1>1, <1>2 DEF QueueInv
      <4> QED BY <1>7, <3>1, <3>4, <3>5, <3>6, <4>1
    <3>8. i \in unregistered' => \A d \in OfferedItems(i)' : d.seq < LastOf(t)
      <4>1. i \in unregistered => \A d \in OfferedItems(i) : d.seq < LastOf(q)
        BY <1>1, <1>2 DEF QueueInv, LastOf
      <4> QED BY <1>3, <1>7, <3>1, <3>4, <4>1
    <3>9. /\ Ordered(pending'[i], nextSeq') /\ Ordered(welcomes'[i], nextSeq')
          /\ \A j \in DOMAIN pending'[i] : seqClass'[pending'[i][j]] \in Class
      BY <1>2, <1>3, <3>1
    <3> QED
      BY <2>2, <3>1, <3>2, <3>3, <3>5, <3>7, <3>8, <3>9 DEF QueueInv, LastOf
  <2> QED BY <2>1, <2>2
<1> QED BY <1>8, <1>9, HubInvNext

\* The retention period's end drops queues, holds and clocks together.
LEMMA AdvanceInv == ASSUME HubInv, Advance PROVE HubInv'
<1>1. HubTypeOK /\ (\A k \in Identity : QueueInv(k)) /\ Retention \in Nat \ {0}
  BY HubInvByIdentity, BoundAssumption
<1> DEFINE ticked == [i \in Identity |-> IF clock[i] = Stopped THEN Stopped ELSE clock[i] + 1]
           gone == {i \in Identity : ticked[i] >= Retention}
<1>2. /\ pending' = [i \in Identity |-> IF i \in gone THEN <<>> ELSE pending[i]]
      /\ welcomes' = [i \in Identity |-> IF i \in gone THEN <<>> ELSE welcomes[i]]
      /\ unregistered' = unregistered \ gone
      /\ clock' = [i \in Identity |-> IF i \in gone THEN Stopped ELSE ticked[i]]
      /\ offered' = [i \in Identity |-> IF i \in gone THEN {} ELSE offered[i]]
      /\ UNCHANGED <<groupVars, orderVars>>
  BY DEF Advance
<1>3. \A i \in Identity \ gone : /\ clock'[i] \in {Stopped} \cup 0 .. Retention - 1
                                 /\ clock'[i] = Stopped <=> clock[i] = Stopped
  BY <1>1, <1>2 DEF HubTypeOK, Stopped
<1> HIDE DEF ticked, gone
<1>4. HubTypeOK'
  <2>1. /\ pending' \in [Identity -> Seq(1 .. MaxSeq)]
        /\ welcomes' \in [Identity -> Seq(1 .. MaxSeq)]
    BY <1>1, <1>2, EmptySeq DEF HubTypeOK
  <2>2. clock' \in [Identity -> {Stopped} \cup 0 .. Retention - 1]
    BY <1>2, <1>3
  <2>3. offered' \in [Identity -> SUBSET [class : Class \cup {"welcome"}, seq : 1 .. MaxSeq]]
    BY <1>1, <1>2 DEF HubTypeOK
  <2> QED BY <1>1, <1>2, <2>1, <2>2, <2>3 DEF HubTypeOK, groupVars, orderVars
<1>5. ASSUME NEW k \in Identity PROVE QueueInv(k)'
  <2>1. CASE k \in gone
    <3>1. /\ pending'[k] = <<>> /\ welcomes'[k] = <<>> /\ offered'[k] = {}
          /\ k \notin unregistered' /\ clock'[k] = Stopped
      BY <1>2, <2>1
    <3> QED
      BY <3>1 DEF QueueInv, Ordered, Queued, OfferedItems, OfferedWelcomes, PendingHead, WelcomeHead
  <2>2. CASE k \notin gone
    <3>1. /\ pending'[k] = pending[k] /\ welcomes'[k] = welcomes[k] /\ offered'[k] = offered[k]
          /\ k \in unregistered' <=> k \in unregistered
          /\ clock'[k] = Stopped <=> clock[k] = Stopped
          /\ nextSeq' = nextSeq /\ seqClass' = seqClass
      BY <1>2, <1>3, <2>2 DEF orderVars
    <3> QED
      BY <1>1, <3>1 DEF QueueInv, Queued, OfferedItems, OfferedWelcomes, PendingHead, WelcomeHead
  <2> QED BY <2>1, <2>2
<1> QED BY <1>4, <1>5, HubInvNext

\* A restart sends again exactly what is awaited.
LEMMA RestartInv == ASSUME HubInv, Restart PROVE HubInv'
<1>1. HubTypeOK /\ (\A k \in Identity : QueueInv(k)) /\ MaxSeq \in Nat
  BY HubInvByIdentity, BoundAssumption
<1>2. /\ offered' = [i \in Identity |->
                       (IF i \in unregistered THEN {} ELSE PendingHead(pending[i]))
                       \cup WelcomeHead(welcomes[i])]
      /\ UNCHANGED <<groupVars, orderVars, pending, welcomes, unregistered, clock>>
  BY DEF Restart
<1>3. ASSUME NEW k \in Identity
      PROVE  /\ PendingHead(pending[k]) \subseteq [class : Class, seq : 1 .. MaxSeq]
             /\ WelcomeHead(welcomes[k]) \subseteq [class : {"welcome"}, seq : 1 .. MaxSeq]
  <2>1. /\ pending[k] \in Seq(1 .. MaxSeq) /\ Ordered(pending[k], nextSeq) /\ nextSeq \in Nat
        /\ welcomes[k] \in Seq(1 .. MaxSeq) /\ Ordered(welcomes[k], nextSeq)
        /\ \A j \in DOMAIN pending[k] : seqClass[pending[k][j]] \in Class
    BY <1>1 DEF HubTypeOK, QueueInv
  <2>2. pending[k] # <<>> => Head(pending[k]) \in 1 .. MaxSeq /\ seqClass[Head(pending[k])] \in Class
    BY <1>1, <2>1, HeadQueue
  <2>3. welcomes[k] # <<>> => Head(welcomes[k]) \in 1 .. MaxSeq
    BY <1>1, <2>1, HeadQueue
  <2> QED BY <2>2, <2>3 DEF PendingHead, WelcomeHead, Delivery
<1>4. HubTypeOK'
  <2>1. offered' \in [Identity -> SUBSET [class : Class \cup {"welcome"}, seq : 1 .. MaxSeq]]
    BY <1>2, <1>3
  <2> QED BY <1>1, <1>2, <2>1 DEF HubTypeOK, groupVars, orderVars
<1>5. ASSUME NEW k \in Identity PROVE QueueInv(k)'
  <2>1. /\ pending' = pending /\ welcomes' = welcomes /\ unregistered' = unregistered
        /\ clock' = clock /\ nextSeq' = nextSeq /\ seqClass' = seqClass
    BY <1>2 DEF orderVars
  <2>2. offered'[k] = (IF k \in unregistered THEN {} ELSE PendingHead(pending[k]))
                        \cup WelcomeHead(welcomes[k])
    BY <1>2
  <2>3. PendingHead(pending[k])' = PendingHead(pending[k]) /\ WelcomeHead(welcomes[k])' = WelcomeHead(welcomes[k])
    BY <2>1 DEF PendingHead, WelcomeHead
  <2>4. OfferedItems(k)' = IF k \in unregistered THEN {} ELSE PendingHead(pending[k])
    BY <1>3, <2>2 DEF OfferedItems, Class
  <2>5. OfferedWelcomes(k)' = WelcomeHead(welcomes[k])
    BY <1>3, <2>2 DEF OfferedWelcomes, Class
  <2> QED
    BY <1>1, <2>1, <2>3, <2>4, <2>5 DEF QueueInv, Queued
<1> QED BY <1>4, <1>5, HubInvNext

\* Every step of the hub preserves the invariant.
LEMMA HubNextInv == ASSUME HubInv, [HubNext]_hubVars PROVE HubInv'
<1>1. HubTypeOK /\ MaxSeq \in Nat /\ MaxEpoch \in Nat
  BY BoundAssumption DEF HubInv
<1>2. ASSUME Deposit PROVE HubInv'
  <2>1. PICK g \in Digest, e \in Epochs :
          \/ \E i \in Identity : DepositApplication(i, g, e) \/ DepositProposal(i, g, e)
          \/ \E removes \in SUBSET roster, moves \in BOOLEAN :
               \/ \E i \in Identity, adds \in SUBSET Leaf, lapsed \in SUBSET removes :
                     DepositCommit(i, g, e, adds, removes, lapsed, moves)
               \/ \E leaf \in Leaf : DepositExternalCommit(leaf, g, e, removes, moves)
    BY <1>2 DEF Deposit
  <2>2. ASSUME NEW i \in Identity, DepositApplication(i, g, e) \/ DepositProposal(i, g, e)
        PROVE  HubInv'
    BY <2>2, SequenceToAllInv DEF DepositApplication, DepositProposal, Class
  <2>3. ASSUME NEW removes \in SUBSET roster, NEW moves \in BOOLEAN, NEW i \in Identity,
               NEW adds \in SUBSET Leaf, NEW lapsed \in SUBSET removes,
               DepositCommit(i, g, e, adds, removes, lapsed, moves)
        PROVE  HubInv'
    <3>1. Members(adds \ roster) \in SUBSET Identity
      BY MembersAreIdentities
    <3> QED BY <2>3, <3>1, ApplyCommitInv DEF DepositCommit
  <2>4. ASSUME NEW removes \in SUBSET roster, NEW moves \in BOOLEAN, NEW leaf \in Leaf,
               DepositExternalCommit(leaf, g, e, removes, moves)
        PROVE  HubInv'
    BY <2>4, ApplyCommitInv DEF DepositExternalCommit
  <2> QED BY <2>1, <2>2, <2>3, <2>4
<1>3. ASSUME Handover PROVE HubInv'
  <2>1. ASSUME NEW i \in Identity, DepositGroupInfo(i) PROVE HubInv'
    BY <2>1, DepositGroupInfoInv
  <2>2. ASSUME NEW i \in Identity, NEW e \in Epochs, NEW view \in SUBSET Leaf,
               NEW last \in 1 .. MaxSeq, Returned(i, e, view, last)
        PROVE  HubInv'
    BY <1>1, <2>2, ReturnedInv DEF Epochs
  <2> QED BY <1>3, <2>1, <2>2 DEF Handover
<1>4. ASSUME Ack PROVE HubInv'
  BY <1>4, AckPendingInv, AckWelcomeInv DEF Ack
<1>5. ASSUME Advance PROVE HubInv'
  BY <1>5, AdvanceInv
<1>6. ASSUME Restart PROVE HubInv'
  BY <1>6, RestartInv
<1>7. ASSUME UNCHANGED hubVars PROVE HubInv'
  BY <1>7 DEF HubInv, HubTypeOK, hubVars, groupVars, orderVars, queueVars, QueuesInOrder,
       ClassesKnown, ClockRunsIffQueued, Queued, HeadsAreOnTheirWay, OfferedItems,
       OfferedWelcomes, PendingHead, WelcomeHead, HeldBehindWelcome
<1> QED
  BY <1>2, <1>3, <1>4, <1>5, <1>6, <1>7 DEF HubNext

\* HubInv holds in every reachable state.
THEOREM HubInvariant == HubSpec => []HubInv
  BY HubInitInv, HubNextInv, PTL DEF HubSpec

\* Every variable of the hub keeps its shape, whatever members deposit and
\* mailboxes acknowledge.
THEOREM HubTypes == HubSpec => []HubTypeOK
<1>1. HubInv => HubTypeOK
  BY DEF HubInv
<1> QED BY <1>1, HubInvariant, PTL

\* Per-mailbox sequence order, across moves and returns of the group.
THEOREM MailboxOrder == HubSpec => []QueuesInOrder
<1>1. HubInv => QueuesInOrder
  BY DEF HubInv
<1> QED BY <1>1, HubInvariant, PTL

\* The retention clock runs exactly while something is queued.
THEOREM RetentionClock == HubSpec => []ClockRunsIffQueued
<1>1. HubInv => ClockRunsIffQueued
  BY DEF HubInv
<1> QED BY <1>1, HubInvariant, PTL

\* No queue stalls and no item overtakes another, also across restarts.
THEOREM NoQueueStalls == HubSpec => []HeadsAreOnTheirWay
<1>1. HubInv => HeadsAreOnTheirWay
  BY DEF HubInv
<1> QED BY <1>1, HubInvariant, PTL

\* An identity a commit brought in gets nothing newer before its welcome, and
\* there is a welcome to release it.
THEOREM WelcomeGoesFirst == HubSpec => []HeldBehindWelcome
<1>1. HubInv => HeldBehindWelcome
  BY DEF HubInv
<1> QED BY <1>1, HubInvariant, PTL

-----------------------------------------------------------------------------
(* Numbers are given out once, and nobody is left out.                     *)

\* What a deposit that is ordered does, whichever it is.
LEMMA OrderedDeposit ==
  ASSUME HubTypeOK, Deposit
  PROVE  \E g \in Digest : /\ digests' = [digests EXCEPT ![g] = nextSeq]
                           /\ nextSeq' = nextSeq + 1
                           /\ pending' = AppendedFor(pending, Members(roster), nextSeq)
<1>1. PICK g \in Digest, e \in Epochs :
        \/ \E i \in Identity : DepositApplication(i, g, e) \/ DepositProposal(i, g, e)
        \/ \E removes \in SUBSET roster, moves \in BOOLEAN :
             \/ \E i \in Identity, adds \in SUBSET Leaf, lapsed \in SUBSET removes :
                   DepositCommit(i, g, e, adds, removes, lapsed, moves)
             \/ \E leaf \in Leaf : DepositExternalCommit(leaf, g, e, removes, moves)
  BY DEF Deposit
<1>2. \E class : Sequence(g, class, Members(roster))
  BY <1>1 DEF DepositApplication, DepositProposal, SequenceToAll, DepositCommit,
       DepositExternalCommit, ApplyCommit
<1> QED
  BY <1>2 DEF Sequence

\* Every other step leaves the numbers of the digests and the next one alone,
\* except that a returning group goes on from a higher one.
LEMMA OtherSteps ==
  ASSUME HubTypeOK, Handover \/ Ack \/ Advance \/ Restart \/ UNCHANGED hubVars
  PROVE  digests' = digests /\ nextSeq' \in Nat /\ nextSeq' >= nextSeq
<1>1. nextSeq \in Nat /\ MaxSeq \in Nat
  BY BoundAssumption DEF HubTypeOK
<1>2. CASE Handover
  BY <1>1, <1>2 DEF Handover, DepositGroupInfo, Returned, orderVars
<1>3. CASE Ack
  BY <1>1, <1>3 DEF Ack, AckPending, AckWelcome, orderVars
<1>4. CASE Advance \/ Restart \/ UNCHANGED hubVars
  BY <1>1, <1>4 DEF Advance, Restart, hubVars, orderVars
<1> QED
  BY <1>2, <1>3, <1>4

\* Every step keeps the numbers apart, given that they are in range.
LEMMA UniqueNext ==
  ASSUME HubTypeOK, SeqsAreUnique, [HubNext]_hubVars PROVE SeqsAreUnique'
<1>1. digests \in [Digest -> Nat] /\ nextSeq \in Nat \ {0}
  BY BoundAssumption DEF HubTypeOK
<1>2. CASE Deposit
  <2>1. PICK g \in Digest : digests' = [digests EXCEPT ![g] = nextSeq] /\ nextSeq' = nextSeq + 1
    BY <1>2, OrderedDeposit
  <2>2. \A h \in Digest : digests'[h] = IF h = g THEN nextSeq ELSE digests[h]
    BY <1>1, <2>1
  <2> QED BY <1>1, <2>1, <2>2 DEF SeqsAreUnique
<1>3. CASE Handover \/ Ack \/ Advance \/ Restart \/ UNCHANGED hubVars
  <2>1. digests' = digests /\ nextSeq' \in Nat /\ nextSeq' >= nextSeq
    BY <1>3, OtherSteps
  <2> QED BY <1>1, <2>1 DEF SeqsAreUnique
<1> QED
  BY <1>2, <1>3 DEF HubNext

\* No number is given out twice, however often the group leaves and returns.
THEOREM NumbersAreUnique == HubSpec => []SeqsAreUnique
<1>1. HubInit => SeqsAreUnique
  BY DEF HubInit, SeqsAreUnique
<1> QED
  BY <1>1, HubTypes, UniqueNext, PTL DEF HubSpec

\* Every member gets every item, and whoever is brought in is welcomed.
THEOREM NobodyLeftOut == HubSpec => NobodyIsLeftOut
<1>1. ASSUME HubTypeOK, [HubNext]_hubVars, digests' # digests
      PROVE  /\ \A i \in Members(roster) : pending'[i] = Append(pending[i], nextSeq)
             /\ \A i \in Members(roster') \ Members(roster) :
                  \/ welcomes'[i] = Append(welcomes[i], nextSeq) /\ i \in unregistered'
                  \/ i = Owner /\ \E l \in LeavesOf(Leaf, i) : roster' = roster \cup {l}
  <2>1. Deposit
    BY <1>1, OtherSteps DEF HubNext
  <2>2. Members(roster) \subseteq Identity
    BY <1>1, MembersAreIdentities DEF HubTypeOK
  <2>3. \A i \in Members(roster) : pending'[i] = Append(pending[i], nextSeq)
    BY <1>1, <2>1, <2>2, OrderedDeposit DEF AppendedFor
  <2>4. PICK g \in Digest, e \in Epochs :
          \/ \E i \in Identity : DepositApplication(i, g, e) \/ DepositProposal(i, g, e)
          \/ \E removes \in SUBSET roster, moves \in BOOLEAN :
               \/ \E i \in Identity, adds \in SUBSET Leaf, lapsed \in SUBSET removes :
                     DepositCommit(i, g, e, adds, removes, lapsed, moves)
               \/ \E leaf \in Leaf : DepositExternalCommit(leaf, g, e, removes, moves)
    BY <2>1 DEF Deposit
  <2> SUFFICES ASSUME NEW i \in Members(roster') \ Members(roster)
               PROVE  \/ welcomes'[i] = Append(welcomes[i], nextSeq) /\ i \in unregistered'
                      \/ i = Owner /\ \E l \in LeavesOf(Leaf, i) : roster' = roster \cup {l}
    BY <2>3
  <2>5. ASSUME NEW k \in Identity, DepositApplication(k, g, e) \/ DepositProposal(k, g, e)
        PROVE  FALSE
    BY <2>5 DEF DepositApplication, DepositProposal, SequenceToAll, groupVars, Members
  <2>6. ASSUME NEW removes \in SUBSET roster, NEW moves \in BOOLEAN, NEW k \in Identity,
               NEW adds \in SUBSET Leaf, NEW lapsed \in SUBSET removes,
               DepositCommit(k, g, e, adds, removes, lapsed, moves)
        PROVE  welcomes'[i] = Append(welcomes[i], nextSeq) /\ i \in unregistered'
    <3>1. /\ roster' = (roster \ removes) \cup adds
          /\ unregistered' = unregistered \cup (Members(adds \ roster) \ Members(roster))
          /\ welcomes' = AppendedFor(welcomes, Members(adds \ roster), nextSeq)
      BY <2>6 DEF DepositCommit, ApplyCommit
    <3>2. i \in Members(adds \ roster)
      BY <3>1 DEF Members
    <3>3. i \in Identity
      BY <3>2, MembersAreIdentities
    <3> QED BY <3>1, <3>2, <3>3 DEF AppendedFor
  <2>7. ASSUME NEW removes \in SUBSET roster, NEW moves \in BOOLEAN, NEW leaf \in Leaf,
               DepositExternalCommit(leaf, g, e, removes, moves)
        PROVE  i = Owner /\ \E l \in LeavesOf(Leaf, i) : roster' = roster \cup {l}
    <3>1. /\ roster' = (roster \ removes) \cup {leaf}
          /\ leaf[1] \in Members(roster) \cup {Owner}
          /\ \A l \in removes : l[1] = leaf[1]
      BY <2>7 DEF DepositExternalCommit, ExternalJoinAllowed, ApplyCommit
    <3>2. i = leaf[1] /\ i = Owner
      BY <3>1 DEF Members
    <3>3. removes = {}
      BY <3>1, <3>2 DEF Members
    <3> QED BY <3>1, <3>2, <3>3 DEF LeavesOf
  <2>8. CASE \E k \in Identity : DepositApplication(k, g, e) \/ DepositProposal(k, g, e)
    BY <2>5, <2>8
  <2>9. CASE \E removes \in SUBSET roster, moves \in BOOLEAN :
               \E k \in Identity, adds \in SUBSET Leaf, lapsed \in SUBSET removes :
                 DepositCommit(k, g, e, adds, removes, lapsed, moves)
    BY <2>6, <2>9
  <2>10. CASE \E removes \in SUBSET roster, moves \in BOOLEAN :
                \E leaf \in Leaf : DepositExternalCommit(leaf, g, e, removes, moves)
    <3>1. PICK removes \in SUBSET roster, moves \in BOOLEAN, leaf \in Leaf :
            DepositExternalCommit(leaf, g, e, removes, moves)
      BY <2>10
    <3> QED BY <2>7, <3>1
  <2> QED
    BY <2>4, <2>8, <2>9, <2>10, Zenon
<1> QED
  BY <1>1, HubTypes, PTL DEF HubSpec, NobodyIsLeftOut

-----------------------------------------------------------------------------
(* The hub implements the feed.                                            *)

OfferedSeqs(i) == {d.seq : d \in OfferedItems(i)}

\* An ordered deposit takes nothing back that is under way.
LEMMA DepositAddsOffers ==
  ASSUME Deposit, NEW i \in Identity PROVE OfferedSeqs(i) \subseteq OfferedSeqs(i)'
<1>1. PICK g \in Digest, e \in Epochs :
        \/ \E k \in Identity : DepositApplication(k, g, e) \/ DepositProposal(k, g, e)
        \/ \E removes \in SUBSET roster, moves \in BOOLEAN :
             \/ \E k \in Identity, adds \in SUBSET Leaf, lapsed \in SUBSET removes :
                   DepositCommit(k, g, e, adds, removes, lapsed, moves)
             \/ \E leaf \in Leaf : DepositExternalCommit(leaf, g, e, removes, moves)
  BY DEF Deposit
<1>2. offered[i] \subseteq offered'[i]
  <2>1. CASE \E class : SequenceToAll(g, class)
    BY <2>1 DEF SequenceToAll
  <2>2. CASE \E adds, removes, moves, gained : ApplyCommit(g, adds, removes, moves, gained)
    BY <2>2 DEF ApplyCommit
  <2> QED
    BY <1>1, <2>1, <2>2 DEF DepositApplication, DepositProposal, DepositCommit,
         DepositExternalCommit
<1> QED
  BY <1>2 DEF OfferedSeqs, OfferedItems

\* What a step of the hub does to the backlog of one mailbox.
LEMMA BacklogStep ==
  ASSUME HubTypeOK, [HubNext]_hubVars, NEW i \in Identity
  PROVE  \/ /\ nextSeq' > nextSeq
            /\ pending'[i] \in {pending[i], Append(pending[i], nextSeq' - 1)}
            /\ OfferedSeqs(i) \subseteq OfferedSeqs(i)'
         \/ /\ nextSeq' = nextSeq
            /\ \/ pending'[i] = pending[i]
               \/ pending[i] # <<>> /\ pending'[i] = Tail(pending[i])
               \/ pending'[i] = <<>>
<1>1. /\ nextSeq \in Nat /\ MaxSeq \in Nat
      /\ DOMAIN pending = Identity
  BY BoundAssumption DEF HubTypeOK
<1>2. CASE Deposit
  <2>1. nextSeq' = nextSeq + 1 /\ pending' = AppendedFor(pending, Members(roster), nextSeq)
    BY <1>2, OrderedDeposit
  <2> QED
    BY <1>1, <1>2, <2>1, DepositAddsOffers DEF AppendedFor
<1>3. CASE Handover
  <2>1. CASE \E k \in Identity : DepositGroupInfo(k)
    BY <2>1 DEF DepositGroupInfo, orderVars, queueVars
  <2>2. CASE \E k \in Identity, e \in Epochs, view \in SUBSET Leaf, last \in 1 .. MaxSeq :
               Returned(k, e, view, last)
    <3>1. PICK last \in 1 .. MaxSeq : /\ last >= nextSeq /\ nextSeq' = last + 1
                                     /\ UNCHANGED queueVars
      BY <2>2 DEF Returned, queueVars
    <3> QED
      BY <1>1, <3>1 DEF queueVars, OfferedSeqs, OfferedItems
  <2> QED
    BY <1>3, <2>1, <2>2 DEF Handover
<1>4. CASE Ack
  <2>1. PICK k \in Identity, seq \in 1 .. MaxSeq : AckPending(k, seq) \/ AckWelcome(k, seq)
    BY <1>4 DEF Ack
  <2>2. CASE AckPending(k, seq)
    BY <1>1, <2>2 DEF AckPending, orderVars
  <2>3. CASE AckWelcome(k, seq)
    BY <2>3 DEF AckWelcome, orderVars
  <2> QED
    BY <2>1, <2>2, <2>3
<1>5. CASE Advance
  BY <1>5 DEF Advance, orderVars
<1>6. CASE Restart \/ UNCHANGED hubVars
  BY <1>6 DEF Restart, hubVars, orderVars, queueVars
<1> QED
  BY <1>2, <1>3, <1>4, <1>5, <1>6 DEF HubNext

\* The hub implements its abstract specification, for any group: the backlogs
\* are the pending queues, and what is under way is what was offered.
THEOREM HubKeepsFeeds == HubSpec => FeedsAreKept
<1>1. HubInit => Feeds!FeedInit
  BY DEF HubInit, OfferedItems, Feeds!FeedInit
<1>2. ASSUME HubInv, HubInv', [HubNext]_hubVars
      PROVE  [Feeds!FeedNext]_(Feeds!feedVars)
  <2>1. HubTypeOK /\ nextSeq \in Nat /\ nextSeq' \in Nat
    BY <1>2, BoundAssumption DEF HubInv, HubTypeOK
  <2>2. ASSUME NEW m \in Identity
        PROVE  OfferedSeqs(m)' \subseteq Feeds!Oldest(pending'[m])
    BY <1>2 DEF HubInv, HeadsAreOnTheirWay, PendingHead, Delivery, OfferedSeqs, Feeds!Oldest
  <2>3. ASSUME NEW m \in Identity
        PROVE  Feeds!Order(m) \/ Feeds!Transmit(m) \/ Feeds!Acknowledge(m) \/ Feeds!GiveUp(m)
    <3>1. CASE /\ nextSeq' > nextSeq
               /\ pending'[m] \in {pending[m], Append(pending[m], nextSeq' - 1)}
               /\ OfferedSeqs(m) \subseteq OfferedSeqs(m)'
      <4>1. [i \in Identity |-> OfferedSeqs(i)][m] \subseteq ([i \in Identity |-> OfferedSeqs(i)]')[m]
        BY <3>1, Zenon
      <4>2. nextSeq' - 1 > nextSeq - 1
        BY <2>1, <3>1
      <4> QED
        BY <3>1, <4>1, <4>2 DEF Feeds!Order, OfferedSeqs
    <3>2. CASE nextSeq' = nextSeq /\ pending'[m] = pending[m]
      BY <3>2 DEF Feeds!Transmit
    <3>3. CASE nextSeq' = nextSeq /\ pending[m] # <<>> /\ pending'[m] = Tail(pending[m])
      BY <3>3 DEF Feeds!Acknowledge
    <3>4. CASE nextSeq' = nextSeq /\ pending'[m] = <<>>
      BY <3>4 DEF Feeds!GiveUp
    <3> QED
      BY <1>2, <2>1, <3>1, <3>2, <3>3, <3>4, BacklogStep
  <2> QED
    BY <2>2, <2>3 DEF Feeds!FeedNext, OfferedSeqs
<1> QED
  BY <1>1, <1>2, HubInvariant, PTL DEF HubSpec, FeedsAreKept, Feeds!FeedSpec
=============================================================================
