---------------------------- MODULE DeliveryProofs ----------------------------
(***************************************************************************)
(* Proofs about Delivery: what is ordered arrives at every device of the   *)
(* member, once and in order.  DeliveryInv holds whatever the constants;   *)
(* ReadersInv needs that the answer to a sync has room for everything that *)
(* is stored, and SafeInv that the group moves once at most.  Module       *)
(* Delivery has runs that show what happens otherwise.                     *)
(***************************************************************************)
EXTENDS Delivery, LeastNumber, SequenceTheorems, FiniteSetTheorems

-----------------------------------------------------------------------------
(* The invariant that gives ProcessedOnce.                                 *)

Numbers == 1 .. Len(log)

ItemClass == {"welcome", "handshake", "application", "group-info", "archive"}
StoredItem == [n : Nat \ {0}, class : ItemClass, group : {TheGroup}, seq : Nat]
Position == [cursor : Nat, joined : BOOLEAN, contiguous : Nat \cup {NoPosition}, seen : SUBSET Nat]

DeliveryTypes ==
  /\ log \in Seq(HubName) /\ log # <<>>
  /\ backlog \in [HubName -> Seq(Numbers)]
  /\ counter \in Nat \ {0}
  /\ acks \in [Device -> Nat]
  /\ devices \subseteq Device /\ bound \subseteq devices
  /\ items \subseteq StoredItem /\ IsFiniteSet(items)
  /\ stream \in [Device -> Seq(StoredItem)]
  /\ position \in [Device -> Position]
  /\ processed \in [Device -> Seq(Nat)]
  /\ own \in [Device -> SUBSET Nat]

\* Items carry numbers the group has given out; a welcome, that of its commit.
InLog(it, last) == /\ Sequenced(it) => it.seq \in 1 .. last
                   /\ it.class = "welcome" => it.seq = 1

Previous == [hub : HubName \cup {"none"}, through : Nat, waited : Nat, released : Nat \cup {Waiting},
             late : SUBSET Nat]
RegistrationRecord == [hub : HubName, state : {"pending", "joined"}, age : Nat, stored : Nat, high : Nat,
                       prev : Previous]

\* The only group is registered all the time.
RegistersOne == groups \in [{TheGroup} -> RegistrationRecord]

\* Devices name moves that have happened.
NamesGivenOut == naming \in [Device -> Seq(Numbers)]

\* No two stored items have one cursor.
CursorsApart ==
  /\ \A it \in items : it.n <= counter
  /\ \A it, jt \in items : it.n = jt.n => it = jt

NumbersGivenOut ==
  /\ \A it \in items : InLog(it, Len(log))
  /\ \A d \in Device : \A i \in DOMAIN stream[d] : InLog(stream[d][i], Len(log))

\* Nothing is on its way to a device without a connection.
OnlyToBound == \A d \in Device \ bound : stream[d] = <<>>

\* The numbers a device is done with, by its position.
Has(p) == (1 .. p.contiguous) \cup p.seen

\* The position of a device that has joined covers what it took, and a device
\* that has not joined took nothing.
PositionCovers(d) ==
  LET p == position[d] IN
  IF p.joined THEN /\ p.contiguous \in Numbers
                   /\ \A s \in p.seen : p.contiguous < s /\ s <= Len(log)
                   /\ Taken(d) \subseteq Has(p)
  ELSE /\ p.cursor = 0 /\ p.contiguous = NoPosition /\ p.seen = {}
       /\ acks[d] = 0 /\ processed[d] = <<>> /\ own[d] = {}

\* The welcome is kept for a device that has not joined, and comes first.
WelcomeFirst(d) ==
  ~position[d].joined =>
    /\ d \in devices => \E it \in items : it.n = 1 /\ it.class = "welcome"
    /\ d \in bound => stream[d] # <<>> /\ stream[d][1].class = "welcome"

TakenOnce(d) ==
  /\ \A j, k \in DOMAIN processed[d] : processed[d][j] = processed[d][k] => j = k
  /\ Range(processed[d]) \cap own[d] = {}

DeliveryInv ==
  /\ DeliveryTypes
  /\ CursorsApart
  /\ NumbersGivenOut
  /\ OnlyToBound
  /\ RegistersOne /\ NamesGivenOut
  /\ \A d \in Device : PositionCovers(d) /\ WelcomeFirst(d) /\ TakenOnce(d)

-----------------------------------------------------------------------------
(* What a device has read: for NothingIsLost and InOrderUnlessAnnounced.   *)

\* Whatever is stored or on its way to a device.
Around == items \cup UNION {Range(stream[d]) : d \in Device}

AroundApart ==
  /\ \A it \in Around : it.n <= counter
  /\ \A it, jt \in Around : it.n = jt.n => it = jt

\* What is read comes in the order of the cursors, all of it, and nothing is
\* acknowledged that has not been read.
ReadsEverything(d) ==
  /\ \A j, k \in DOMAIN stream[d] : j < k => stream[d][j].n < stream[d][k].n
  /\ position[d].cursor <= counter /\ acks[d] <= counter
  /\ position[d].joined => Has(position[d]) \subseteq Taken(d) \cup {1}
  /\ \A it \in items : Sequenced(it) /\ it.seq \notin Has(position[d]) =>
       /\ it.n > position[d].cursor
       /\ it.n > acks[d]
       /\ d \in bound => it \in Range(stream[d])

ReadersInv == DeliveryInv /\ AroundApart /\ counter <= Limit /\ \A d \in Device : ReadsEverything(d)

-----------------------------------------------------------------------------
(* The i-th oldest of some items, and the answer to a sync.                *)

Apart(S) == \A it, jt \in S : it.n = jt.n => it = jt

UpTo(S, it) == {jt \in S : jt.n <= it.n}

\* Later items have more items up to them, and every rank is somebody's.
LEMMA Ranks ==
  ASSUME NEW S, IsFiniteSet(S), Apart(S), \A it \in S : it.n \in Nat
  PROVE  /\ Cardinality(S) \in Nat
         /\ \A it \in S : Cardinality(UpTo(S, it)) \in 1 .. Cardinality(S)
         /\ \A it, jt \in S : it.n < jt.n => Cardinality(UpTo(S, it)) < Cardinality(UpTo(S, jt))
         /\ \A i \in 1 .. Cardinality(S) : \E it \in S : Cardinality(UpTo(S, it)) = i
<1> DEFINE C == Cardinality(S)
           Rank == [it \in S |-> Cardinality(UpTo(S, it))]
<1>1. C \in Nat
  BY FS_CardinalityType
<1>2. ASSUME NEW it \in S PROVE IsFiniteSet(UpTo(S, it)) /\ Cardinality(UpTo(S, it)) \in 1 .. C
  <2>1. UpTo(S, it) \in SUBSET S /\ it \in UpTo(S, it)
    BY DEF UpTo
  <2>2. IsFiniteSet(UpTo(S, it)) /\ Cardinality(UpTo(S, it)) <= C
    BY <2>1, FS_Subset
  <2>3. Cardinality(UpTo(S, it)) \in Nat
    BY <2>2, FS_CardinalityType
  <2>4. Cardinality(UpTo(S, it)) # 0
    BY <2>1, <2>2, FS_EmptySet
  <2> QED BY <1>1, <2>2, <2>3, <2>4
<1>3. ASSUME NEW it \in S, NEW jt \in S, it.n < jt.n
      PROVE  Cardinality(UpTo(S, it)) < Cardinality(UpTo(S, jt))
  <2>1. UpTo(S, it) \in SUBSET UpTo(S, jt)
    BY <1>3 DEF UpTo
  <2>2. jt \in UpTo(S, jt) /\ jt \notin UpTo(S, it)
    BY <1>3 DEF UpTo
  <2>3. /\ Cardinality(UpTo(S, it)) <= Cardinality(UpTo(S, jt))
        /\ Cardinality(UpTo(S, jt)) # Cardinality(UpTo(S, it))
    BY <1>2, <2>1, <2>2, FS_Subset
  <2>4. Cardinality(UpTo(S, it)) \in Nat /\ Cardinality(UpTo(S, jt)) \in Nat
    BY <1>1, <1>2
  <2> QED BY <2>3, <2>4
<1>4. Rank \in Injection(S, 1 .. C)
  <2>1. Rank \in [S -> 1 .. C]
    BY <1>2
  <2>2. ASSUME NEW it \in S, NEW jt \in S, Rank[it] = Rank[jt] PROVE it = jt
    <3>1. Cardinality(UpTo(S, it)) = Cardinality(UpTo(S, jt))
      BY <2>2
    <3>2. Cardinality(UpTo(S, it)) \in Nat
      BY <1>1, <1>2
    <3>3. ~(it.n < jt.n) /\ ~(jt.n < it.n)
      BY <1>3, <3>1, <3>2
    <3>4. it.n = jt.n
      BY <3>3
    <3> QED BY <3>4 DEF Apart
  <2> HIDE DEF Rank
  <2>3. IsInjective(Rank)
    <3>1. DOMAIN Rank = S
      BY <2>1
    <3> QED BY <2>2, <3>1 DEF IsInjective
  <2> QED BY <2>1, <2>3 DEF Injection
<1>5. Rank \in Surjection(S, 1 .. C)
  <2> HIDE DEF Rank
  <2>1. IsFiniteSet(1 .. C) /\ Cardinality(1 .. C) = C
    BY <1>1, FS_Interval
  <2> QED BY <1>4, <2>1, FS_Injection
<1>6. ASSUME NEW i \in 1 .. C PROVE \E it \in S : Cardinality(UpTo(S, it)) = i
  <2>1. \E it \in S : Rank[it] = i
    <3> HIDE DEF Rank
    <3> QED BY <1>5 DEF Surjection
  <2> QED BY <2>1
<1> QED BY <1>1, <1>2, <1>3, <1>6

LEMMA OldestRank ==
  ASSUME NEW S, IsFiniteSet(S), Apart(S), \A it \in S : it.n \in Nat
  PROVE  /\ \A i \in 1 .. Cardinality(S) : Oldest(S, i) \in S /\ Cardinality(UpTo(S, Oldest(S, i))) = i
         /\ \A it \in S : \E i \in 1 .. Cardinality(S) : Oldest(S, i) = it
<1>1. ASSUME NEW i \in 1 .. Cardinality(S)
      PROVE  Oldest(S, i) \in S /\ Cardinality(UpTo(S, Oldest(S, i))) = i
  <2>1. \E it \in S : Cardinality({jt \in S : jt.n <= it.n}) = i
    BY Ranks DEF UpTo
  <2> QED BY <2>1 DEF Oldest, UpTo
<1>2. ASSUME NEW it \in S PROVE \E i \in 1 .. Cardinality(S) : Oldest(S, i) = it
  <2> DEFINE i == Cardinality(UpTo(S, it))
             jt == Oldest(S, i)
  <2>1. i \in 1 .. Cardinality(S) /\ Cardinality(S) \in Nat
    BY Ranks
  <2>2. jt \in S /\ Cardinality(UpTo(S, jt)) = i
    BY <1>1, <2>1
  <2>3. ~(it.n < jt.n) /\ ~(jt.n < it.n)
    <3> HIDE DEF jt
    <3> QED BY Ranks, <2>1, <2>2
  <2>4. it.n = jt.n
    BY <2>2, <2>3
  <2>5. it = jt
    BY <2>2, <2>4 DEF Apart
  <2> QED BY <2>1, <2>5
<1> QED BY <1>1, <1>2

\* Min comes from the library as a CHOOSE.
LEMMA MinOfTwo ==
  ASSUME NEW a \in Int, NEW b \in Int
  PROVE  Min({a, b}) \in {a, b} /\ Min({a, b}) <= a /\ Min({a, b}) <= b
<1>1. \E x \in {a, b} : \A y \in {a, b} : x <= y
  OBVIOUS
<1>2. Min({a, b}) \in {a, b} /\ \A y \in {a, b} : Min({a, b}) <= y
  BY <1>1 DEF Min
<1> QED BY <1>2

\* The answer to a sync: in order, the oldest first, and all if there is room.
LEMMA PageReads ==
  ASSUME NEW kept, IsFiniteSet(kept), Apart(kept), \A it \in kept : it.n \in Nat,
         NEW since \in Nat,
         NEW page, page = Page(kept, since)
  PROVE  /\ page \in Seq(kept)
         /\ \A i \in DOMAIN page : page[i].n > since
         /\ \A i, j \in DOMAIN page : i < j => page[i].n < page[j].n
         /\ \A it \in kept : it.n > since => page # <<>> /\ page[1].n <= it.n
         /\ Cardinality(kept) <= Limit => \A it \in kept : it.n > since => it \in Range(page)
<1> DEFINE avail == {it \in kept : it.n > since}
           len == Min({Limit, Cardinality(avail)})
<1>1. /\ IsFiniteSet(avail) /\ Apart(avail) /\ \A it \in avail : it.n \in Nat
      /\ Cardinality(avail) <= Cardinality(kept)
  <2>1. avail \in SUBSET kept
    OBVIOUS
  <2>2. IsFiniteSet(avail) /\ Cardinality(avail) <= Cardinality(kept)
    BY <2>1, FS_Subset
  <2> QED BY <2>1, <2>2 DEF Apart
<1>2. page = [i \in 1 .. len |-> Oldest(avail, i)]
  BY DEF Page
<1> HIDE DEF avail
<1>3. Cardinality(avail) \in Nat /\ Limit \in Nat /\ Limit > 0 /\ Cardinality(kept) \in Nat
  BY <1>1, FS_CardinalityType, MailboxAssumption
<1>4. len \in {Limit, Cardinality(avail)} /\ len <= Limit /\ len <= Cardinality(avail)
  BY <1>3, MinOfTwo
<1> HIDE DEF len
<1>5. len \in Nat /\ DOMAIN page = 1 .. len /\ Len(page) = len
  BY <1>2, <1>3, <1>4
<1>6. ASSUME NEW i \in 1 .. len PROVE page[i] = Oldest(avail, i) /\ page[i] \in avail
  <2>1. i \in 1 .. Cardinality(avail)
    BY <1>3, <1>4, <1>5
  <2>2. Oldest(avail, i) \in avail
    BY <1>1, <2>1, OldestRank
  <2> QED BY <1>2, <2>2
<1>7. \A it \in avail : it \in kept /\ it.n > since /\ it.n \in Nat
  BY DEF avail
<1>8. page \in Seq(kept)
  <2>1. \A i \in 1 .. len : page[i] \in kept
    BY <1>6, <1>7
  <2>2. page \in [1 .. len -> kept]
    BY <1>2, <1>5, <2>1
  <2> QED BY <1>5, <2>2
<1>9. ASSUME NEW i \in DOMAIN page, NEW j \in DOMAIN page, i < j PROVE page[i].n < page[j].n
  <2>1. /\ page[i] \in avail /\ Cardinality(UpTo(avail, page[i])) = i
        /\ page[j] \in avail /\ Cardinality(UpTo(avail, page[j])) = j
    <3>1. i \in 1 .. Cardinality(avail) /\ j \in 1 .. Cardinality(avail)
      BY <1>3, <1>4, <1>5
    <3> QED BY <1>1, <1>5, <1>6, <3>1, OldestRank
  <2>2. ~(page[j].n < page[i].n) /\ page[i] # page[j]
    BY <1>1, <1>3, <1>5, <1>9, <2>1, Ranks
  <2>3. page[i].n # page[j].n
    BY <1>1, <2>1, <2>2 DEF Apart
  <2> QED BY <1>7, <2>1, <2>2, <2>3
<1>10. ASSUME NEW it \in kept, it.n > since
       PROVE  /\ page # <<>> /\ page[1].n <= it.n
              /\ Cardinality(kept) <= Limit => it \in Range(page)
  <2>1. PICK i \in 1 .. Cardinality(avail) : Oldest(avail, i) = it
    <3>1. it \in avail
      BY <1>10 DEF avail
    <3> QED BY <1>1, <3>1, OldestRank
  <2>2. len >= 1
    BY <1>3, <1>4
  <2>3. page # <<>> /\ 1 \in 1 .. len
    BY <1>5, <2>2
  <2>4. page[1].n <= it.n
    <3>1. page[1] \in avail /\ Cardinality(UpTo(avail, page[1])) = 1
      BY <1>1, <1>3, <1>4, <1>6, <2>3, OldestRank
    <3>2. it \in avail /\ Cardinality(UpTo(avail, it)) = i
      BY <1>1, <2>1, OldestRank
    <3>3. ~(it.n < page[1].n)
      BY <1>1, <1>3, <3>1, <3>2, Ranks
    <3> QED BY <1>7, <3>1, <3>2, <3>3
  <2>5. ASSUME Cardinality(kept) <= Limit PROVE it \in Range(page)
    <3>1. len = Cardinality(avail)
      BY <1>1, <1>3, <1>4, <2>5
    <3>2. page[i] = it
      BY <1>6, <2>1, <3>1
    <3> QED BY <1>5, <3>1, <3>2 DEF Range
  <2> QED BY <2>3, <2>4, <2>5
<1>11. \A i \in DOMAIN page : page[i].n > since
  BY <1>5, <1>6, <1>7
<1> QED BY <1>8, <1>9, <1>10, <1>11

-----------------------------------------------------------------------------
(* Sequences.                                                              *)

LEMMA AppendFacts ==
  ASSUME NEW S, NEW q \in Seq(S), NEW x \in S
  PROVE  /\ Append(q, x) \in Seq(S) /\ Append(q, x) # <<>> /\ Len(Append(q, x)) = Len(q) + 1
         /\ \A i \in DOMAIN Append(q, x) : Append(q, x)[i] = IF i \in DOMAIN q THEN q[i] ELSE x
OBVIOUS

LEMMA TailFacts ==
  ASSUME NEW S, NEW q \in Seq(S), q # <<>>
  PROVE  /\ Tail(q) \in Seq(S) /\ Len(Tail(q)) = Len(q) - 1 /\ Head(q) = q[1] /\ 1 \in DOMAIN q
         /\ \A i \in DOMAIN Tail(q) : i + 1 \in DOMAIN q /\ Tail(q)[i] = q[i + 1]
OBVIOUS

-----------------------------------------------------------------------------
(* The position of a device.                                               *)

\* Taking in one more number loses none: the run without gaps grows as far as
\* it can, and there is a least number where it ends.
LEMMA PositionedFits ==
  ASSUME NEW p \in Position, NEW N \in Nat, NEW seq \in 1 .. N, NEW q,
         p.contiguous \in 1 .. N, \A s \in p.seen : p.contiguous < s /\ s <= N,
         q = Positioned(p, seq)
  PROVE  /\ q \in Position
         /\ q.cursor = p.cursor /\ q.joined = p.joined
         /\ q.contiguous \in 1 .. N /\ \A s \in q.seen : q.contiguous < s /\ s <= N
         /\ Has(q) = Has(p) \cup {seq}
<1> DEFINE c == p.contiguous
           have == p.seen \cup {s \in {seq} : s > c}
           Ends(n) == n + 1 \notin have /\ \A k \in (c + 1) .. n : k \in have
           upTo == CHOOSE n \in {c} \cup have : Ends(n)
<1>1. c \in 1 .. N /\ \A s \in have : s \in Nat /\ c < s /\ s <= N
  BY DEF Position
<1>2. \E n \in {c} \cup have : Ends(n)
  <2> DEFINE Missing == {k \in Nat : k > c /\ k \notin have}
  <2>1. N + 1 \in Missing /\ Missing \subseteq Nat
    BY <1>1
  <2>2. PICK m \in Missing : \A k \in Missing : m <= k
    <3> HIDE DEF Missing
    <3> QED BY <2>1, Least
  <2>3. m \in Nat /\ m > c /\ m \notin have /\ \A k \in (c + 1) .. (m - 1) : k \in have
    <3> HIDE DEF have
    <3> QED BY <1>1, <2>2
  <2>4. m - 1 \in {c} \cup have
    <3> HIDE DEF have
    <3>1. m - 1 = c \/ m - 1 \in (c + 1) .. (m - 1)
      BY <1>1, <2>3
    <3> QED BY <2>3, <3>1
  <2>5. Ends(m - 1)
    <3> HIDE DEF have
    <3>1. (m - 1) + 1 = m
      BY <2>3
    <3> QED BY <2>3, <3>1
  <2> QED BY <2>4, <2>5
<1>3. upTo \in {c} \cup have /\ \A k \in (c + 1) .. upTo : k \in have
  <2> HIDE DEF have
  <2> QED BY <1>2
<1>4. q = [p EXCEPT !.contiguous = upTo, !.seen = {k \in have : k > upTo}]
  <2>1. c # NoPosition
    BY <1>1 DEF NoPosition
  <2> QED BY <2>1 DEF Positioned
<1> HIDE DEF upTo, have
<1>5. /\ q.cursor = p.cursor /\ q.joined = p.joined
      /\ q.contiguous = upTo /\ q.seen = {k \in have : k > upTo}
      /\ q \in [cursor : {p.cursor}, joined : {p.joined}, contiguous : {upTo}, seen : {{k \in have : k > upTo}}]
  BY <1>4 DEF Position
<1>6. upTo \in 1 .. N /\ upTo \in Nat /\ c <= upTo
  BY <1>1, <1>3
<1>7. q \in Position
  <2>1. {k \in have : k > upTo} \subseteq Nat
    BY <1>1
  <2>2. p.cursor \in Nat /\ p.joined \in BOOLEAN
    BY DEF Position
  <2> QED BY <1>5, <1>6, <2>1, <2>2 DEF Position
<1>8. \A s \in q.seen : q.contiguous < s /\ s <= N
  BY <1>1, <1>5
<1>9. Has(q) = Has(p) \cup {seq}
  <2>1. ASSUME NEW k PROVE k \in Has(q) <=> k \in 1 .. c \cup have
    <3>1. k \in Has(q) <=> k \in 1 .. upTo \/ (k \in have /\ k > upTo)
      BY <1>5 DEF Has
    <3>2. k \in 1 .. upTo => k \in 1 .. c \cup have
      BY <1>1, <1>3, <1>6
    <3>3. k \in 1 .. c => k \in 1 .. upTo
      BY <1>1, <1>6
    <3>4. k \in have /\ ~(k > upTo) => k \in 1 .. upTo
      BY <1>1, <1>6
    <3> QED BY <3>1, <3>2, <3>3, <3>4
  <2>2. 1 .. c \cup have = Has(p) \cup {seq}
    BY <1>1 DEF Has, have
  <2> QED BY <2>1, <2>2
<1> QED BY <1>5, <1>6, <1>7, <1>8, <1>9

-----------------------------------------------------------------------------
(* What the steps do to the mailbox's store and to the devices.            *)

DevicesStay == UNCHANGED <<acks, devices, bound, position, processed, own>>

\* An item is stored and pushed.
Stores(class, seq, depositor) ==
  /\ class \in ItemClass /\ seq \in Nat
  /\ class \in {"handshake", "application"} => seq \in Numbers
  /\ class = "welcome" => seq = 1
  /\ class # "archive" => depositor = {}
  /\ Store(class, TheGroup, seq, depositor)
  /\ DevicesStay /\ UNCHANGED log

\* A device with an empty stream reads on.
Reads(d) ==
  /\ d \in devices /\ stream[d] = <<>>
  /\ Sync(d, position[d].cursor, position[d].cursor)
  /\ UNCHANGED <<log, position, processed, own>>

\* Connections end, and a device may start from the beginning.
Parts ==
  /\ bound' \subseteq bound /\ devices' \subseteq devices /\ bound' \subseteq devices'
  /\ stream' = [d \in Device |-> IF d \in bound' THEN stream[d] ELSE <<>>]
  /\ \/ position' = position
     \/ \E d \in Device : position' = [position EXCEPT ![d].cursor = 0]
  /\ UNCHANGED <<log, items, counter, acks, processed, own>>

StoreStays == DevicesStay /\ UNCHANGED <<log, items, counter, stream>>

\* A hub's deposit is stored.
Deposits(h, class, seq) ==
  /\ class \in {"handshake", "application", "group-info"}
  /\ IF class = "group-info" THEN seq = 0 ELSE seq \in Numbers
  /\ HubDeposit(TheGroup, h, class, seq)
  /\ DevicesStay /\ UNCHANGED log

\* The head of a queue is deposited, and may be deposited again.
Delivers(h) ==
  /\ backlog[h] # <<>>
  /\ Deposits(h, ClassOf(Head(backlog[h])), Head(backlog[h]))
  /\ backlog' = backlog \/ backlog' = [backlog EXCEPT ![h] = Tail(@)]

HubsStay == UNCHANGED <<groups, announced, log, backlog>>

\* Every step is one of these.
LEMMA StepKinds ==
  ASSUME DeliveryTypes, NumbersGivenOut, OnlyToBound, RegistersOne, [DeliveryNext]_deliveryVars
  PROVE  \/ \E h \in HubName, sender \in SUBSET Device : OrderItem(h, sender)
         \/ \E h \in HubName : Delivers(h)
         \/ Deposits(Host, "group-info", 0) /\ UNCHANGED backlog
         \/ \E h \in HubName : DeliverDuplicate(h) /\ StoreStays /\ UNCHANGED <<groups, announced>>
         \/ \E class \in {"welcome", "archive"}, seq \in Nat, depositor \in SUBSET Device :
              Stores(class, seq, depositor) /\ HubsStay
         \/ \E d \in Device : (Reads(d) \/ Process(d)) /\ HubsStay
         \/ (Parts \/ StoreStays) /\ HubsStay
         \/ /\ HubDepositNotStored(TheGroup, Host) \/ (\E d \in Device : NameHub(d)) \/ MailboxClock
            /\ StoreStays /\ UNCHANGED backlog
<1>1. ASSUME NEW h \in HubName, NEW sender \in {{}} \cup {{d} : d \in Sender}, OrderItem(h, sender)
      PROVE  \E k \in HubName, s \in SUBSET Device : OrderItem(k, s)
  <2>1. sender \in SUBSET Device
    BY DeliveryAssumption
  <2> QED BY <1>1, <2>1
<1>2. ASSUME NEW h \in HubName, backlog[h] # <<>>, UNCHANGED <<log, readerVars>>,
             HubDeposit(TheGroup, h, ClassOf(Head(backlog[h])), Head(backlog[h]))
      PROVE  Deposits(h, ClassOf(Head(backlog[h])), Head(backlog[h]))
  <2>1. Head(backlog[h]) \in Numbers
    BY <1>2 DEF DeliveryTypes, Numbers
  <2>2. ClassOf(Head(backlog[h])) \in {"handshake", "application"}
    BY DEF ClassOf
  <2>3. UNCHANGED deviceVars
    BY <1>2 DEF HubDeposit
  <2> QED BY <1>2, <2>1, <2>2, <2>3 DEF Deposits, DevicesStay, readerVars, deviceVars
<1>3. ASSUME NEW h \in HubName, Deliver(h) \/ DeliverUnanswered(h) \/ DeliverDuplicate(h)
      PROVE  Delivers(h) \/ (DeliverDuplicate(h) /\ StoreStays /\ UNCHANGED <<groups, announced>>)
  <2>1. CASE Deliver(h)
    BY <1>2, <2>1 DEF Deliver, Delivers
  <2>2. CASE DeliverUnanswered(h)
    BY <1>2, <2>2 DEF DeliverUnanswered, Delivers, sourceVars
  <2>3. CASE DeliverDuplicate(h)
    BY <2>3 DEF DeliverDuplicate, StoreStays, DevicesStay, mailboxVars, readerVars
  <2> QED BY <1>3, <2>1, <2>2, <2>3
<1>4. ASSUME DeliverUnnumbered
      PROVE  \/ Deposits(Host, "group-info", 0) /\ UNCHANGED backlog
             \/ HubDepositNotStored(TheGroup, Host) /\ StoreStays /\ UNCHANGED backlog
  <2>1. CASE HubDeposit(TheGroup, Host, "group-info", 0)
    BY <1>4, <2>1 DEF DeliverUnnumbered, HubDeposit, Deposits, DevicesStay, sourceVars, readerVars, deviceVars
  <2>2. CASE HubDepositNotStored(TheGroup, Host)
    BY <1>4, <2>2 DEF DeliverUnnumbered, HubDepositNotStored, StoreStays, DevicesStay, sourceVars,
                      readerVars, deviceVars
  <2> QED BY <1>4, <2>1, <2>2 DEF DeliverUnnumbered
<1>5. ASSUME NEW d \in Device, SyncFromCursor(d) \/ SyncAgain(d)
      PROVE  Reads(d) /\ HubsStay
  BY <1>5 DEF SyncFromCursor, SyncAgain, Sync, Reads, OnlyToBound, DeliveryTypes, sourceVars, readerVars, HubsStay
<1>6. ASSUME NEW d \in Device, NameHub(d)
      PROVE  StoreStays /\ UNCHANGED backlog
  <2>1. UNCHANGED <<ConfigVars, deviceVars, stream>>
    BY <1>6 DEF NameHub, Joined, MoveTo
  <2>2. UNCHANGED <<sourceVars, position, processed, own>>
    BY <1>6 DEF NameHub
  <2> QED BY <2>1, <2>2 DEF StoreStays, DevicesStay, ConfigVars, deviceVars, sourceVars
<1>7. ASSUME NEW d \in Device, Unbind(d),
             position' = position \/ position' = [position EXCEPT ![d].cursor = 0],
             UNCHANGED <<sourceVars, processed, own>>
      PROVE  Parts /\ HubsStay
  <2>1. bound' = bound \ {d} /\ stream' = [stream EXCEPT ![d] = <<>>]
        /\ UNCHANGED <<items, counter, acks, devices, groups, announced>>
    BY <1>7 DEF Unbind
  <2>2. stream' = [x \in Device |-> IF x \in bound' THEN stream[x] ELSE <<>>]
    BY <2>1 DEF OnlyToBound, DeliveryTypes
  <2> QED BY <1>7, <2>1, <2>2 DEF Parts, DeliveryTypes, HubsStay, sourceVars
<1>8. ASSUME NEW d \in Device, Disconnect(d) \/ CursorInvalid(d)
      PROVE  Parts /\ HubsStay
  BY <1>7, <1>8 DEF Disconnect, CursorInvalid, sourceVars, readerVars
<1>9. ASSUME MailboxIsUsed
      PROVE  \/ (Parts \/ StoreStays) /\ HubsStay
             \/ \E class \in {"welcome", "archive"}, seq \in Nat, depositor \in SUBSET Device :
                  Stores(class, seq, depositor) /\ HubsStay
  <2>1. UNCHANGED <<sourceVars, readerVars>>
    BY <1>9 DEF MailboxIsUsed
  <2>2. CASE Welcome(TheGroup, FirstHub, 1, TRUE, TheGroup)
    <3>1. Stores("welcome", 1, {}) /\ UNCHANGED announced
      BY <2>1, <2>2 DEF Welcome, Stores, DevicesStay, sourceVars, readerVars, deviceVars, ItemClass
    <3>2. groups' = groups
      BY <2>2 DEF Welcome, RegistersOne
    <3> QED BY <2>1, <3>1, <3>2 DEF HubsStay, sourceVars
  <2>3. CASE \E d \in devices : \E seq \in Taken(d) : Archive(d, TheGroup, seq)
    <3>1. PICK d \in devices : \E seq \in Taken(d) : Archive(d, TheGroup, seq)
      BY <2>3
    <3>2. PICK seq \in Taken(d) : Archive(d, TheGroup, seq)
      BY <3>1
    <3>3. d \in Device /\ seq \in Nat
      BY DEF DeliveryTypes, Taken, Range
    <3>4. Stores("archive", seq, {d}) /\ HubsStay
      BY <2>1, <3>2, <3>3 DEF Archive, Stores, DevicesStay, HubsStay, sourceVars, readerVars, deviceVars, ItemClass
    <3> QED BY <3>3, <3>4
  <2>4. CASE \E m \in {"sync", "queue"} : SetMode(m)
    BY <2>1, <2>4 DEF SetMode, ConfigVars, StoreStays, DevicesStay, HubsStay, sourceVars, readerVars
  <2>5. CASE \E d \in devices : devices # {d} /\ RevokeDevice(d)
    <3>1. PICK d \in devices : RevokeDevice(d)
      BY <2>5
    <3>2. d \in Device
      BY DEF DeliveryTypes
    <3>3. /\ devices' = devices \ {d} /\ bound' = bound \ {d} /\ stream' = [stream EXCEPT ![d] = <<>>]
          /\ UNCHANGED <<items, counter, acks, groups, announced>>
      BY <3>1 DEF RevokeDevice, ConfigVars
    <3>4. stream' = [x \in Device |-> IF x \in bound' THEN stream[x] ELSE <<>>]
      BY <3>2, <3>3 DEF OnlyToBound, DeliveryTypes
    <3> QED BY <2>1, <3>3, <3>4 DEF Parts, DeliveryTypes, HubsStay, sourceVars, readerVars
  <2> QED BY <1>9, <2>2, <2>3, <2>4, <2>5 DEF MailboxIsUsed
<1>10. ASSUME MailboxRestarts PROVE Parts /\ HubsStay
  BY <1>10 DEF MailboxRestarts, MailboxRestart, Parts, HubsStay, sourceVars, readerVars
<1>11. ASSUME MailboxClock PROVE StoreStays /\ UNCHANGED backlog
  <2>1. items' = items
    <3>1. \A it \in items : it.group = TheGroup
      BY DEF DeliveryTypes, StoredItem
    <3>2. groups[TheGroup].state = "joined"
      BY <1>11 DEF MailboxClock
    <3>3. items' = {it \in items : ~(it.group \in DOMAIN groups /\ groups[it.group].state = "pending"
                                     /\ groups[it.group].age = PendingTtl) \/ it.class = "archive"}
      BY <1>11 DEF MailboxClock, MailboxAdvance
    <3> QED BY <3>1, <3>2, <3>3
  <2> QED BY <1>11, <2>1 DEF MailboxClock, MailboxAdvance, StoreStays, DevicesStay, sourceVars, readerVars,
                             deviceVars
<1>12. ASSUME UNCHANGED deliveryVars PROVE StoreStays /\ HubsStay
  BY <1>12 DEF deliveryVars, mailboxVars, sourceVars, readerVars, StoreStays, DevicesStay, HubsStay
<1>13. ASSUME NEW d \in Device, Process(d) PROVE HubsStay
  BY <1>13 DEF Process, HubsStay, sourceVars
<1> QED BY <1>1, <1>3, <1>4, <1>5, <1>6, <1>8, <1>9, <1>10, <1>11, <1>12, <1>13 DEF DeliveryNext

\* The same, as far as the store and the devices are concerned.
LEMMA StoreKinds ==
  ASSUME DeliveryTypes, NumbersGivenOut, OnlyToBound, RegistersOne, [DeliveryNext]_deliveryVars
  PROVE  \/ \E h \in HubName, sender \in SUBSET Device : OrderItem(h, sender)
         \/ \E class \in ItemClass, seq \in Nat, depositor \in SUBSET Device : Stores(class, seq, depositor)
         \/ \E d \in Device : Reads(d)
         \/ \E d \in Device : Process(d)
         \/ Parts
         \/ StoreStays
<1>1. ASSUME NEW h, NEW class, NEW seq, Deposits(h, class, seq)
      PROVE  class \in ItemClass /\ seq \in Nat /\ Stores(class, seq, {})
  BY <1>1 DEF Deposits, HubDeposit, Stores, Numbers, ItemClass
<1>2. \A class \in {"welcome", "archive"} : class \in ItemClass
  BY DEF ItemClass
<1>3. {} \in SUBSET Device
  OBVIOUS
<1>4. ASSUME NEW h \in HubName, Delivers(h)
      PROVE  \E class \in ItemClass, seq \in Nat, depositor \in SUBSET Device : Stores(class, seq, depositor)
  BY <1>1, <1>3, <1>4 DEF Delivers
<1>5. ASSUME Deposits(Host, "group-info", 0)
      PROVE  \E class \in ItemClass, seq \in Nat, depositor \in SUBSET Device : Stores(class, seq, depositor)
  BY <1>1, <1>3, <1>5
<1> QED BY <1>2, <1>4, <1>5, StepKinds

-----------------------------------------------------------------------------
(* The registration of the group.                                          *)

\* A registration in the same state of its move.
SameMove(r, t) == r.hub = t.hub /\ r.prev.hub = t.prev.hub /\ r.prev.through = t.prev.through

LEMMA NoticedFits ==
  ASSUME NEW r \in RegistrationRecord, NEW h, NEW t, t = Noticed(r, h)
  PROVE  /\ t \in RegistrationRecord /\ SameMove(r, t) /\ t.high = r.high
         /\ IF r.hub = h /\ Awaited(r) THEN t.prev.released = r.high /\ t.prev.late = {}
                                      ELSE t.prev.released = r.prev.released /\ t.prev.late = r.prev.late
<1>1. CASE ~(r.hub = h /\ Awaited(r))
  BY <1>1 DEF Noticed, SameMove
<1>2. CASE r.hub = h /\ Awaited(r)
  <2>1. PICK p : p = [r.prev EXCEPT !.released = r.high, !.late = {}]
    OBVIOUS
  <2>2. r.prev \in Previous /\ r.high \in Nat
    BY DEF RegistrationRecord
  <2>3. /\ p \in [hub : {r.prev.hub}, through : {r.prev.through}, waited : {r.prev.waited}, released : {r.high}, late : {{}}]
        /\ p.hub = r.prev.hub /\ p.through = r.prev.through /\ p.released = r.high /\ p.late = {}
    BY <2>1, <2>2 DEF Previous
  <2>4. p \in Previous
    BY <2>2, <2>3 DEF Previous
  <2>5. t = [r EXCEPT !.prev = p]
    <3>1. t = [r EXCEPT !.prev.released = r.high, !.prev.late = {}]
      BY <1>2 DEF Noticed
    <3> QED BY <2>1, <3>1 DEF RegistrationRecord
  <2>6. t \in RegistrationRecord /\ t.prev = p /\ t.hub = r.hub /\ t.high = r.high
    BY <2>4, <2>5 DEF RegistrationRecord
  <2> QED BY <1>2, <2>3, <2>6 DEF SameMove
<1> QED BY <1>1, <1>2

\* What a stored deposit of hub h, numbered seq, makes of registration r.
DepositMakes(r, h, seq, t) ==
  /\ t \in RegistrationRecord /\ SameMove(r, t)
  /\ Admits(r, h, seq)
  /\ IF Late(r, h, seq) \/ seq = 0 THEN t.high = r.high ELSE t.high = seq /\ seq > r.high
  /\ IF r.hub = h /\ Awaited(r) THEN t.prev.released = r.high /\ t.prev.late = {}
     ELSE /\ t.prev.released = r.prev.released
          /\ t.prev.late = IF Late(r, h, seq) THEN r.prev.late \cup {seq} ELSE r.prev.late

LEMMA DepositFacts ==
  ASSUME RegistersOne, NEW h \in HubName, NEW class, NEW seq \in Nat,
         HubDeposit(TheGroup, h, class, seq)
  PROVE  /\ RegistersOne'
         /\ DepositMakes(groups[TheGroup], h, seq, groups'[TheGroup])
         /\ announced \subseteq announced'
         /\ groups[TheGroup].hub = h /\ Awaited(groups[TheGroup]) => announced' # {}
<1>1. PICK r : r = groups[TheGroup]
  OBVIOUS
<1>2. r \in RegistrationRecord
  BY <1>1 DEF RegistersOne
<1>3. PICK n : n = Noticed(r, h)
  OBVIOUS
<1>4. /\ n \in RegistrationRecord /\ SameMove(r, n) /\ n.high = r.high
      /\ IF r.hub = h /\ Awaited(r) THEN n.prev.released = r.high /\ n.prev.late = {}
                                   ELSE n.prev.released = r.prev.released /\ n.prev.late = r.prev.late
  BY <1>2, <1>3, NoticedFits
<1>5. PICK late : late = Late(r, h, seq)
  OBVIOUS
<1>6. PICK t : t = [n EXCEPT !.stored = @ + 1,
                             !.high = IF late \/ seq = 0 THEN @ ELSE seq,
                             !.prev.late = IF late THEN @ \cup {seq} ELSE @]
  OBVIOUS
<1>7. /\ groups' = [groups EXCEPT ![TheGroup] = t]
      /\ Admits(r, h, seq) /\ ~Redelivered(r, h, seq)
      /\ announced' = announced \cup {x \in {TheGroup} : r.hub = h /\ Awaited(r)}
  BY <1>1, <1>3, <1>5, <1>6 DEF HubDeposit
<1>8. groups'[TheGroup] = t
  BY <1>7 DEF RegistersOne
<1>9. PICK p : p = [n.prev EXCEPT !.late = IF late THEN @ \cup {seq} ELSE @]
  OBVIOUS
<1>10. n.prev \in Previous /\ n.high \in Nat /\ n.stored \in Nat
  BY <1>4 DEF RegistrationRecord
<1>11. /\ p \in Previous /\ p.hub = n.prev.hub /\ p.through = n.prev.through /\ p.released = n.prev.released
       /\ p.late = IF late THEN n.prev.late \cup {seq} ELSE n.prev.late
  <2>1. n.prev.late \in SUBSET Nat
    BY <1>10 DEF Previous
  <2> QED BY <1>9, <1>10, <2>1 DEF Previous
<1>12. t = [n EXCEPT !.stored = n.stored + 1, !.high = IF late \/ seq = 0 THEN n.high ELSE seq, !.prev = p]
  BY <1>4, <1>6, <1>9 DEF RegistrationRecord
<1>13. /\ t.hub = n.hub /\ t.prev = p /\ t.high = IF late \/ seq = 0 THEN n.high ELSE seq
       /\ t \in [hub : {n.hub}, state : {n.state}, age : {n.age}, stored : {n.stored + 1}, high : Nat, prev : {p}]
  BY <1>4, <1>10, <1>12 DEF RegistrationRecord
<1>14. t \in RegistrationRecord
  <2>1. n.hub \in HubName /\ n.state \in {"pending", "joined"} /\ n.age \in Nat /\ n.stored + 1 \in Nat
    BY <1>4, <1>10 DEF RegistrationRecord
  <2> QED BY <1>11, <1>13, <2>1 DEF RegistrationRecord
<1>15. SameMove(r, t)
  BY <1>4, <1>11, <1>13 DEF SameMove
<1>16. IF late \/ seq = 0 THEN t.high = r.high ELSE t.high = seq /\ seq > r.high
  <2>1. r.high \in Nat
    BY <1>2 DEF RegistrationRecord
  <2> QED BY <1>4, <1>5, <1>7, <1>13, <2>1 DEF Redelivered
<1>17. late => r.hub # h
  BY <1>5 DEF Late, FromPrevious
<1>18. DepositMakes(r, h, seq, t)
  BY <1>4, <1>5, <1>7, <1>11, <1>13, <1>14, <1>15, <1>16, <1>17 DEF DepositMakes
<1>19. RegistersOne'
  BY <1>7, <1>14 DEF RegistersOne
<1> QED BY <1>1, <1>7, <1>8, <1>18, <1>19

\* Another step leaves what was stored alone and may start or end a wait.
LEMMA OtherRegistrations ==
  ASSUME RegistersOne, DeliveryTypes, NamesGivenOut,
         \/ HubDepositNotStored(TheGroup, Host) \/ (\E d \in Device : NameHub(d)) \/ MailboxClock
  PROVE  /\ RegistersOne' /\ announced \subseteq announced'
         /\ groups'[TheGroup].high = groups[TheGroup].high
         /\ \/ SameMove(groups[TheGroup], groups'[TheGroup])
               /\ groups'[TheGroup].prev.released = groups[TheGroup].prev.released
               /\ groups'[TheGroup].prev.late = groups[TheGroup].prev.late
            \/ /\ SameMove(groups[TheGroup], groups'[TheGroup]) /\ announced' # {}
               /\ Awaited(groups[TheGroup])
               /\ groups'[TheGroup].prev.released = groups[TheGroup].high
               /\ groups'[TheGroup].prev.late = {}
            \/ \E k \in Moves :
               /\ groups[TheGroup].hub # log[k] /\ groups'[TheGroup].hub = log[k]
               /\ groups'[TheGroup].prev = [NoPrevious EXCEPT !.hub = groups[TheGroup].hub, !.through = k]
<1>1. PICK r : r = groups[TheGroup]
  OBVIOUS
<1>2. r \in RegistrationRecord
  BY <1>1 DEF RegistersOne
<1>3. CASE HubDepositNotStored(TheGroup, Host)
  <2>1. PICK t : t = Noticed(r, Host)
    OBVIOUS
  <2>2. /\ groups' = [groups EXCEPT ![TheGroup] = t] /\ r.hub = Host /\ Awaited(r)
        /\ announced' = announced \cup {TheGroup}
    BY <1>1, <1>3, <2>1 DEF HubDepositNotStored, RegistersOne
  <2>3. /\ t \in RegistrationRecord /\ SameMove(r, t) /\ t.high = r.high
        /\ t.prev.released = r.high /\ t.prev.late = {}
    BY <1>2, <2>1, <2>2, NoticedFits
  <2>4. RegistersOne' /\ groups'[TheGroup] = t
    BY <2>2, <2>3 DEF RegistersOne
  <2> QED BY <1>1, <2>2, <2>3, <2>4
<1>4. CASE \E d \in Device : NameHub(d)
  <2>1. PICK d \in Device : NameHub(d)
    BY <1>4
  <2>2. PICK k : k = Head(naming[d])
    OBVIOUS
  <2>3. k \in Numbers /\ k \in DOMAIN log /\ k \in Nat /\ log[k] \in HubName
    <3>1. naming[d] \in Seq(Numbers) /\ naming[d] # <<>>
      BY <2>1 DEF NamesGivenOut, NameHub
    <3>2. k \in Numbers
      BY <2>2, <3>1
    <3> QED BY <3>2 DEF Numbers, DeliveryTypes
  <2>4. Joined(TheGroup) \/ (IsMove(k) /\ MoveTo(TheGroup, log[k], k))
    BY <2>1, <2>2 DEF NameHub
  <2>5. CASE Joined(TheGroup)
    <3>1. PICK t : t = [r EXCEPT !.state = "joined", !.age = 0]
      OBVIOUS
    <3>2. groups' = [groups EXCEPT ![TheGroup] = t] /\ UNCHANGED announced
      BY <1>1, <2>5, <3>1 DEF Joined, ConfigVars, RegistersOne
    <3>3. t \in RegistrationRecord /\ t.prev = r.prev /\ t.hub = r.hub /\ t.high = r.high
      BY <1>2, <3>1 DEF RegistrationRecord
    <3>4. RegistersOne' /\ groups'[TheGroup] = t
      BY <3>2, <3>3 DEF RegistersOne
    <3> QED BY <1>1, <3>2, <3>3, <3>4 DEF SameMove
  <2>6. CASE IsMove(k) /\ MoveTo(TheGroup, log[k], k)
    <3>1. PICK p : p = [NoPrevious EXCEPT !.hub = r.hub, !.through = k]
      OBVIOUS
    <3>2. PICK t : t = [r EXCEPT !.state = "joined", !.age = 0, !.hub = log[k], !.prev = p]
      OBVIOUS
    <3>3. groups' = [groups EXCEPT ![TheGroup] = t] /\ r.hub # log[k] /\ UNCHANGED announced
      BY <1>1, <2>6, <3>1, <3>2 DEF MoveTo, ConfigVars, RegistersOne
    <3>4. p \in Previous
      <4>1. p \in [hub : {r.hub}, through : {k}, waited : {0}, released : {Waiting}, late : {{}}]
        BY <3>1 DEF NoPrevious
      <4>2. r.hub \in HubName
        BY <1>2 DEF RegistrationRecord
      <4> QED BY <2>3, <4>1, <4>2 DEF Previous
    <3>5. /\ t \in RegistrationRecord /\ t.prev = p /\ t.hub = log[k] /\ t.high = r.high
      BY <1>2, <2>3, <3>2, <3>4 DEF RegistrationRecord
    <3>6. RegistersOne' /\ groups'[TheGroup] = t
      BY <3>3, <3>5 DEF RegistersOne
    <3>7. k \in Moves
      BY <2>3, <2>6 DEF Moves
    <3> QED BY <1>1, <3>1, <3>3, <3>5, <3>6, <3>7
  <2> QED BY <2>4, <2>5, <2>6
<1>5. CASE MailboxClock
  <2>1. groups[TheGroup].state = "joined" /\ MailboxAdvance
    BY <1>5 DEF MailboxClock
  <2>2. PICK t : t = [r EXCEPT !.age = IF r.state = "pending" THEN Tick(@, PendingTtl) ELSE @,
                               !.prev.waited = IF r.prev = NoPrevious THEN @ ELSE Tick(@, HandoverWait)]
    OBVIOUS
  <2>3. groups' = [g \in {TheGroup} |-> t] /\ UNCHANGED announced
    BY <1>1, <2>1, <2>2 DEF MailboxAdvance, RegistersOne
  <2>4. PICK p : p = [r.prev EXCEPT !.waited = IF r.prev = NoPrevious THEN @ ELSE Tick(@, HandoverWait)]
    OBVIOUS
  <2>5. r.prev \in Previous /\ r.state = "joined"
    BY <1>1, <1>2, <2>1 DEF RegistrationRecord
  <2>6. /\ p \in Previous /\ p.hub = r.prev.hub /\ p.through = r.prev.through /\ p.released = r.prev.released
        /\ p.late = r.prev.late
    <3>1. \A n \in Nat : Tick(n, HandoverWait) \in Nat
      BY MailboxAssumption DEF Tick
    <3> QED BY <2>4, <2>5, <3>1 DEF Previous
  <2>7. t = [r EXCEPT !.prev = p]
    BY <1>2, <2>2, <2>4, <2>5 DEF RegistrationRecord
  <2>8. t \in RegistrationRecord /\ t.prev = p /\ t.hub = r.hub /\ t.high = r.high
    BY <1>2, <2>6, <2>7 DEF RegistrationRecord
  <2>9. RegistersOne' /\ groups'[TheGroup] = t
    BY <2>3, <2>8 DEF RegistersOne
  <2> QED BY <1>1, <2>3, <2>6, <2>8, <2>9 DEF SameMove
<1> QED BY <1>3, <1>4, <1>5

-----------------------------------------------------------------------------
(* DeliveryInv.                                                            *)

LEMMA DeliveryInitInv == DeliveryInit => DeliveryInv
<1> SUFFICES ASSUME DeliveryInit PROVE DeliveryInv
  OBVIOUS
<1>1. DeliveryTypes
  <2>1. Item(1, "welcome", TheGroup, 1) \in StoredItem
    BY DEF Item, StoredItem, ItemClass
  <2>2. items \subseteq StoredItem /\ IsFiniteSet(items)
    BY <2>1, FS_Singleton DEF DeliveryInit
  <2>3. position \in [Device -> Position]
    BY DEF DeliveryInit, Fresh, Position, NoPosition
  <2>4. log \in Seq(HubName) /\ log # <<>>
    BY DeliveryAssumption DEF DeliveryInit
  <2> QED BY <2>2, <2>3, <2>4 DEF DeliveryInit, DeliveryTypes
<1>2. CursorsApart /\ NumbersGivenOut /\ OnlyToBound
  BY DEF DeliveryInit, CursorsApart, NumbersGivenOut, OnlyToBound, InLog, Item, Sequenced
<1>3. ASSUME NEW d \in Device PROVE PositionCovers(d) /\ WelcomeFirst(d) /\ TakenOnce(d)
  <2>1. position[d] = Fresh /\ acks[d] = 0 /\ processed[d] = <<>> /\ own[d] = {}
    BY DEF DeliveryInit, Fresh
  <2>2. Item(1, "welcome", TheGroup, 1) \in items /\ d \notin bound
    BY DEF DeliveryInit
  <2> QED BY <2>1, <2>2 DEF PositionCovers, WelcomeFirst, TakenOnce, Item, Fresh
<1>4. RegistersOne
  <2>1. PICK r : r = Registration(FirstHub, "pending")
    OBVIOUS
  <2>2. NoPrevious \in Previous
    BY DEF NoPrevious, Previous
  <2>3. r \in RegistrationRecord
    BY <2>1, <2>2, DeliveryAssumption DEF Registration, RegistrationRecord
  <2>4. groups = [g \in {TheGroup} |-> r]
    BY <2>1 DEF DeliveryInit
  <2> QED BY <2>3, <2>4 DEF RegistersOne
<1>5. NamesGivenOut
  BY DEF DeliveryInit, NamesGivenOut
<1> QED BY <1>1, <1>2, <1>3, <1>4, <1>5 DEF DeliveryInv

\* The queues of the hubs hold numbers that have been given out.
LEMMA BacklogTypes ==
  ASSUME DeliveryTypes, [DeliveryNext]_deliveryVars
  PROVE  backlog' \in [HubName -> Seq(Numbers')] /\ Len(log) <= Len(log') /\ Numbers \subseteq Numbers'
<1>1. /\ backlog \in [HubName -> Seq(Numbers)] /\ log \in Seq(HubName) /\ Len(log) \in Nat
  BY DEF DeliveryTypes
<1>2. ASSUME NEW h \in HubName, NEW sender, OrderItem(h, sender)
      PROVE  backlog' \in [HubName -> Seq(Numbers')] /\ Len(log) <= Len(log') /\ Numbers \subseteq Numbers'
  <2>1. log' = Append(log, h) /\ backlog' = [backlog EXCEPT ![Host] = Append(@, Len(log) + 1)]
    BY <1>2 DEF OrderItem
  <2>2. Len(log') = Len(log) + 1
    BY <1>1, <2>1
  <2>3. Numbers \subseteq Numbers' /\ Len(log) + 1 \in Numbers'
    BY <1>1, <2>2 DEF Numbers
  <2>4. backlog \in [HubName -> Seq(Numbers')]
    <3> DEFINE N == Numbers'
    <3>1. \A k \in HubName : backlog[k] \in Seq(N)
      BY <1>1, <2>3
    <3> QED BY <1>1, <3>1
  <2>5. backlog' \in [HubName -> Seq(Numbers')]
    <3> DEFINE N == Numbers'
    <3> HIDE DEF N
    <3>1. ASSUME NEW q \in Seq(N), NEW k \in N PROVE Append(q, k) \in Seq(N)
      OBVIOUS
    <3>2. backlog \in [HubName -> Seq(N)] /\ Len(log) + 1 \in N
      BY <2>3, <2>4 DEF N
    <3>3. backlog' \in [HubName -> Seq(N)]
      BY <2>1, <3>1, <3>2
    <3> QED BY <3>3 DEF N
  <2> QED BY <1>1, <2>2, <2>3, <2>5
<1>3. ASSUME NEW h \in HubName, backlog[h] # <<>>, backlog' = [backlog EXCEPT ![h] = Tail(@)], log' = log
      PROVE  backlog' \in [HubName -> Seq(Numbers')]
  <2>1. Numbers' = Numbers
    BY <1>3 DEF Numbers
  <2>2. Tail(backlog[h]) \in Seq(Numbers)
    BY <1>1, <1>3
  <2> QED BY <1>1, <1>3, <2>1, <2>2
<1>4. ASSUME UNCHANGED sourceVars
      PROVE  backlog' \in [HubName -> Seq(Numbers')] /\ Len(log) <= Len(log') /\ Numbers \subseteq Numbers'
  BY <1>1, <1>4 DEF Numbers, sourceVars
<1>5. CASE \E h \in HubName, sender \in {{}} \cup {{d} : d \in Sender} : OrderItem(h, sender)
  BY <1>2, <1>5
<1>6. ASSUME NEW h \in HubName, Deliver(h) \/ DeliverUnanswered(h) \/ DeliverDuplicate(h)
      PROVE  backlog' \in [HubName -> Seq(Numbers')] /\ Len(log) <= Len(log') /\ Numbers \subseteq Numbers'
  <2>1. CASE Deliver(h) \/ DeliverDuplicate(h)
    <3>1. backlog[h] # <<>> /\ backlog' = [backlog EXCEPT ![h] = Tail(@)] /\ log' = log
      BY <2>1 DEF Deliver, DeliverDuplicate
    <3> QED BY <1>1, <1>3, <3>1 DEF Numbers
  <2>2. CASE DeliverUnanswered(h)
    BY <1>4, <2>2 DEF DeliverUnanswered
  <2> QED BY <1>6, <2>1, <2>2
<1>7. CASE \/ DeliverUnnumbered \/ MailboxIsUsed \/ MailboxRestarts \/ MailboxClock
           \/ \E d \in Device : \/ SyncFromCursor(d) \/ SyncAgain(d) \/ Process(d) \/ NameHub(d)
                                \/ Disconnect(d) \/ CursorInvalid(d)
  BY <1>4, <1>7 DEF DeliverUnnumbered, MailboxIsUsed, MailboxRestarts, MailboxClock, SyncFromCursor, SyncAgain,
                    Process, NameHub, Disconnect, CursorInvalid
<1>8. CASE UNCHANGED deliveryVars
  BY <1>4, <1>8 DEF deliveryVars
<1> QED BY <1>5, <1>6, <1>7, <1>8 DEF DeliveryNext

LEMMA RegistersStep ==
  ASSUME DeliveryTypes, NumbersGivenOut, OnlyToBound, RegistersOne, NamesGivenOut, [DeliveryNext]_deliveryVars
  PROVE  RegistersOne'
<1>1. ASSUME NEW h \in HubName, NEW class, NEW seq, Deposits(h, class, seq)
      PROVE  RegistersOne'
  BY <1>1, DepositFacts DEF Deposits, Numbers
<1>2. Host \in HubName
  BY DeliveryAssumption DEF Host, HubAfter, DeliveryTypes
<1>3. ASSUME UNCHANGED groups PROVE RegistersOne'
  BY <1>3 DEF RegistersOne
<1>4. CASE \E h \in HubName, sender \in SUBSET Device : OrderItem(h, sender)
  BY <1>3, <1>4 DEF OrderItem, mailboxVars
<1>5. CASE \E h \in HubName : Delivers(h)
  BY <1>1, <1>5 DEF Delivers
<1>6. CASE Deposits(Host, "group-info", 0)
  BY <1>1, <1>2, <1>6
<1>7. CASE UNCHANGED groups
  BY <1>3, <1>7
<1>8. CASE HubDepositNotStored(TheGroup, Host) \/ (\E d \in Device : NameHub(d)) \/ MailboxClock
  BY <1>8, OtherRegistrations
<1> QED BY <1>4, <1>5, <1>6, <1>7, <1>8, StepKinds DEF HubsStay

LEMMA NamesStep ==
  ASSUME DeliveryTypes, NumbersGivenOut, NamesGivenOut, [DeliveryNext]_deliveryVars
  PROVE  NamesGivenOut'
<1>1. PICK N, M : N = Numbers /\ M = Numbers'
  OBVIOUS
<1>2. naming \in [Device -> Seq(N)] /\ N \subseteq M /\ Len(log) \in Nat
  BY <1>1, BacklogTypes DEF NamesGivenOut, DeliveryTypes
<1>3. ASSUME NEW q \in Seq(N) PROVE q \in Seq(M) /\ \A k \in M : Append(q, k) \in Seq(M)
  <2>1. q \in Seq(M)
    BY <1>2, <1>3
  <2> QED BY <2>1, AppendFacts
<1>4. ASSUME UNCHANGED naming PROVE naming' \in [Device -> Seq(M)]
  BY <1>2, <1>3, <1>4
<1>5. ASSUME NEW h \in HubName, NEW sender, OrderItem(h, sender)
      PROVE  naming' \in [Device -> Seq(M)]
  <2>1. PICK seq : seq = Len(log) + 1
    OBVIOUS
  <2>2. naming' = [d \in Device |-> IF d \in sender /\ h # Host THEN Append(naming[d], seq) ELSE naming[d]]
    BY <1>5, <2>1 DEF OrderItem
  <2>3. seq \in M
    <3>1. log' = Append(log, h) /\ log \in Seq(HubName)
      BY <1>5 DEF OrderItem, DeliveryTypes
    <3>2. Len(log') = Len(log) + 1
      BY <3>1, AppendFacts
    <3> QED BY <1>1, <1>2, <2>1, <3>2 DEF Numbers
  <2> QED BY <1>2, <1>3, <2>2, <2>3
<1>6. ASSUME NEW d \in Device, Process(d)
      PROVE  naming' \in [Device -> Seq(M)]
  <2>1. PICK it : it = Head(stream[d])
    OBVIOUS
  <2>2. naming' = naming \/ /\ it.class = "welcome" \/ it.class = "handshake"
                            /\ naming' = [naming EXCEPT ![d] = Append(@, it.seq)]
    BY <1>6, <2>1 DEF Process
  <2>3. ASSUME it.class = "welcome" \/ it.class = "handshake" PROVE it.seq \in M
    <3>1. it = stream[d][1] /\ 1 \in DOMAIN stream[d]
      <4>1. stream[d] \in Seq(StoredItem) /\ stream[d] # <<>>
        BY <1>6 DEF Process, DeliveryTypes
      <4>2. PICK q : q = stream[d]
        OBVIOUS
      <4>3. Head(q) = q[1] /\ 1 \in DOMAIN q
        BY <4>1, <4>2, TailFacts
      <4> QED BY <2>1, <4>2, <4>3
    <3>2. InLog(it, Len(log))
      BY <3>1 DEF NumbersGivenOut
    <3>3. Len(log) # 0
      BY DEF DeliveryTypes
    <3>4. it.seq \in N
      BY <1>1, <1>2, <2>3, <3>2, <3>3 DEF InLog, Sequenced, Numbers
    <3> QED BY <1>2, <3>4
  <2>4. CASE naming' = naming
    BY <1>4, <2>4
  <2>5. CASE naming' # naming
    <3>1. PICK k : k = it.seq
      OBVIOUS
    <3>2. k \in M /\ naming' = [naming EXCEPT ![d] = Append(@, k)]
      BY <2>2, <2>3, <2>5, <3>1
    <3> QED BY <1>2, <1>3, <3>2
  <2> QED BY <2>4, <2>5
<1>7. ASSUME NEW d \in Device, NameHub(d)
      PROVE  naming' \in [Device -> Seq(M)]
  <2>1. naming' = [naming EXCEPT ![d] = Tail(@)] /\ naming[d] # <<>> /\ naming[d] \in Seq(N)
    BY <1>2, <1>7 DEF NameHub
  <2>2. Tail(naming[d]) \in Seq(N)
    BY <2>1
  <2> QED BY <1>2, <1>3, <2>1, <2>2
<1>8. ASSUME NEW h \in HubName, Deliver(h) \/ DeliverUnanswered(h) \/ DeliverDuplicate(h)
      PROVE  UNCHANGED naming
  BY <1>8 DEF Deliver, DeliverUnanswered, DeliverDuplicate, readerVars
<1>9. ASSUME \/ DeliverUnnumbered \/ MailboxIsUsed \/ MailboxRestarts \/ MailboxClock \/ UNCHANGED deliveryVars
             \/ \E d \in Device : \/ SyncFromCursor(d) \/ SyncAgain(d)
                                  \/ Disconnect(d) \/ CursorInvalid(d)
      PROVE  UNCHANGED naming
  BY <1>9 DEF DeliverUnnumbered, MailboxIsUsed, MailboxRestarts, MailboxClock, SyncFromCursor, SyncAgain,
              Disconnect, CursorInvalid, readerVars, deliveryVars
<1>10. naming' \in [Device -> Seq(M)]
  BY <1>4, <1>5, <1>6, <1>7, <1>8, <1>9 DEF DeliveryNext
<1> QED BY <1>1, <1>10 DEF NamesGivenOut

\* More numbers given out disturb nothing that is about fewer.
LEMMA InLogStays ==
  ASSUME NEW m \in Nat, NEW n \in Nat, m <= n, NEW it, InLog(it, m)
  PROVE  InLog(it, n)
BY DEF InLog, Sequenced

\* What was stored before stays if nothing of the mailbox changes.
LEMMA StaysInv ==
  ASSUME DeliveryInv, [DeliveryNext]_deliveryVars, StoreStays
  PROVE  DeliveryInv'
<1>1. /\ UNCHANGED <<acks, devices, bound, position, processed, own>>
      /\ UNCHANGED <<log, items, counter, stream>>
  BY DEF StoreStays, DevicesStay
<1>2. DeliveryTypes'
  BY <1>1, BacklogTypes DEF DeliveryInv, DeliveryTypes, Numbers
<1>3. CursorsApart' /\ NumbersGivenOut' /\ OnlyToBound'
  BY <1>1 DEF DeliveryInv, CursorsApart, NumbersGivenOut, OnlyToBound
<1>4. ASSUME NEW d \in Device PROVE PositionCovers(d)' /\ WelcomeFirst(d)' /\ TakenOnce(d)'
  <2>1. PositionCovers(d) /\ WelcomeFirst(d) /\ TakenOnce(d)
    BY DEF DeliveryInv
  <2> QED BY <1>1, <2>1 DEF PositionCovers, WelcomeFirst, TakenOnce, Taken, Numbers
<1> QED BY <1>2, <1>3, <1>4, RegistersStep, NamesStep DEF DeliveryInv

LEMMA PartsInv ==
  ASSUME DeliveryInv, [DeliveryNext]_deliveryVars, Parts
  PROVE  DeliveryInv'
<1>1. /\ bound' \subseteq bound /\ devices' \subseteq devices /\ bound' \subseteq devices'
      /\ UNCHANGED <<log, items, counter, acks, processed, own>>
  BY DEF Parts
<1>2. ASSUME NEW d \in Device PROVE stream'[d] = IF d \in bound' THEN stream[d] ELSE <<>>
  BY DEF Parts
<1>3. ASSUME NEW d \in Device
      PROVE  /\ position'[d] \in Position
             /\ position'[d] = position[d] \/ position'[d] = [position[d] EXCEPT !.cursor = 0]
  <2>1. position \in [Device -> Position]
    BY DEF DeliveryInv, DeliveryTypes
  <2>2. position'[d] = position[d] \/ position'[d] = [position[d] EXCEPT !.cursor = 0]
    BY <2>1 DEF Parts
  <2> QED BY <2>1, <2>2 DEF Position
<1>4. DeliveryTypes'
  <2>1. stream' \in [Device -> Seq(StoredItem)]
    BY <1>2 DEF Parts, DeliveryInv, DeliveryTypes
  <2>2. position' \in [Device -> Position]
    BY <1>3 DEF Parts, DeliveryInv, DeliveryTypes
  <2> QED BY <1>1, <2>1, <2>2, BacklogTypes DEF DeliveryInv, DeliveryTypes, Numbers
<1>5. CursorsApart' /\ NumbersGivenOut' /\ OnlyToBound'
  <2>1. CursorsApart'
    BY <1>1 DEF DeliveryInv, CursorsApart
  <2>2. Numbers' = Numbers
    BY <1>1 DEF Numbers
  <2>4. NumbersGivenOut'
    BY <1>1, <1>2 DEF DeliveryInv, NumbersGivenOut
  <2> QED BY <1>2, <2>1, <2>4 DEF OnlyToBound
<1>6. ASSUME NEW d \in Device PROVE PositionCovers(d)' /\ WelcomeFirst(d)' /\ TakenOnce(d)'
  <2>1. PositionCovers(d) /\ WelcomeFirst(d) /\ TakenOnce(d) /\ position[d] \in Position
    BY DEF DeliveryInv, DeliveryTypes
  <2>2. /\ position'[d].joined = position[d].joined /\ position'[d].contiguous = position[d].contiguous
        /\ position'[d].seen = position[d].seen
        /\ position[d].cursor = 0 => position'[d].cursor = 0
    BY <1>3, <2>1 DEF Position
  <2>3. PositionCovers(d)'
    BY <1>1, <2>1, <2>2 DEF PositionCovers, Taken, Has, Numbers
  <2>4. WelcomeFirst(d)'
    BY <1>1, <1>2, <2>1, <2>2 DEF WelcomeFirst
  <2> QED BY <1>1, <2>1, <2>3, <2>4 DEF TakenOnce
<1> QED BY <1>4, <1>5, <1>6, RegistersStep, NamesStep DEF DeliveryInv

\* What is stored is the newest item, and every bound device but the one that
\* deposited it is pushed it last.
LEMMA StoreFacts ==
  ASSUME DeliveryTypes, CursorsApart,
         NEW class \in ItemClass, NEW seq \in Nat, NEW depositor \in SUBSET Device,
         Stores(class, seq, depositor),
         NEW new, new = Item(counter + 1, class, TheGroup, seq)
  PROVE  /\ new \in StoredItem /\ new.n = counter + 1 /\ new.class = class /\ new.seq = seq
         /\ counter' = counter + 1
         /\ new \in items' /\ items' \subseteq items \cup {new} /\ IsFiniteSet(items')
         /\ \A it \in items : it.class # "group-info" => it \in items'
         /\ stream' \in [Device -> Seq(StoredItem)]
         /\ \A d \in Device : stream'[d] = IF d \in bound \ depositor THEN Append(stream[d], new) ELSE stream[d]
<1>1. /\ counter' = counter + 1
      /\ items' = {new} \cup {it \in items : ~(class = "group-info" /\ it.class = class /\ it.group = TheGroup)}
      /\ stream' = [d \in Device |-> IF d \in bound \ depositor THEN Append(stream[d], new) ELSE stream[d]]
  BY DEF Stores, Store
<1>2. new \in StoredItem /\ new.n = counter + 1 /\ new.class = class /\ new.seq = seq
  BY DEF Item, StoredItem, DeliveryTypes
<1>3. IsFiniteSet(items')
  <2>1. {it \in items : ~(class = "group-info" /\ it.class = class /\ it.group = TheGroup)} \in SUBSET items
    OBVIOUS
  <2>2. IsFiniteSet({it \in items : ~(class = "group-info" /\ it.class = class /\ it.group = TheGroup)})
    BY <2>1, FS_Subset DEF DeliveryTypes
  <2> QED BY <1>1, <2>2, FS_AddElement
<1>4. stream' \in [Device -> Seq(StoredItem)]
  <2> DEFINE S == StoredItem
  <2> HIDE DEF S
  <2>1. stream \in [Device -> Seq(S)] /\ new \in S
    BY <1>2 DEF DeliveryTypes, S
  <2>2. ASSUME NEW q \in Seq(S) PROVE Append(q, new) \in Seq(S)
    BY <2>1
  <2>3. stream' \in [Device -> Seq(S)]
    BY <1>1, <2>1, <2>2
  <2> QED BY <2>3 DEF S
<1> QED BY <1>1, <1>2, <1>3, <1>4

LEMMA StoresInv ==
  ASSUME DeliveryInv, [DeliveryNext]_deliveryVars,
         NEW class \in ItemClass, NEW seq \in Nat, NEW depositor \in SUBSET Device,
         Stores(class, seq, depositor)
  PROVE  DeliveryInv'
<1>0. PICK new : new = Item(counter + 1, class, TheGroup, seq)
  OBVIOUS
<1>1. UNCHANGED <<acks, devices, bound, position, processed, own, log>> /\ Numbers' = Numbers
  BY DEF Stores, DevicesStay, Numbers
<1>2. /\ new \in StoredItem /\ new.n = counter + 1 /\ new.class = class /\ new.seq = seq
      /\ counter' = counter + 1
      /\ new \in items' /\ items' \subseteq items \cup {new} /\ IsFiniteSet(items')
      /\ \A it \in items : it.class # "group-info" => it \in items'
      /\ stream' \in [Device -> Seq(StoredItem)]
      /\ \A d \in Device : stream'[d] = IF d \in bound \ depositor THEN Append(stream[d], new) ELSE stream[d]
  BY <1>0, StoreFacts DEF DeliveryInv
<1>3. DeliveryTypes'
  BY <1>1, <1>2, BacklogTypes DEF DeliveryInv, DeliveryTypes
<1>4. CursorsApart'
  <2>1. \A it \in items : it.n <= counter /\ it.n \in Nat
    BY DEF DeliveryInv, DeliveryTypes, CursorsApart, StoredItem
  <2>2. \A it, jt \in items : it.n = jt.n => it = jt
    BY DEF DeliveryInv, CursorsApart
  <2>3. counter \in Nat
    BY DEF DeliveryInv, DeliveryTypes
  <2>4. \A it \in items' : it \in items \/ it = new
    BY <1>2
  <2>5. \A it \in items' : it.n <= counter'
    BY <1>2, <2>1, <2>3, <2>4
  <2>6. \A it, jt \in items' : it.n = jt.n => it = jt
    BY <1>2, <2>1, <2>2, <2>3, <2>4
  <2> QED BY <2>5, <2>6 DEF CursorsApart
<1>5. InLog(new, Len(log)) /\ log' = log
  BY <1>1, <1>2 DEF InLog, Sequenced, Stores, Numbers
<1>7. ASSUME NEW d \in Device
      PROVE  /\ stream[d] \in Seq(StoredItem)
             /\ Append(stream[d], new) # <<>>
             /\ \A i \in DOMAIN Append(stream[d], new) :
                  Append(stream[d], new)[i] = IF i \in DOMAIN stream[d] THEN stream[d][i] ELSE new
  <2>1. stream[d] \in Seq(StoredItem)
    BY DEF DeliveryInv, DeliveryTypes
  <2> QED BY <1>2, <2>1, AppendFacts
<1>8. NumbersGivenOut'
  <2>1. \A it \in items' : InLog(it, Len(log))
    BY <1>2, <1>5 DEF DeliveryInv, NumbersGivenOut
  <2>2. ASSUME NEW d \in Device, NEW i \in DOMAIN stream'[d] PROVE InLog(stream'[d][i], Len(log))
    <3>1. \A j \in DOMAIN stream[d] : InLog(stream[d][j], Len(log))
      BY DEF DeliveryInv, NumbersGivenOut
    <3>2. stream'[d][i] = new \/ \E j \in DOMAIN stream[d] : stream'[d][i] = stream[d][j]
      BY <1>2, <1>7, <2>2
    <3> QED BY <1>5, <3>1, <3>2
  <2> QED BY <1>5, <2>1, <2>2 DEF NumbersGivenOut
<1>9. OnlyToBound'
  BY <1>1, <1>2 DEF DeliveryInv, OnlyToBound
<1>10. ASSUME NEW d \in Device PROVE PositionCovers(d)' /\ WelcomeFirst(d)' /\ TakenOnce(d)'
  <2>1. PositionCovers(d) /\ WelcomeFirst(d) /\ TakenOnce(d)
    BY DEF DeliveryInv
  <2>2. PositionCovers(d)' /\ TakenOnce(d)'
    BY <1>1, <2>1 DEF PositionCovers, TakenOnce, Taken
  <2>3. stream[d] # <<>> => stream'[d] # <<>> /\ stream'[d][1] = stream[d][1]
    <3>1. stream[d] # <<>> => 1 \in DOMAIN stream[d] /\ 1 \in DOMAIN Append(stream[d], new)
      BY <1>7
    <3> QED BY <1>2, <1>7, <3>1
  <2>4. WelcomeFirst(d)'
    BY <1>1, <1>2, <2>1, <2>3 DEF WelcomeFirst
  <2> QED BY <2>2, <2>4
<1> QED BY <1>3, <1>4, <1>8, <1>9, <1>10, RegistersStep, NamesStep DEF DeliveryInv

\* What a sync does: the device acknowledges what it has committed, what every
\* device has acknowledged goes, and the rest is read.
LEMMA ReadFacts ==
  ASSUME DeliveryInv, NEW d \in Device, Reads(d),
         NEW page, page = Page(items', position[d].cursor)
  PROVE  /\ stream' = [stream EXCEPT ![d] = page] /\ page \in Seq(items')
         /\ bound' = bound \cup {d}
         /\ acks' \in [Device -> Nat]
         /\ \A x \in Device : acks'[x] = acks[x] \/ (x = d /\ acks'[x] = position[x].cursor)
         /\ items' \subseteq items /\ IsFiniteSet(items') /\ Apart(items')
         /\ \A it \in items' : it.n \in Nat
         /\ \A it \in items \ items' : \A x \in devices : acks'[x] >= it.n
         /\ UNCHANGED <<log, counter, devices, position, processed, own>>
<1>1. /\ acks' = [acks EXCEPT ![d] = IF position[d].cursor > @ THEN position[d].cursor ELSE @]
      /\ items' = IF mode = "queue" THEN {it \in items : ~AckedByAll(it.n)} ELSE items
      /\ bound' = bound \cup {d}
      /\ stream' = [stream EXCEPT ![d] = @ \o Page(items', position[d].cursor)]
      /\ stream[d] = <<>>
      /\ UNCHANGED <<log, counter, devices, position, processed, own>>
  BY DEF Reads, Sync
<1>2. position[d].cursor \in Nat /\ acks \in [Device -> Nat]
  BY DEF DeliveryInv, DeliveryTypes, Position
<1>3. items' \subseteq items /\ \A it \in items \ items' : \A x \in devices : acks'[x] >= it.n
  BY <1>1 DEF AckedByAll
<1>4. IsFiniteSet(items') /\ Apart(items') /\ \A it \in items' : it.n \in Nat
  <2>1. items' \in SUBSET items
    BY <1>3
  <2> QED BY <2>1, FS_Subset DEF DeliveryInv, DeliveryTypes, CursorsApart, Apart, StoredItem
<1>5. page \in Seq(items')
  BY <1>2, <1>4, PageReads
<1>6. <<>> \o page = page
  BY <1>5
<1>7. stream' = [stream EXCEPT ![d] = page]
  BY <1>1, <1>6
<1>8. /\ acks' \in [Device -> Nat]
      /\ \A x \in Device : acks'[x] = acks[x] \/ (x = d /\ acks'[x] = position[x].cursor)
  BY <1>1, <1>2
<1> QED BY <1>1, <1>3, <1>4, <1>5, <1>7, <1>8

LEMMA ReadsInv ==
  ASSUME DeliveryInv, [DeliveryNext]_deliveryVars, NEW d \in Device, Reads(d)
  PROVE  DeliveryInv'
<1>1. PICK page : page = Page(items', position[d].cursor)
  OBVIOUS
<1>2. /\ stream' = [stream EXCEPT ![d] = page] /\ page \in Seq(items')
      /\ bound' = bound \cup {d}
      /\ acks' \in [Device -> Nat]
      /\ \A x \in Device : acks'[x] = acks[x] \/ (x = d /\ acks'[x] = position[x].cursor)
      /\ items' \subseteq items /\ IsFiniteSet(items') /\ Apart(items')
      /\ \A it \in items' : it.n \in Nat
      /\ \A it \in items \ items' : \A x \in devices : acks'[x] >= it.n
      /\ UNCHANGED <<log, counter, devices, position, processed, own>>
  BY <1>1, ReadFacts
<1>3. d \in devices /\ Numbers' = Numbers
  BY <1>2 DEF Reads, Numbers
<1>4. DeliveryTypes'
  <2>1. page \in Seq(StoredItem)
    <3>1. items' \subseteq StoredItem
      BY <1>2 DEF DeliveryInv, DeliveryTypes
    <3> HIDE DEF StoredItem
    <3> QED BY <1>2, <3>1
  <2>2. stream' \in [Device -> Seq(StoredItem)]
    BY <1>2, <2>1 DEF DeliveryInv, DeliveryTypes
  <2> QED BY <1>2, <1>3, <2>2, BacklogTypes DEF DeliveryInv, DeliveryTypes
<1>5. CursorsApart'
  BY <1>2 DEF DeliveryInv, CursorsApart, Apart
<1>7. NumbersGivenOut'
  <2>1. \A it \in items' : InLog(it, Len(log))
    BY <1>2 DEF DeliveryInv, NumbersGivenOut
  <2>2. \A i \in DOMAIN page : page[i] \in items'
    BY <1>2
  <2>3. ASSUME NEW x \in Device PROVE stream'[x] = IF x = d THEN page ELSE stream[x]
    BY <1>2 DEF DeliveryInv, DeliveryTypes
  <2> QED BY <1>2, <2>1, <2>2, <2>3 DEF DeliveryInv, NumbersGivenOut
<1>8. OnlyToBound'
  BY <1>2 DEF DeliveryInv, DeliveryTypes, OnlyToBound
<1>9. ASSUME NEW x \in Device PROVE PositionCovers(x)' /\ WelcomeFirst(x)' /\ TakenOnce(x)'
  <2>1. PositionCovers(x) /\ WelcomeFirst(x) /\ TakenOnce(x)
    BY DEF DeliveryInv
  <2>2. PositionCovers(x)' /\ TakenOnce(x)'
    BY <1>2, <1>3, <2>1 DEF PositionCovers, TakenOnce, Taken
  <2>3. ASSUME ~position[x].joined, x \in devices
        PROVE  \E it \in items' : it.n = 1 /\ it.class = "welcome"
    <3>1. PICK it \in items : it.n = 1 /\ it.class = "welcome"
      BY <2>1, <2>3 DEF WelcomeFirst
    <3>2. acks'[x] = 0
      BY <1>2, <2>1, <2>3 DEF PositionCovers
    <3> QED BY <1>2, <2>3, <3>1, <3>2
  <2>4. ASSUME ~position[d].joined
        PROVE  page # <<>> /\ page[1].class = "welcome"
    <3>1. PICK it \in items' : it.n = 1 /\ it.class = "welcome"
      <4>1. \A y \in Device : ~position[y].joined /\ y \in devices => PositionCovers(y) /\ WelcomeFirst(y)
        BY DEF DeliveryInv
      <4>2. PICK it \in items : it.n = 1 /\ it.class = "welcome"
        BY <1>3, <2>4, <4>1 DEF WelcomeFirst
      <4>3. acks'[d] = 0
        BY <1>2, <1>3, <2>4, <4>1 DEF PositionCovers
      <4> QED BY <1>2, <1>3, <4>2, <4>3
    <3>2. position[d].cursor = 0
      BY <2>4 DEF DeliveryInv, PositionCovers
    <3>3. page # <<>> /\ page[1].n <= 1
      <4>1. it.n > 0 /\ it.n = 1 /\ page = Page(items', 0)
        BY <1>1, <3>1, <3>2
      <4>2. \A k \in items' : k.n > 0 => page # <<>> /\ page[1].n <= k.n
        BY <1>2, <4>1, PageReads, Zenon
      <4> QED BY <3>1, <4>1, <4>2
    <3>4. page[1] \in items' /\ page[1].n \in Nat \ {0}
      <4>1. page[1] \in items'
        BY <1>2, <3>3
      <4> QED BY <1>2, <4>1 DEF DeliveryInv, DeliveryTypes, StoredItem
    <3>5. page[1] = it
      BY <1>2, <3>1, <3>3, <3>4 DEF Apart
    <3> QED BY <3>1, <3>3, <3>5
  <2>5. stream'[x] = IF x = d THEN page ELSE stream[x]
    BY <1>2 DEF DeliveryInv, DeliveryTypes
  <2>6. WelcomeFirst(x)'
    BY <1>2, <2>1, <2>3, <2>4, <2>5 DEF WelcomeFirst
  <2> QED BY <2>2, <2>6
<1> QED BY <1>4, <1>5, <1>7, <1>8, <1>9, RegistersStep, NamesStep DEF DeliveryInv

\* The numbers below those a joined device has are given out.
LEMMA TakenGivenOut ==
  ASSUME DeliveryInv, NEW d \in Device, position[d].joined
  PROVE  /\ Has(position[d]) \subseteq Numbers /\ Taken(d) \subseteq Has(position[d])
         /\ position[d].contiguous \in 1 .. Len(log)
         /\ \A s \in position[d].seen : position[d].contiguous < s /\ s <= Len(log)
         /\ Len(log) \in Nat
<1>1. PositionCovers(d) /\ position[d] \in Position /\ Len(log) \in Nat
  BY DEF DeliveryInv, DeliveryTypes
<1> QED BY <1>1 DEF PositionCovers, Has, Numbers, Position

LEMMA OrderInv ==
  ASSUME DeliveryInv, [DeliveryNext]_deliveryVars, NEW h \in HubName, NEW sender \in SUBSET Device,
         OrderItem(h, sender)
  PROVE  DeliveryInv'
<1>1. PICK seq : seq = Len(log) + 1
  OBVIOUS
<1>2. /\ log' = Append(log, h) /\ UNCHANGED <<mailboxVars, processed>>
      /\ sender \subseteq {d \in Device : position[d].joined}
      /\ position' = [d \in Device |-> IF d \in sender THEN Positioned(position[d], seq) ELSE position[d]]
      /\ own' = [d \in Device |-> IF d \in sender THEN own[d] \cup {seq} ELSE own[d]]
  BY <1>1 DEF OrderItem
<1>3. log' \in Seq(HubName) /\ log' # <<>> /\ Len(log') = seq /\ seq \in Nat /\ Len(log) \in Nat /\ seq > 0
  <2>1. log \in Seq(HubName)
    BY DEF DeliveryInv, DeliveryTypes
  <2>2. log' \in Seq(HubName) /\ log' # <<>> /\ Len(log') = Len(log) + 1
    BY <1>2, <2>1, AppendFacts
  <2> QED BY <1>1, <2>1, <2>2
<1>4. UNCHANGED <<items, counter, acks, devices, bound, stream>>
  BY <1>2 DEF mailboxVars
<1>5. ASSUME NEW d \in sender
      PROVE  /\ position[d].joined /\ position'[d].joined
             /\ position'[d] \in Position
             /\ position'[d].contiguous \in 1 .. seq
             /\ \A s \in position'[d].seen : position'[d].contiguous < s /\ s <= seq
             /\ Has(position'[d]) = Has(position[d]) \cup {seq}
  <2>1. position[d] \in Position /\ position[d].joined /\ d \in Device
    BY <1>2 DEF DeliveryInv, DeliveryTypes
  <2>2. /\ position[d].contiguous \in 1 .. seq
        /\ \A s \in position[d].seen : position[d].contiguous < s /\ s <= seq
    <3>1. \A s \in position[d].seen : s \in Nat
      BY <2>1 DEF Position
    <3> QED BY <1>1, <2>1, <3>1, TakenGivenOut
  <2>3. position'[d] = Positioned(position[d], seq)
    BY <1>2, <2>1
  <2>4. seq \in 1 .. seq
    BY <1>3
  <2> QED BY <1>3, <2>1, <2>2, <2>3, <2>4, PositionedFits
<1>6. DeliveryTypes'
  <2>1. position' \in [Device -> Position]
    BY <1>2, <1>5 DEF DeliveryInv, DeliveryTypes
  <2>2. own' \in [Device -> SUBSET Nat]
    BY <1>2, <1>3 DEF DeliveryInv, DeliveryTypes
  <2> QED BY <1>2, <1>3, <1>4, <2>1, <2>2, BacklogTypes DEF DeliveryInv, DeliveryTypes
<1>7. CursorsApart' /\ OnlyToBound'
  BY <1>4 DEF DeliveryInv, CursorsApart, OnlyToBound
<1>8. NumbersGivenOut'
  <2>1. Len(log) <= Len(log') /\ Len(log') \in Nat
    BY <1>1, <1>3
  <2>2. \A it : InLog(it, Len(log)) => InLog(it, Len(log'))
    BY <1>3, <2>1, InLogStays
  <2> QED BY <1>4, <2>2 DEF DeliveryInv, NumbersGivenOut
<1>9. ASSUME NEW d \in Device PROVE PositionCovers(d)' /\ WelcomeFirst(d)' /\ TakenOnce(d)'
  <2>1. PositionCovers(d) /\ WelcomeFirst(d) /\ TakenOnce(d)
    BY DEF DeliveryInv
  <2>2. CASE d \in sender
    <3>1. own'[d] = own[d] \cup {seq} /\ processed'[d] = processed[d]
      BY <1>2, <2>2
    <3>2. Taken(d)' = Taken(d) \cup {seq}
      BY <3>1 DEF Taken
    <3>3. seq \notin Range(processed[d])
      <4>1. Range(processed[d]) \subseteq Numbers
        BY <1>5, <2>2, TakenGivenOut DEF Taken
      <4>2. seq \notin Numbers
        BY <1>1, <1>3 DEF Numbers
      <4> QED BY <4>1, <4>2
    <3>4. PositionCovers(d)'
      BY <1>3, <1>5, <2>2, <3>2, TakenGivenOut DEF PositionCovers, Numbers
    <3>5. TakenOnce(d)'
      BY <2>1, <3>1, <3>3 DEF TakenOnce
    <3> QED BY <1>5, <2>2, <3>4, <3>5 DEF WelcomeFirst
  <2>3. CASE d \notin sender
    <3>1. own'[d] = own[d] /\ processed'[d] = processed[d] /\ position'[d] = position[d] /\ acks'[d] = acks[d]
      BY <1>2, <1>4, <2>3
    <3>2. PositionCovers(d)'
      <4>1. CASE position[d].joined
        <5>1. position[d].contiguous \in Numbers'
              /\ \A s \in position[d].seen : position[d].contiguous < s /\ s <= Len(log')
          <6>1. \A s \in position[d].seen : s \in Nat
            BY DEF DeliveryInv, DeliveryTypes, Position
          <6> QED BY <1>1, <1>3, <4>1, <6>1, TakenGivenOut DEF Numbers
        <5>2. Taken(d)' = Taken(d)
          BY <3>1 DEF Taken
        <5> QED BY <3>1, <4>1, <5>1, <5>2, TakenGivenOut DEF PositionCovers
      <4>2. CASE ~position[d].joined
        BY <2>1, <3>1, <4>2 DEF PositionCovers
      <4> QED BY <4>1, <4>2
    <3> QED BY <1>4, <2>1, <3>1, <3>2 DEF WelcomeFirst, TakenOnce
  <2> QED BY <2>2, <2>3
<1> QED BY <1>6, <1>7, <1>8, <1>9, RegistersStep, NamesStep DEF DeliveryInv

\* A position within the numbers given out, and what may come next.
Ready(p, it, N) ==
  IF p.joined THEN p.contiguous \in 1 .. N /\ \A s \in p.seen : p.contiguous < s /\ s <= N
              ELSE p.contiguous = NoPosition /\ it.class = "welcome"

\* The position r that it leads to has the number of it besides what p has.
TakesIn(p, it, N, r) ==
  /\ ~IsDuplicate(p, it) /\ Sequenced(it) <=> Sequenced(it) /\ it.seq \notin Has(p)
  /\ r \in Position /\ r.joined /\ r.cursor = it.n
  /\ r.contiguous \in 1 .. N /\ \A s \in r.seen : r.contiguous < s /\ s <= N
  /\ Has(r) = IF p.joined THEN Has(p) \cup {s \in {it.seq} : Sequenced(it)} ELSE {1}

\* An item of which a joined device has the number is a duplicate, another
\* number is taken in, and a welcome says where its device starts.
LEMMA CommittedFits ==
  ASSUME NEW p \in Position, NEW N \in Nat \ {0}, NEW it \in StoredItem, InLog(it, N), Ready(p, it, N)
  PROVE  TakesIn(p, it, N, Committed(p, it))
<1>0. PICK r : r = Committed(p, it)
  OBVIOUS
<1>1. it.n \in Nat /\ it.seq \in Nat /\ (Sequenced(it) => it.seq \in 1 .. N /\ it.class # "welcome")
  BY DEF InLog, StoredItem, Sequenced
<1>2. PICK q : q = [p EXCEPT !.cursor = it.n]
  OBVIOUS
<1>3. /\ q \in Position /\ q.cursor = it.n /\ q.joined = p.joined /\ q.contiguous = p.contiguous /\ q.seen = p.seen
  BY <1>1, <1>2 DEF Position
<1>4. Has(q) = Has(p)
  BY <1>3 DEF Has
<1>5. r = IF IsDuplicate(p, it) THEN q
          ELSE IF Sequenced(it) THEN Positioned(q, it.seq)
          ELSE IF it.class = "welcome" THEN [q EXCEPT !.joined = TRUE, !.contiguous = it.seq, !.seen = {}]
          ELSE q
  BY <1>0, <1>2 DEF Committed
<1>6. CASE p.joined
  <2>1. p.contiguous \in 1 .. N /\ \A s \in p.seen : p.contiguous < s /\ s <= N
    BY <1>6 DEF Ready
  <2>2. IsDuplicate(p, it) <=> (Sequenced(it) /\ it.seq \in Has(p)) \/ it.class = "welcome"
    BY <1>1, <1>6, <2>1 DEF IsDuplicate, Has, NoPosition
  <2>3. CASE IsDuplicate(p, it) \/ ~Sequenced(it)
    <3>1. r = q
      <4>1. CASE IsDuplicate(p, it)
        BY <1>1, <1>5, <2>2, <4>1
      <4>2. CASE ~IsDuplicate(p, it) /\ ~Sequenced(it)
        BY <1>5, <2>2, <4>2
      <4> QED BY <2>3, <4>1, <4>2
    <3>2. Sequenced(it) => it.seq \in Has(p)
      BY <1>1, <2>2, <2>3
    <3>3. Has(p) = Has(p) \cup {s \in {it.seq} : Sequenced(it)}
      BY <3>2
    <3> QED BY <1>0, <1>3, <1>4, <1>6, <2>1, <2>3, <3>1, <3>2, <3>3 DEF TakesIn
  <2>4. CASE ~IsDuplicate(p, it) /\ Sequenced(it)
    <3>1. r = Positioned(q, it.seq)
      BY <1>1, <1>5, <2>4
    <3>2. /\ r \in Position /\ r.cursor = q.cursor /\ r.joined = q.joined
          /\ r.contiguous \in 1 .. N /\ \A s \in r.seen : r.contiguous < s /\ s <= N
          /\ Has(r) = Has(q) \cup {it.seq}
      <4>1. /\ q.contiguous \in 1 .. N /\ \A s \in q.seen : q.contiguous < s /\ s <= N
            /\ it.seq \in 1 .. N /\ N \in Nat
        BY <1>1, <1>3, <2>1, <2>4
      <4> QED BY <1>3, <3>1, <4>1, PositionedFits
    <3>3. it.seq \notin Has(p)
      BY <2>2, <2>4
    <3> QED BY <1>0, <1>3, <1>4, <1>6, <2>4, <3>2, <3>3 DEF TakesIn
  <2> QED BY <2>3, <2>4
<1>7. CASE ~p.joined
  <2>1. it.class = "welcome" /\ it.seq = 1
    BY <1>7 DEF InLog, Ready
  <2>2. ~Sequenced(it) /\ ~IsDuplicate(p, it)
    BY <1>7, <2>1 DEF IsDuplicate, Sequenced, Ready
  <2>3. r = [q EXCEPT !.joined = TRUE, !.contiguous = 1, !.seen = {}]
    BY <1>5, <2>1, <2>2
  <2>4. /\ r.cursor = it.n /\ r.joined = TRUE /\ r.contiguous = 1 /\ r.seen = {}
        /\ r \in [cursor : {it.n}, joined : BOOLEAN, contiguous : {1}, seen : {{}}]
    BY <1>3, <2>3 DEF Position
  <2>5. r \in Position
    BY <1>1, <2>4 DEF Position
  <2>6. Has(r) = {1} /\ 1 \in 1 .. N
    BY <2>4 DEF Has
  <2> QED BY <1>0, <1>7, <2>2, <2>4, <2>5, <2>6 DEF TakesIn
<1> QED BY <1>6, <1>7

\* What processing the head of its stream does to a device.
Takes(d, it) ==
  /\ stream[d] # <<>> /\ it \in StoredItem /\ InLog(it, Len(log)) /\ it = stream[d][1] /\ d \in bound
  /\ stream' = [stream EXCEPT ![d] = Tail(@)] /\ Tail(stream[d]) \in Seq(StoredItem)
  /\ UNCHANGED <<log, items, counter, acks, devices, bound, own>>
  /\ \A x \in Device : x # d => position'[x] = position[x] /\ processed'[x] = processed[x]
  /\ processed'[d] = IF Sequenced(it) /\ it.seq \notin Has(position[d])
                     THEN Append(processed[d], it.seq) ELSE processed[d]
  /\ TakesIn(position[d], it, Len(log), position'[d])
  /\ position[d].joined \/ it.class = "welcome"

LEMMA ProcessFacts ==
  ASSUME DeliveryInv, NEW d \in Device, Process(d), NEW it, it = Head(stream[d])
  PROVE  Takes(d, it)
<1>1. /\ stream[d] # <<>> /\ stream[d] \in Seq(StoredItem) /\ position[d] \in Position
      /\ Len(log) \in Nat \ {0}
  BY DEF Process, DeliveryInv, DeliveryTypes
<1>2. it = stream[d][1] /\ 1 \in DOMAIN stream[d] /\ it \in StoredItem /\ Tail(stream[d]) \in Seq(StoredItem)
  <2> HIDE DEF StoredItem
  <2> QED BY <1>1
<1>3. InLog(it, Len(log)) /\ d \in bound
  BY <1>1, <1>2 DEF DeliveryInv, NumbersGivenOut, OnlyToBound
<1>4. /\ stream' = [stream EXCEPT ![d] = Tail(@)]
      /\ UNCHANGED <<log, items, counter, acks, devices, bound, own>>
      /\ position' = [position EXCEPT ![d] = Committed(@, it)]
      /\ processed' = IF ~IsDuplicate(position[d], it) /\ Sequenced(it)
                      THEN [processed EXCEPT ![d] = Append(@, it.seq)] ELSE processed
  BY DEF Process, deviceVars, sourceVars
<1>5. position'[d] = Committed(position[d], it)
  BY <1>4 DEF DeliveryInv, DeliveryTypes
<1>6. Ready(position[d], it, Len(log))
  <2>1. CASE position[d].joined
    BY <2>1, TakenGivenOut DEF Ready
  <2>2. CASE ~position[d].joined
    BY <1>2, <1>3, <2>2 DEF DeliveryInv, PositionCovers, WelcomeFirst, Ready
  <2> QED BY <2>1, <2>2
<1>7. TakesIn(position[d], it, Len(log), position'[d])
  BY <1>1, <1>2, <1>3, <1>5, <1>6, CommittedFits
<1>8. /\ processed'[d] = IF Sequenced(it) /\ it.seq \notin Has(position[d])
                         THEN Append(processed[d], it.seq) ELSE processed[d]
      /\ \A x \in Device : x # d => position'[x] = position[x] /\ processed'[x] = processed[x]
  BY <1>4, <1>7 DEF DeliveryInv, DeliveryTypes, TakesIn
<1> QED BY <1>1, <1>2, <1>3, <1>4, <1>6, <1>7, <1>8 DEF Takes, Ready

LEMMA ProcessInv ==
  ASSUME DeliveryInv, [DeliveryNext]_deliveryVars, NEW d \in Device, Process(d)
  PROVE  DeliveryInv'
<1>1. PICK it : it = Head(stream[d])
  OBVIOUS
<1>2. Takes(d, it)
  BY <1>1, ProcessFacts
<1>3. it.seq \in Nat /\ (Sequenced(it) => it.seq \in Numbers) /\ Numbers' = Numbers
  BY <1>2 DEF InLog, StoredItem, Numbers, Takes, TakesIn
<1>4. ASSUME NEW x \in Device PROVE stream'[x] = IF x = d THEN Tail(stream[x]) ELSE stream[x]
  BY <1>2 DEF DeliveryInv, DeliveryTypes, Takes, TakesIn
<1>5. ASSUME NEW i \in DOMAIN Tail(stream[d])
      PROVE  i + 1 \in DOMAIN stream[d] /\ Tail(stream[d])[i] = stream[d][i + 1]
  <2>1. stream[d] \in Seq(StoredItem)
    BY DEF DeliveryInv, DeliveryTypes
  <2> QED BY <1>2, <2>1 DEF Takes, TakesIn
<1>6. DeliveryTypes'
  <2>1. stream' \in [Device -> Seq(StoredItem)]
    BY <1>2 DEF DeliveryInv, DeliveryTypes, Takes, TakesIn
  <2>2. position' \in [Device -> Position]
    BY <1>2 DEF DeliveryInv, DeliveryTypes, Process, Takes, TakesIn
  <2>3. processed' \in [Device -> Seq(Nat)]
    <3>1. processed \in [Device -> Seq(Nat)] /\ processed'[d] \in Seq(Nat)
      BY <1>2, <1>3 DEF DeliveryInv, DeliveryTypes, Takes, TakesIn
    <3> QED BY <1>2, <3>1 DEF Process, Takes, TakesIn
  <2> QED BY <1>2, <1>3, <2>1, <2>2, <2>3, BacklogTypes DEF DeliveryInv, DeliveryTypes, Takes, TakesIn
<1>7. CursorsApart'
  BY <1>2 DEF DeliveryInv, CursorsApart, Takes, TakesIn
<1>8. NumbersGivenOut'
  <2>1. ASSUME NEW x \in Device, NEW i \in DOMAIN stream'[x] PROVE InLog(stream'[x][i], Len(log))
    <3>1. \A j \in DOMAIN stream[x] : InLog(stream[x][j], Len(log))
      BY DEF DeliveryInv, NumbersGivenOut
    <3> QED BY <1>4, <1>5, <2>1, <3>1
  <2> QED BY <1>2, <2>1 DEF DeliveryInv, NumbersGivenOut, Takes, TakesIn
<1>9. OnlyToBound'
  BY <1>2, <1>4 DEF DeliveryInv, OnlyToBound, Takes, TakesIn
<1>10. ASSUME NEW x \in Device PROVE PositionCovers(x)' /\ WelcomeFirst(x)' /\ TakenOnce(x)'
  <2>1. PositionCovers(x) /\ WelcomeFirst(x) /\ TakenOnce(x)
    BY DEF DeliveryInv
  <2>2. CASE x # d
    BY <1>2, <1>3, <1>4, <2>1, <2>2 DEF PositionCovers, WelcomeFirst, TakenOnce, Taken, Takes, TakesIn
  <2>3. CASE x = d
    <3>1. processed[d] \in Seq(Nat)
      BY DEF DeliveryInv, DeliveryTypes
    <3>2. ~position[d].joined => processed[d] = <<>> /\ own[d] = {}
      BY <2>1, <2>3 DEF PositionCovers
    <3>3. position[d].joined => Taken(d) \subseteq Has(position[d])
      BY TakenGivenOut
    <3>4. CASE processed'[d] = processed[d]
      <4>1. Taken(d)' = Taken(d)
        BY <1>2, <3>4 DEF Taken, Takes, TakesIn
      <4>2. Taken(d)' \subseteq Has(position'[d])
        BY <1>2, <3>2, <3>3, <4>1 DEF Taken, Range, Takes, TakesIn
      <4> QED BY <1>2, <1>3, <2>1, <2>3, <3>4, <4>2 DEF PositionCovers, WelcomeFirst, TakenOnce, Numbers, Takes, TakesIn
    <3>5. CASE processed'[d] # processed[d]
      <4>1. /\ Sequenced(it) /\ it.seq \notin Has(position[d])
            /\ processed'[d] = Append(processed[d], it.seq)
        BY <1>2, <3>5 DEF Takes, TakesIn
      <4>2. position[d].joined
        BY <1>2, <4>1 DEF Sequenced, Takes, TakesIn
      <4>3. it.seq \notin Range(processed[d]) /\ it.seq \notin own[d]
        BY <3>3, <4>1, <4>2 DEF Taken
      <4>4. /\ \A i \in DOMAIN processed'[d] :
                 processed'[d][i] = IF i \in DOMAIN processed[d] THEN processed[d][i] ELSE it.seq
            /\ \A i, j \in DOMAIN processed'[d] :
                 i \notin DOMAIN processed[d] /\ j \notin DOMAIN processed[d] => i = j
        BY <1>3, <3>1, <4>1
      <4>5. Range(processed'[d]) \subseteq Range(processed[d]) \cup {it.seq}
        BY <4>4 DEF Range
      <4>6. TakenOnce(d)'
        <5>1. \A j, k \in DOMAIN processed'[d] : processed'[d][j] = processed'[d][k] => j = k
          BY <2>1, <2>3, <4>3, <4>4 DEF TakenOnce, Range
        <5> QED BY <1>2, <2>1, <2>3, <4>3, <4>5, <5>1 DEF TakenOnce, Takes, TakesIn
      <4>7. Taken(d)' \subseteq Has(position'[d])
        BY <1>2, <3>3, <4>1, <4>2, <4>5 DEF Taken, Takes, TakesIn
      <4> QED BY <1>2, <1>3, <2>3, <4>6, <4>7 DEF PositionCovers, WelcomeFirst, Numbers, Takes, TakesIn
    <3> QED BY <3>4, <3>5
  <2> QED BY <2>2, <2>3
<1> QED BY <1>6, <1>7, <1>8, <1>9, <1>10, RegistersStep, NamesStep DEF DeliveryInv

LEMMA DeliveryStepInv == DeliveryInv /\ [DeliveryNext]_deliveryVars => DeliveryInv'
<1> SUFFICES ASSUME DeliveryInv, [DeliveryNext]_deliveryVars PROVE DeliveryInv'
  OBVIOUS
<1>1. \/ \E h \in HubName, sender \in SUBSET Device : OrderItem(h, sender)
      \/ \E class \in ItemClass, seq \in Nat, depositor \in SUBSET Device : Stores(class, seq, depositor)
      \/ \E d \in Device : Reads(d)
      \/ \E d \in Device : Process(d)
      \/ Parts
      \/ StoreStays
  BY StoreKinds DEF DeliveryInv
<1> QED BY <1>1, OrderInv, StoresInv, ReadsInv, ProcessInv, PartsInv, StaysInv

\* In every reachable state a device's position covers what the device took, and
\* a device that has not joined has its welcome before it.
THEOREM DeliveryInvariant == DeliverySpec => []DeliveryInv
<1>1. DeliveryInit => DeliveryInv
  BY DeliveryInitInv
<1>2. DeliveryInv /\ [DeliveryNext]_deliveryVars => DeliveryInv'
  BY DeliveryStepInv
<1> QED BY <1>1, <1>2, PTL DEF DeliverySpec

\* However often hubs deliver and devices read again, no device processes an
\* item twice or is made to decrypt one of its own.
THEOREM NothingTakenTwice == DeliverySpec => []ProcessedOnce
<1>1. DeliveryInv => ProcessedOnce
  BY DEF DeliveryInv, TakenOnce, ProcessedOnce
<1> QED BY <1>1, DeliveryInvariant, PTL

-----------------------------------------------------------------------------
(* ReadersInv.                                                             *)

\* What a device may read next is stored or on its way to it.
Near(d) == items \cup Range(stream[d])

LEMMA AroundIs ==
  ASSUME DeliveryTypes, NEW it
  PROVE  it \in Around <=> it \in items \/ \E d \in Device : \E i \in DOMAIN stream[d] : it = stream[d][i]
BY DEF Around, Range

\* Apart from the item a step stores, nothing comes in.
LEMMA AroundShrinks ==
  ASSUME DeliveryInv, DeliveryInv',
         \/ \E h \in HubName, sender \in SUBSET Device : OrderItem(h, sender)
         \/ \E d \in Device : Reads(d)
         \/ \E d \in Device : Process(d)
         \/ Parts
         \/ StoreStays
  PROVE  Around' \subseteq Around /\ counter' = counter /\ \A d \in Device : Near(d)' \subseteq Near(d)
<1>1. DeliveryTypes /\ DeliveryTypes'
  BY DEF DeliveryInv
<1>2. ASSUME \A d \in Device : \A i \in DOMAIN stream'[d] :
               stream'[d][i] \in items' \/ \E j \in DOMAIN stream[d] : stream'[d][i] = stream[d][j],
             items' \subseteq items
      PROVE  Around' \subseteq Around /\ \A d \in Device : Near(d)' \subseteq Near(d)
  <2>1. ASSUME NEW d \in Device PROVE Near(d)' \subseteq Near(d)
    BY <1>2 DEF Near, Range
  <2>2. Around' \subseteq Around
    BY <1>2, <2>1 DEF Around, Near
  <2> QED BY <2>1, <2>2
<1>3. CASE \/ \E h \in HubName, sender \in SUBSET Device : OrderItem(h, sender)
           \/ StoreStays
  BY <1>3 DEF OrderItem, mailboxVars, StoreStays, Around, Near
<1>4. CASE \E d \in Device : Reads(d)
  <2>1. PICK d \in Device : Reads(d)
    BY <1>4
  <2>2. PICK page : page = Page(items', position[d].cursor)
    OBVIOUS
  <2>3. stream' = [stream EXCEPT ![d] = page] /\ page \in Seq(items') /\ items' \subseteq items /\ counter' = counter
    BY <2>1, <2>2, ReadFacts
  <2>4. ASSUME NEW x \in Device, NEW i \in DOMAIN stream'[x]
        PROVE  stream'[x][i] \in items' \/ \E j \in DOMAIN stream[x] : stream'[x][i] = stream[x][j]
    <3>1. stream'[x] = IF x = d THEN page ELSE stream[x]
      BY <1>1, <2>3 DEF DeliveryTypes
    <3>2. \A j \in DOMAIN page : page[j] \in items'
      BY <2>3
    <3> QED BY <3>1, <3>2
  <2> QED BY <1>2, <2>3, <2>4
<1>5. CASE \E d \in Device : Process(d)
  <2>1. PICK d \in Device : Process(d)
    BY <1>5
  <2>2. items' = items /\ counter' = counter /\ stream' = [stream EXCEPT ![d] = Tail(@)] /\ stream[d] # <<>>
    BY <2>1 DEF Process
  <2>3. ASSUME NEW x \in Device, NEW i \in DOMAIN stream'[x]
        PROVE  \E j \in DOMAIN stream[x] : stream'[x][i] = stream[x][j]
    <3>1. stream[x] \in Seq(StoredItem) /\ stream'[x] = IF x = d THEN Tail(stream[x]) ELSE stream[x]
      BY <1>1, <2>2 DEF DeliveryTypes
    <3>2. CASE x = d
      <4>1. i + 1 \in DOMAIN stream[x] /\ stream'[x][i] = stream[x][i + 1]
        <5>1. stream[x] # <<>> /\ stream'[x] = Tail(stream[x])
          BY <2>2, <3>1, <3>2
        <5>2. \A j \in DOMAIN Tail(stream[x]) : j + 1 \in DOMAIN stream[x] /\ Tail(stream[x])[j] = stream[x][j + 1]
          <6>1. PICK q : q = stream[x]
            OBVIOUS
          <6>2. \A j \in DOMAIN Tail(q) : j + 1 \in DOMAIN q /\ Tail(q)[j] = q[j + 1]
            BY <3>1, <5>1, <6>1, TailFacts
          <6> QED BY <6>1, <6>2
        <5> QED BY <5>1, <5>2
      <4> QED BY <4>1
    <3> QED BY <3>1, <3>2
  <2> QED BY <1>2, <2>2, <2>3
<1>6. CASE Parts
  <2>1. ASSUME NEW x \in Device, NEW i \in DOMAIN stream'[x]
        PROVE  \E j \in DOMAIN stream[x] : stream'[x][i] = stream[x][j]
    <3>1. stream'[x] = IF x \in bound' THEN stream[x] ELSE <<>>
      BY <1>6 DEF Parts
    <3> QED BY <2>1, <3>1
  <2> QED BY <1>2, <1>6, <2>1 DEF Parts
<1> QED BY <1>3, <1>4, <1>5, <1>6

LEMMA AroundGrows ==
  ASSUME DeliveryInv, DeliveryInv',
         NEW class \in ItemClass, NEW seq \in Nat, NEW depositor \in SUBSET Device,
         Stores(class, seq, depositor),
         NEW new, new = Item(counter + 1, class, TheGroup, seq)
  PROVE  Around' \subseteq Around \cup {new} /\ \A d \in Device : Near(d)' \subseteq Near(d) \cup {new}
<1>1. DeliveryTypes /\ DeliveryTypes' /\ CursorsApart
  BY DEF DeliveryInv
<1>2. /\ new \in StoredItem /\ items' \subseteq items \cup {new}
      /\ \A d \in Device : stream'[d] = IF d \in bound \ depositor THEN Append(stream[d], new) ELSE stream[d]
  BY <1>1, StoreFacts
<1>3. ASSUME NEW d \in Device, NEW i \in DOMAIN stream'[d]
      PROVE  stream'[d][i] = new \/ \E j \in DOMAIN stream[d] : stream'[d][i] = stream[d][j]
  <2>1. stream[d] \in Seq(StoredItem)
    BY <1>1 DEF DeliveryTypes
  <2>2. CASE stream'[d] = stream[d]
    BY <1>3, <2>2
  <2>3. CASE stream'[d] = Append(stream[d], new)
    <3>1. stream'[d][i] = IF i \in DOMAIN stream[d] THEN stream[d][i] ELSE new
      BY <1>2, <1>3, <2>1, <2>3, AppendFacts
    <3> QED BY <3>1
  <2> QED BY <1>2, <2>2, <2>3
<1>4. ASSUME NEW d \in Device PROVE Near(d)' \subseteq Near(d) \cup {new}
  BY <1>2, <1>3 DEF Near, Range
<1>5. Around' \subseteq Around \cup {new}
  BY <1>2, <1>4 DEF Around, Near
<1> QED BY <1>4, <1>5

\* There are no more items than cursors given out.
LEMMA FewItems ==
  ASSUME NEW S, IsFiniteSet(S), Apart(S), NEW N \in Nat, \A it \in S : it.n \in 1 .. N
  PROVE  Cardinality(S) <= N
<1> DEFINE f == [it \in S |-> it.n]
<1>1. f \in [S -> 1 .. N] /\ \A x, y \in S : f[x] = f[y] => x = y
  BY DEF Apart
<1> HIDE DEF f
<1>2. f \in Injection(S, 1 .. N)
  BY <1>1 DEF Injection, IsInjective
<1>3. IsFiniteSet(1 .. N) /\ Cardinality(1 .. N) = N
  BY FS_Interval
<1> QED BY <1>2, <1>3, FS_Injection

LEMMA ReadersInitInv == DeliveryInit => ReadersInv
<1> SUFFICES ASSUME DeliveryInit PROVE ReadersInv
  OBVIOUS
<1>1. DeliveryInv
  BY DeliveryInitInv
<1>2. Around = {Item(1, "welcome", TheGroup, 1)}
  BY DEF DeliveryInit, Around, Range
<1>3. AroundApart /\ counter <= Limit
  BY <1>2, MailboxAssumption DEF AroundApart, Item, DeliveryInit
<1>4. ASSUME NEW d \in Device PROVE ReadsEverything(d)
  BY DEF ReadsEverything, DeliveryInit, Fresh, Item, Sequenced
<1> QED BY <1>1, <1>3, <1>4 DEF ReadersInv

LEMMA ReadersStoreInv ==
  ASSUME MaxCounter <= Limit, ReadersInv, DeliveryInv',
         NEW class \in ItemClass, NEW seq \in Nat, NEW depositor \in SUBSET Device,
         Stores(class, seq, depositor)
  PROVE  ReadersInv'
<1>1. PICK new : new = Item(counter + 1, class, TheGroup, seq)
  OBVIOUS
<1>2. /\ new \in StoredItem /\ new.n = counter + 1 /\ new.class = class /\ new.seq = seq
      /\ counter' = counter + 1
      /\ new \in items' /\ items' \subseteq items \cup {new}
      /\ \A d \in Device : stream'[d] = IF d \in bound \ depositor THEN Append(stream[d], new) ELSE stream[d]
  BY <1>1, StoreFacts DEF ReadersInv, DeliveryInv
<1>3. /\ DeliveryTypes /\ counter \in Nat /\ counter < MaxCounter /\ MaxCounter \in Nat /\ Limit \in Nat
      /\ UNCHANGED <<acks, devices, bound, position, processed, own>>
  BY MailboxAssumption DEF ReadersInv, DeliveryInv, DeliveryTypes, Stores, Store, DevicesStay
<1>4. \A it \in Around : it.n \in Nat /\ it.n <= counter
  <2>1. \A it \in Around : it \in StoredItem
    BY <1>3, AroundIs DEF DeliveryTypes
  <2> QED BY <2>1 DEF ReadersInv, AroundApart, StoredItem
<1>5. AroundApart'
  <2>1. \A it \in Around' : it \in Around \/ it = new
    BY <1>1, AroundGrows DEF ReadersInv
  <2>2. \A it \in Around' : it.n <= counter'
    BY <1>2, <1>3, <1>4, <2>1
  <2>3. \A it, jt \in Around' : it.n = jt.n => it = jt
    BY <1>2, <1>3, <1>4, <2>1 DEF ReadersInv, AroundApart
  <2> QED BY <2>2, <2>3 DEF AroundApart
<1>6. counter' <= Limit
  BY <1>2, <1>3
<1>7. ASSUME NEW d \in Device PROVE ReadsEverything(d)'
  <2>1. ReadsEverything(d) /\ position[d].cursor \in Nat /\ acks[d] \in Nat /\ stream[d] \in Seq(StoredItem)
    BY DEF ReadersInv, DeliveryInv, DeliveryTypes, Position
  <2>2. stream'[d] = stream[d] \/ stream'[d] = Append(stream[d], new)
    BY <1>2
  <2>3. ASSUME NEW j \in DOMAIN stream'[d], NEW k \in DOMAIN stream'[d], j < k
        PROVE  stream'[d][j].n < stream'[d][k].n
    <3>1. \A i \in DOMAIN stream[d] : stream[d][i].n \in Nat /\ stream[d][i].n <= counter
      BY <1>3, <1>4, AroundIs
    <3>2. CASE stream'[d] = stream[d]
      BY <2>1, <2>3, <3>2 DEF ReadsEverything
    <3>3. CASE stream'[d] = Append(stream[d], new)
      <4>1. j \in DOMAIN stream[d] /\ stream'[d][j] = stream[d][j]
        BY <1>2, <2>1, <2>3, <3>3
      <4>2. stream'[d][k] = new \/ (k \in DOMAIN stream[d] /\ stream'[d][k] = stream[d][k])
        BY <1>2, <2>1, <2>3, <3>3, AppendFacts
      <4> QED BY <1>2, <1>3, <2>1, <2>3, <3>1, <4>1, <4>2 DEF ReadsEverything
    <3> QED BY <2>2, <3>2, <3>3
  <2>4. Range(stream[d]) \subseteq Range(stream'[d])
    <3>1. CASE stream'[d] = Append(stream[d], new)
      <4>1. \A i \in DOMAIN stream[d] : i \in DOMAIN stream'[d] /\ stream'[d][i] = stream[d][i]
        BY <1>2, <2>1, <3>1
      <4> QED BY <4>1 DEF Range
    <3> QED BY <2>2, <3>1
  <2>5. ASSUME class # "archive", d \in bound PROVE new \in Range(stream'[d])
    <3>1. stream'[d] = Append(stream[d], new)
      BY <1>2, <2>5 DEF Stores
    <3>2. Len(stream[d]) + 1 \in DOMAIN stream'[d] /\ stream'[d][Len(stream[d]) + 1] = new
      BY <1>2, <2>1, <3>1
    <3> QED BY <3>2 DEF Range
  <2>6. ASSUME NEW it \in items', Sequenced(it), it.seq \notin Has(position[d])
        PROVE  it.n > position[d].cursor /\ it.n > acks[d] /\ (d \in bound => it \in Range(stream'[d]))
    <3>1. CASE it \in items
      BY <2>1, <2>4, <2>6, <3>1 DEF ReadsEverything
    <3>2. CASE it = new
      <4>1. class # "archive"
        BY <1>2, <2>6, <3>2 DEF Sequenced
      <4> QED BY <1>2, <1>3, <2>1, <2>5, <3>2, <4>1 DEF ReadsEverything
    <3> QED BY <1>2, <3>1, <3>2
  <2> QED BY <1>2, <1>3, <2>1, <2>3, <2>6 DEF ReadsEverything, Taken
<1> QED BY <1>5, <1>6, <1>7 DEF ReadersInv

LEMMA ReadersAroundInv ==
  ASSUME ReadersInv, Around' \subseteq Around, counter' = counter
  PROVE  AroundApart' /\ counter' <= Limit
BY DEF ReadersInv, AroundApart

LEMMA ReadersOrderInv ==
  ASSUME ReadersInv, DeliveryInv', NEW h \in HubName, NEW sender \in SUBSET Device, OrderItem(h, sender),
         NEW d \in Device
  PROVE  ReadsEverything(d)'
<1>1. PICK seq : seq = Len(log) + 1
  OBVIOUS
<1>2. /\ UNCHANGED <<items, counter, acks, bound, stream>> /\ UNCHANGED processed
      /\ sender \subseteq {x \in Device : position[x].joined}
      /\ position'[d] = IF d \in sender THEN Positioned(position[d], seq) ELSE position[d]
      /\ own'[d] = IF d \in sender THEN own[d] \cup {seq} ELSE own[d]
  BY <1>1 DEF OrderItem, mailboxVars
<1>3. ReadsEverything(d) /\ DeliveryInv
  BY DEF ReadersInv
<1>4. CASE d \notin sender
  <2>1. position'[d] = position[d] /\ own'[d] = own[d] /\ processed'[d] = processed[d]
    BY <1>2, <1>4
  <2> QED BY <1>2, <1>3, <2>1 DEF ReadsEverything, Taken
<1>5. CASE d \in sender
  <2>1. position[d].joined /\ position[d] \in Position /\ Len(log) \in Nat
    BY <1>2, <1>3, <1>5 DEF DeliveryInv, DeliveryTypes
  <2>2. /\ position[d].contiguous \in 1 .. seq
        /\ \A s \in position[d].seen : position[d].contiguous < s /\ s <= seq
        /\ seq \in Nat /\ seq \in 1 .. seq
    <3>1. \A s \in position[d].seen : s \in Nat
      BY <2>1 DEF Position
    <3> QED BY <1>1, <1>3, <2>1, <3>1, TakenGivenOut
  <2>3. /\ position'[d].cursor = position[d].cursor /\ position'[d].joined = position[d].joined
        /\ Has(position'[d]) = Has(position[d]) \cup {seq}
    <3>1. PICK p, q : p = position[d] /\ q = Positioned(p, seq)
      OBVIOUS
    <3>2. q.cursor = p.cursor /\ q.joined = p.joined /\ Has(q) = Has(p) \cup {seq}
      BY <2>1, <2>2, <3>1, PositionedFits
    <3> QED BY <1>2, <1>5, <3>1, <3>2
  <2>4. Taken(d)' = Taken(d) \cup {seq}
    BY <1>2, <1>5 DEF Taken
  <2> QED BY <1>2, <1>3, <2>1, <2>3, <2>4 DEF ReadsEverything
<1> QED BY <1>4, <1>5

LEMMA ReadersReadInv ==
  ASSUME ReadersInv, DeliveryInv', NEW x \in Device, Reads(x), NEW d \in Device
  PROVE  ReadsEverything(d)'
<1>1. PICK page : page = Page(items', position[x].cursor)
  OBVIOUS
<1>2. /\ stream' = [stream EXCEPT ![x] = page] /\ page \in Seq(items')
      /\ bound' = bound \cup {x}
      /\ acks' \in [Device -> Nat]
      /\ acks'[d] = acks[d] \/ (d = x /\ acks'[d] = position[d].cursor)
      /\ items' \subseteq items /\ IsFiniteSet(items') /\ Apart(items')
      /\ \A it \in items' : it.n \in Nat
      /\ UNCHANGED <<log, counter, devices, position, processed, own>>
  BY <1>1, ReadFacts DEF ReadersInv
<1>3. ReadsEverything(d) /\ position[d].cursor \in Nat /\ acks[d] \in Nat /\ counter \in Nat /\ counter <= Limit
  BY DEF ReadersInv, DeliveryInv, DeliveryTypes, Position
<1>4. stream'[d] = IF d = x THEN page ELSE stream[d]
  BY <1>2 DEF ReadersInv, DeliveryInv, DeliveryTypes
<1>5. CASE d # x
  BY <1>2, <1>3, <1>4, <1>5 DEF ReadsEverything, Taken
<1>6. CASE d = x
  <2>1. Cardinality(items') <= Limit
    <3>1. \A it \in items' : it.n \in 1 .. counter
      <4>1. \A it \in items : it.n \in Nat \ {0} /\ it.n <= counter
        BY DEF ReadersInv, DeliveryInv, DeliveryTypes, CursorsApart, StoredItem
      <4> QED BY <1>2, <1>3, <4>1
    <3>2. Cardinality(items') <= counter /\ Cardinality(items') \in Nat
      BY <1>2, <1>3, <3>1, FewItems, FS_CardinalityType
    <3> QED BY <1>3, <3>2, MailboxAssumption
  <2>2. PICK kept, since : kept = items' /\ since = position[x].cursor
    OBVIOUS
  <2>3. /\ \A i, j \in DOMAIN page : i < j => page[i].n < page[j].n
        /\ \A it \in kept : it.n > since => it \in Range(page)
    <3>1. page = Page(kept, since) /\ since \in Nat /\ Cardinality(kept) <= Limit
      BY <1>1, <1>3, <1>6, <2>1, <2>2
    <3>2. IsFiniteSet(kept) /\ Apart(kept) /\ \A it \in kept : it.n \in Nat
      BY <1>2, <2>2
    <3> QED BY <3>1, <3>2, PageReads
  <2>4. ASSUME NEW it \in items', Sequenced(it), it.seq \notin Has(position[d])
        PROVE  it.n > position[d].cursor /\ it.n > acks'[d] /\ it \in Range(stream'[d])
    <3>1. it.n > position[d].cursor /\ it.n > acks[d]
      BY <1>2, <1>3, <2>4 DEF ReadsEverything
    <3> QED BY <1>2, <1>4, <1>6, <2>2, <2>3, <2>4, <3>1
  <2> QED BY <1>2, <1>3, <1>4, <1>6, <2>3, <2>4 DEF ReadsEverything, Taken
<1> QED BY <1>5, <1>6

LEMMA ReadersPartsInv ==
  ASSUME ReadersInv, Parts \/ StoreStays, NEW d \in Device
  PROVE  ReadsEverything(d)'
<1>1. ReadsEverything(d) /\ position[d] \in Position
  BY DEF ReadersInv, DeliveryInv, DeliveryTypes
<1>2. CASE StoreStays
  BY <1>1, <1>2 DEF StoreStays, DevicesStay, ReadsEverything, Taken
<1>3. CASE Parts
  <2>1. /\ bound' \subseteq bound /\ UNCHANGED <<items, counter, acks, processed, own>>
        /\ stream'[d] = IF d \in bound' THEN stream[d] ELSE <<>>
    BY <1>3 DEF Parts
  <2>2. /\ position'[d].cursor \in {position[d].cursor, 0}
        /\ position'[d].joined = position[d].joined /\ Has(position'[d]) = Has(position[d])
    <3>1. position'[d] = position[d] \/ position'[d] = [position[d] EXCEPT !.cursor = 0]
      BY <1>3 DEF Parts, ReadersInv, DeliveryInv, DeliveryTypes
    <3> QED BY <1>1, <3>1 DEF Position, Has
  <2>3. \A it \in items : it.n > 0
    BY DEF ReadersInv, DeliveryInv, DeliveryTypes, StoredItem
  <2>4. counter \in Nat
    BY DEF ReadersInv, DeliveryInv, DeliveryTypes
  <2> QED BY <1>1, <2>1, <2>2, <2>3, <2>4 DEF ReadsEverything, Taken
<1> QED BY <1>2, <1>3

LEMMA RangeOfAppend ==
  ASSUME NEW S, NEW q \in Seq(S), NEW x \in S
  PROVE  Range(Append(q, x)) = Range(q) \cup {x}
<1>1. \A i \in DOMAIN q : i \in DOMAIN Append(q, x) /\ Append(q, x)[i] = q[i]
  OBVIOUS
<1>2. Len(q) + 1 \in DOMAIN Append(q, x) /\ Append(q, x)[Len(q) + 1] = x
  OBVIOUS
<1> QED BY <1>1, <1>2, AppendFacts DEF Range

LEMMA ReadersProcessInv ==
  ASSUME ReadersInv, DeliveryInv', NEW x \in Device, Process(x), NEW d \in Device
  PROVE  ReadsEverything(d)'
<1>1. PICK it : it = Head(stream[x])
  OBVIOUS
<1>2. Takes(x, it)
  BY <1>1, ProcessFacts DEF ReadersInv
<1>3. ReadsEverything(d) /\ DeliveryTypes
  BY DEF ReadersInv, DeliveryInv
<1>4. /\ UNCHANGED <<items, counter, acks, bound, own>>
      /\ stream'[d] = IF d = x THEN Tail(stream[d]) ELSE stream[d]
  BY <1>2, <1>3 DEF Takes, DeliveryTypes
<1>5. CASE d # x
  BY <1>2, <1>3, <1>4, <1>5 DEF Takes, ReadsEverything, Taken
<1>6. CASE d = x
  <2>1. stream[d] \in Seq(StoredItem) /\ stream[d] # <<>> /\ it = stream[d][1] /\ it \in Around
    <3>1. stream[d] \in Seq(StoredItem) /\ stream[d] # <<>> /\ it = stream[d][1]
      BY <1>2, <1>3, <1>6 DEF Takes, DeliveryTypes
    <3>2. 1 \in DOMAIN stream[d]
      BY <3>1, TailFacts
    <3> QED BY <1>3, <3>1, <3>2, AroundIs
  <2>2. \A i \in DOMAIN stream'[d] : i + 1 \in DOMAIN stream[d] /\ stream'[d][i] = stream[d][i + 1]
    <3>1. PICK q : q = stream[d]
      OBVIOUS
    <3>2. \A i \in DOMAIN Tail(q) : i + 1 \in DOMAIN q /\ Tail(q)[i] = q[i + 1]
      BY <2>1, <3>1, TailFacts
    <3> QED BY <1>4, <1>6, <3>1, <3>2
  <2>3. \A i \in DOMAIN stream[d] : i = 1 \/ (i - 1 \in DOMAIN stream'[d] /\ stream'[d][i - 1] = stream[d][i])
    <3>1. PICK q : q = stream[d]
      OBVIOUS
    <3>2. \A i \in DOMAIN q : i = 1 \/ (i - 1 \in DOMAIN Tail(q) /\ Tail(q)[i - 1] = q[i])
      BY <2>1, <3>1
    <3> QED BY <1>4, <1>6, <3>1, <3>2
  <2>4. \A j, k \in DOMAIN stream'[d] : j < k => stream'[d][j].n < stream'[d][k].n
    <3> SUFFICES ASSUME NEW j \in DOMAIN stream'[d], NEW k \in DOMAIN stream'[d], j < k
                 PROVE  stream'[d][j].n < stream'[d][k].n
      OBVIOUS
    <3>1. j \in Int /\ k \in Int
      <4>1. PICK q : q = Tail(stream[d])
        OBVIOUS
      <4>2. q \in Seq(StoredItem)
        BY <2>1, <4>1
      <4>3. DOMAIN q \subseteq Int
        BY <4>2
      <4> QED BY <1>4, <1>6, <4>1, <4>3
    <3>2. j + 1 < k + 1
      BY <3>1
    <3> QED BY <1>3, <2>2, <3>2 DEF ReadsEverything
  <2>5. position'[d].cursor = it.n /\ it.n <= counter /\ position'[d].joined
    BY <1>2, <1>6, <2>1 DEF Takes, TakesIn, ReadersInv, AroundApart
  <2>6. Has(position[d]) \subseteq Has(position'[d])
    <3>1. ~position[d].joined => Has(position[d]) = {}
      BY DEF ReadersInv, DeliveryInv, PositionCovers, Has, NoPosition
    <3> QED BY <1>2, <1>6, <3>1 DEF Takes, TakesIn
  <2>7. Has(position'[d]) \subseteq Taken(d)' \cup {1}
    <3>1. CASE ~position[d].joined
      BY <1>2, <1>6, <3>1 DEF Takes, TakesIn
    <3>2. CASE position[d].joined /\ processed'[d] = processed[d]
      <4>1. ~Sequenced(it) \/ it.seq \in Has(position[d])
        <5>1. processed[d] \in Seq(Nat) /\ it.seq \in Nat
          BY <1>2, <1>3 DEF Takes, DeliveryTypes, StoredItem
        <5>2. Len(Append(processed[d], it.seq)) # Len(processed[d])
          BY <5>1
        <5> QED BY <1>2, <1>6, <3>2, <5>2 DEF Takes
      <4>2. Has(position'[d]) = Has(position[d])
        BY <1>2, <1>6, <3>2, <4>1 DEF Takes, TakesIn
      <4> QED BY <1>3, <1>4, <3>2, <4>2 DEF ReadsEverything, Taken
    <3>3. CASE position[d].joined /\ processed'[d] # processed[d]
      <4>1. processed'[d] = Append(processed[d], it.seq) /\ processed[d] \in Seq(Nat) /\ it.seq \in Nat
        BY <1>2, <1>3, <1>6, <3>3 DEF Takes, DeliveryTypes, StoredItem
      <4>2. Range(processed'[d]) = Range(processed[d]) \cup {it.seq}
        BY <4>1, RangeOfAppend
      <4>3. Has(position'[d]) \subseteq Has(position[d]) \cup {it.seq}
        BY <1>2, <1>6, <3>3 DEF Takes, TakesIn
      <4> QED BY <1>3, <1>4, <3>3, <4>2, <4>3 DEF ReadsEverything, Taken
    <3> QED BY <3>1, <3>2, <3>3
  <2>8. ASSUME NEW jt \in items, Sequenced(jt), jt.seq \notin Has(position'[d])
        PROVE  jt.n > it.n /\ jt.n > acks[d] /\ jt \in Range(stream'[d])
    <3>1. jt \in Range(stream[d]) /\ jt.n > acks[d]
      BY <1>2, <1>3, <1>6, <2>6, <2>8 DEF ReadsEverything, Takes
    <3>2. PICK i \in DOMAIN stream[d] : stream[d][i] = jt
      BY <3>1 DEF Range
    <3>3. i # 1
      <4>1. CASE i = 1
        <5>1. jt = it
          BY <2>1, <3>2, <4>1
        <5>2. position[d].joined /\ it.seq \in Has(position'[d])
          BY <1>2, <1>6, <2>8, <5>1 DEF Takes, TakesIn, Sequenced
        <5> QED BY <2>8, <5>1, <5>2
      <4> QED BY <4>1
    <3>4. i - 1 \in DOMAIN stream'[d] /\ stream'[d][i - 1] = jt
      BY <2>3, <3>2, <3>3
    <3>5. it.n < jt.n
      <4>1. 1 \in DOMAIN stream[d] /\ 1 < i
        BY <2>1, <3>3
      <4> QED BY <1>3, <2>1, <3>2, <4>1 DEF ReadsEverything
    <3>6. it.n \in Nat /\ jt.n \in Nat
      BY <1>2, <1>3 DEF Takes, DeliveryTypes, StoredItem
    <3> QED BY <3>1, <3>4, <3>5, <3>6 DEF Range
  <2>9. acks[d] <= counter
    BY <1>3 DEF ReadsEverything
  <2> QED BY <1>4, <2>4, <2>5, <2>7, <2>8, <2>9 DEF ReadsEverything
<1> QED BY <1>5, <1>6

LEMMA ReadersStepInv ==
  ASSUME MaxCounter <= Limit, ReadersInv, [DeliveryNext]_deliveryVars
  PROVE  ReadersInv'
<1>1. \/ \E h \in HubName, sender \in SUBSET Device : OrderItem(h, sender)
      \/ \E class \in ItemClass, seq \in Nat, depositor \in SUBSET Device : Stores(class, seq, depositor)
      \/ \E d \in Device : Reads(d)
      \/ \E d \in Device : Process(d)
      \/ Parts
      \/ StoreStays
  BY StoreKinds DEF ReadersInv, DeliveryInv
<1>2. DeliveryInv' /\ DeliveryInv
  BY DeliveryStepInv DEF ReadersInv
<1>3. CASE \E class \in ItemClass, seq \in Nat, depositor \in SUBSET Device : Stores(class, seq, depositor)
  BY <1>2, <1>3, ReadersStoreInv
<1>4. ASSUME \/ \E h \in HubName, sender \in SUBSET Device : OrderItem(h, sender)
             \/ \E d \in Device : Reads(d)
             \/ \E d \in Device : Process(d)
             \/ Parts
             \/ StoreStays
      PROVE  ReadersInv'
  <2>1. AroundApart' /\ counter' <= Limit
    <3>1. Around' \subseteq Around /\ counter' = counter
      BY <1>2, <1>4, AroundShrinks
    <3> QED BY <3>1, ReadersAroundInv
  <2>2. ASSUME NEW d \in Device PROVE ReadsEverything(d)'
    BY <1>2, <1>4, ReadersOrderInv, ReadersReadInv, ReadersPartsInv, ReadersProcessInv
  <2> QED BY <1>2, <2>1, <2>2 DEF ReadersInv
<1> QED BY <1>1, <1>3, <1>4

-----------------------------------------------------------------------------
(* InOrderUnlessAnnounced.                                                 *)

Current == groups[TheGroup]

\* Before the mailbox announces anything it has given nothing up, and what it has
\* stored ascends, up to the highest number it admitted.
StoredInTurn ==
  /\ Current.prev.released = Waiting
  /\ \A it \in Around : Sequenced(it) => it.seq <= Current.high
  /\ \A it, jt \in Around : Sequenced(it) /\ Sequenced(jt) /\ it.n < jt.n => it.seq < jt.seq

\* Then a device has processed less than what it has yet to read.
ReadInTurn(d) ==
  /\ \A s \in Range(processed[d]) : s <= Current.high
  /\ \A it \in Near(d) : Sequenced(it) /\ it.seq \notin Has(position[d]) => \A s \in Range(processed[d]) : s < it.seq
  /\ \A j, k \in DOMAIN processed[d] : j < k => processed[d][j] < processed[d][k]

InTurn == announced = {} => StoredInTurn /\ \A d \in Device : ReadInTurn(d)

InOrderInv == ReadersInv /\ InTurn

LEMMA InOrderInitInv == DeliveryInit => InOrderInv
<1> SUFFICES ASSUME DeliveryInit PROVE InOrderInv
  OBVIOUS
<1>1. ReadersInv
  BY ReadersInitInv
<1>2. Current.prev.released = Waiting
  BY DEF DeliveryInit, Current, Registration, NoPrevious
<1>3. Around = {Item(1, "welcome", TheGroup, 1)} /\ \A d \in Device : Near(d) = {Item(1, "welcome", TheGroup, 1)}
  BY DEF DeliveryInit, Around, Near, Range
<1>4. StoredInTurn
  BY <1>2, <1>3 DEF StoredInTurn, Item, Sequenced
<1>5. ASSUME NEW d \in Device PROVE ReadInTurn(d)
  BY <1>3 DEF ReadInTurn, DeliveryInit, Item, Sequenced, Range
<1> QED BY <1>1, <1>4, <1>5 DEF InOrderInv, InTurn

\* What a hub deposits raises the highest number.
Raises(class, seq) ==
  /\ class \in ItemClass /\ seq \in Nat /\ Stores(class, seq, {})
  /\ IF seq = 0 THEN class = "group-info" /\ Current'.high = Current.high
                ELSE Current'.high = seq /\ seq > Current.high

\* As long as nothing is announced, a step deposits the next number or stores none.
LEMMA TurnKinds ==
  ASSUME DeliveryInv, [DeliveryNext]_deliveryVars, announced' = {}, announced = {} => Current.prev.released = Waiting
  PROVE  /\ announced = {} /\ Current'.prev.released = Waiting
         /\ Current.high \in Nat /\ Current'.high \in Nat
         /\ \/ \E class \in ItemClass, seq \in Nat : Raises(class, seq)
            \/ /\ Current'.high = Current.high
               /\ \/ \E class \in {"welcome", "archive"}, seq \in Nat, depositor \in SUBSET Device :
                       Stores(class, seq, depositor)
                  \/ \E h \in HubName, sender \in SUBSET Device : OrderItem(h, sender)
                  \/ \E d \in Device : Reads(d)
                  \/ \E d \in Device : Process(d)
                  \/ Parts
                  \/ StoreStays
<1>1. RegistersOne /\ RegistersOne' /\ DeliveryTypes /\ NumbersGivenOut /\ OnlyToBound /\ NamesGivenOut
  BY DeliveryStepInv DEF DeliveryInv
<1>2. Current.high \in Nat /\ Current'.high \in Nat /\ Current' = groups'[TheGroup]
  BY <1>1 DEF RegistersOne, RegistrationRecord, Current
<1>3. ASSUME NEW h \in HubName, NEW class, NEW seq, Deposits(h, class, seq)
      PROVE  announced = {} /\ Current'.prev.released = Waiting /\ class \in ItemClass /\ seq \in Nat /\ Raises(class, seq)
  <2>1. class \in ItemClass /\ seq \in Nat /\ Stores(class, seq, {})
    BY <1>3 DEF Deposits, HubDeposit, Stores, Numbers, ItemClass
  <2>2. seq = 0 => class = "group-info"
    BY <1>3 DEF Deposits, Numbers
  <2>3. /\ DepositMakes(Current, h, seq, Current') /\ announced \subseteq announced'
        /\ Current.hub = h /\ Awaited(Current) => announced' # {}
    BY <1>1, <1>2, <1>3, <2>1, DepositFacts DEF Deposits, Current
  <2>4. announced = {} /\ ~Late(Current, h, seq)
    BY <2>3 DEF Late
  <2> QED BY <2>1, <2>2, <2>3, <2>4 DEF DepositMakes, Raises
<1>4. ASSUME UNCHANGED <<groups, announced>>
      PROVE  announced = {} /\ Current'.prev.released = Waiting /\ Current'.high = Current.high
  BY <1>4 DEF Current
<1>5. CASE \E h \in HubName, sender \in SUBSET Device : OrderItem(h, sender)
  BY <1>2, <1>4, <1>5 DEF OrderItem, mailboxVars
<1>6. CASE \E h \in HubName : Delivers(h)
  BY <1>2, <1>3, <1>6 DEF Delivers
<1>7. CASE Deposits(Host, "group-info", 0)
  <2>1. Host \in HubName
    BY <1>1, DeliveryAssumption DEF Host, HubAfter, DeliveryTypes
  <2> QED BY <1>2, <1>3, <1>7, <2>1
<1>8. CASE \E h \in HubName : DeliverDuplicate(h) /\ StoreStays /\ UNCHANGED <<groups, announced>>
  BY <1>2, <1>4, <1>8
<1>9. CASE \E class \in {"welcome", "archive"}, seq \in Nat, depositor \in SUBSET Device :
             Stores(class, seq, depositor) /\ HubsStay
  BY <1>2, <1>4, <1>9 DEF HubsStay
<1>10. CASE \E d \in Device : (Reads(d) \/ Process(d)) /\ HubsStay
  BY <1>2, <1>4, <1>10 DEF HubsStay
<1>11. CASE (Parts \/ StoreStays) /\ HubsStay
  BY <1>2, <1>4, <1>11 DEF HubsStay
<1>12. CASE (HubDepositNotStored(TheGroup, Host) \/ (\E d \in Device : NameHub(d)) \/ MailboxClock) /\ StoreStays
  <2>1. announced \subseteq announced' /\ Current'.high = Current.high /\ Current'.prev.released = Waiting
    <3>1. ASSUME NEW k, groups'[TheGroup].prev = [NoPrevious EXCEPT !.hub = groups[TheGroup].hub, !.through = k]
          PROVE  Current'.prev.released = Waiting
      BY <1>2, <3>1 DEF NoPrevious
    <3> QED BY <1>1, <1>2, <1>12, <3>1, OtherRegistrations DEF Current
  <2> QED BY <1>2, <1>12, <2>1
<1> QED BY <1>1, <1>5, <1>6, <1>7, <1>8, <1>9, <1>10, <1>11, <1>12, StepKinds

\* What stays as it was does not get out of turn.
LEMMA TurnStays ==
  ASSUME InOrderInv, announced = {}, Current'.prev.released = Waiting,
         Current'.high = Current.high, Around' \subseteq Around, \A d \in Device : Near(d)' \subseteq Near(d)
  PROVE  /\ StoredInTurn'
         /\ \A d \in Device : processed'[d] = processed[d] /\ Has(position[d]) \subseteq Has(position'[d])
                                => ReadInTurn(d)'
<1>1. StoredInTurn /\ \A d \in Device : ReadInTurn(d)
  BY DEF InOrderInv, InTurn
<1>2. StoredInTurn'
  BY <1>1 DEF StoredInTurn
<1>3. ASSUME NEW d \in Device, processed'[d] = processed[d], Has(position[d]) \subseteq Has(position'[d])
      PROVE  ReadInTurn(d)'
  BY <1>1, <1>3 DEF ReadInTurn
<1> QED BY <1>2, <1>3

\* The item a step stores is numbered higher than all before it, or has no number.
LEMMA TurnStores ==
  ASSUME InOrderInv, DeliveryInv', announced = {}, Current'.prev.released = Waiting,
         Current.high \in Nat, Current'.high \in Nat,
         NEW class \in ItemClass, NEW seq \in Nat, NEW depositor \in SUBSET Device, Stores(class, seq, depositor),
         \/ class \in {"welcome", "archive", "group-info"} /\ Current'.high = Current.high
         \/ Current'.high = seq /\ seq > Current.high
  PROVE  StoredInTurn' /\ \A d \in Device : ReadInTurn(d)'
<1>1. PICK new : new = Item(counter + 1, class, TheGroup, seq)
  OBVIOUS
<1>2. /\ new.n = counter + 1 /\ new.class = class /\ new.seq = seq
      /\ UNCHANGED <<position, processed>>
  BY <1>1, StoreFacts DEF InOrderInv, ReadersInv, DeliveryInv, Stores, DevicesStay
<1>3. Around' \subseteq Around \cup {new} /\ \A d \in Device : Near(d)' \subseteq Near(d) \cup {new}
  BY <1>1, AroundGrows DEF InOrderInv, ReadersInv
<1>4. /\ StoredInTurn /\ \A d \in Device : ReadInTurn(d)
      /\ \A it \in Around : it.n <= counter /\ it.n \in Nat /\ it.seq \in Nat
      /\ counter \in Nat
  <2>1. DeliveryTypes /\ AroundApart
    BY DEF InOrderInv, ReadersInv, DeliveryInv
  <2>2. \A it \in Around : it \in StoredItem
    BY <2>1, AroundIs DEF DeliveryTypes
  <2> QED BY <2>1, <2>2 DEF InOrderInv, InTurn, AroundApart, StoredItem, DeliveryTypes
<1>5. Current.high <= Current'.high /\ (Sequenced(new) => new.seq = Current'.high /\ new.seq > Current.high)
  BY <1>2 DEF Sequenced
<1>6. StoredInTurn'
  <2>1. \A it \in Around' : Sequenced(it) => it.seq <= Current'.high
    BY <1>3, <1>4, <1>5 DEF StoredInTurn
  <2>2. ASSUME NEW it \in Around', NEW jt \in Around', Sequenced(it), Sequenced(jt), it.n < jt.n
        PROVE  it.seq < jt.seq
    <3>1. it # new
      BY <1>2, <1>3, <1>4, <2>2
    <3>2. it \in Around /\ (jt \in Around \/ jt = new)
      BY <1>3, <3>1
    <3>3. it.seq <= Current.high
      BY <1>4, <2>2, <3>2 DEF StoredInTurn
    <3> QED BY <1>2, <1>4, <1>5, <2>2, <3>2, <3>3 DEF StoredInTurn
  <2> QED BY <2>1, <2>2 DEF StoredInTurn
<1>7. ASSUME NEW d \in Device PROVE ReadInTurn(d)'
  <2>1. ReadInTurn(d) /\ processed[d] \in Seq(Nat) /\ processed'[d] = processed[d] /\ position'[d] = position[d]
    BY <1>2, <1>4 DEF InOrderInv, ReadersInv, DeliveryInv, DeliveryTypes
  <2>2. \A s \in Range(processed[d]) : s \in Nat /\ s <= Current.high
    BY <2>1 DEF ReadInTurn, Range
  <2>3. \A it \in Near(d)' : Sequenced(it) /\ it.seq \notin Has(position[d]) => \A s \in Range(processed[d]) : s < it.seq
    BY <1>2, <1>3, <1>5, <2>1, <2>2 DEF ReadInTurn
  <2>4. \A s \in Range(processed[d]) : s <= Current'.high
    BY <1>5, <2>2
  <2> QED BY <2>1, <2>3, <2>4 DEF ReadInTurn
<1> QED BY <1>6, <1>7

\* What a device processes is the first of what it has yet to read.
LEMMA TurnProcess ==
  ASSUME InOrderInv, announced = {}, Current'.high = Current.high,
         NEW d \in Device, Process(d), Near(d)' \subseteq Near(d)
  PROVE  ReadInTurn(d)'
<1>1. PICK it : it = Head(stream[d])
  OBVIOUS
<1>2. Takes(d, it)
  BY <1>1, ProcessFacts DEF InOrderInv, ReadersInv
<1>3. /\ ReadersInv /\ DeliveryTypes /\ StoredInTurn /\ ReadInTurn(d) /\ ReadsEverything(d)
      /\ processed[d] \in Seq(Nat) /\ stream[d] \in Seq(StoredItem)
  BY DEF InOrderInv, InTurn, ReadersInv, DeliveryInv, DeliveryTypes
<1>4. Has(position[d]) \subseteq Has(position'[d])
  <2>1. ~position[d].joined => Has(position[d]) = {}
    BY DEF InOrderInv, ReadersInv, DeliveryInv, PositionCovers, Has, NoPosition
  <2> QED BY <1>2, <2>1 DEF Takes, TakesIn
<1>5. CASE processed'[d] = processed[d]
  BY <1>3, <1>4, <1>5 DEF ReadInTurn
<1>6. CASE processed'[d] # processed[d]
  <2>1. /\ Sequenced(it) /\ it.seq \notin Has(position[d]) /\ processed'[d] = Append(processed[d], it.seq)
        /\ it.seq \in Nat /\ position[d].joined
    BY <1>2, <1>6 DEF Takes, StoredItem, Sequenced
  <2>2. Range(processed'[d]) = Range(processed[d]) \cup {it.seq}
    BY <1>3, <2>1, RangeOfAppend
  <2>3. /\ 1 \in DOMAIN stream[d] /\ stream[d] # <<>> /\ it = stream[d][1] /\ it \in Around /\ it \in Near(d)
        /\ DOMAIN stream[d] \subseteq Nat \ {0}
    <3>1. stream[d] # <<>> /\ it = stream[d][1]
      BY <1>2 DEF Takes
    <3>2. 1 \in DOMAIN stream[d] /\ DOMAIN stream[d] \subseteq Nat \ {0}
      BY <1>3, <3>1
    <3> QED BY <1>3, <3>1, <3>2, AroundIs DEF Near, Range
  <2>4. it.seq <= Current.high /\ \A s \in Range(processed[d]) : s < it.seq /\ s \in Nat
    <3>1. \A s \in Range(processed[d]) : s \in Nat
      BY <1>3 DEF Range
    <3> QED BY <1>3, <2>1, <2>3, <3>1 DEF StoredInTurn, ReadInTurn
  <2>5. \A s \in Range(processed'[d]) : s <= Current'.high
    BY <1>3, <2>2, <2>4 DEF ReadInTurn
  <2>6. \A j, k \in DOMAIN processed'[d] : j < k => processed'[d][j] < processed'[d][k]
    <3>1. \A i \in DOMAIN processed'[d] :
            processed'[d][i] = IF i \in DOMAIN processed[d] THEN processed[d][i] ELSE it.seq
      BY <1>3, <2>1, AppendFacts
    <3>2. ASSUME NEW j \in DOMAIN processed'[d], NEW k \in DOMAIN processed'[d], j < k
          PROVE  j \in DOMAIN processed[d]
      BY <1>3, <2>1, <3>2
    <3>3. \A j \in DOMAIN processed[d] : processed[d][j] < it.seq
      BY <2>4 DEF Range
    <3> QED BY <1>3, <3>1, <3>2, <3>3 DEF ReadInTurn
  <2>7. ASSUME NEW jt \in Near(d)', Sequenced(jt), jt.seq \notin Has(position'[d])
        PROVE  \A s \in Range(processed'[d]) : s < jt.seq
    <3>1. jt \in Near(d) /\ jt.seq \notin Has(position[d]) /\ jt.seq # it.seq /\ jt # it
      BY <1>2, <1>4, <2>1, <2>7 DEF Takes, TakesIn
    <3>2. jt \in Range(stream[d])
      BY <1>2, <1>3, <2>7, <3>1 DEF Near, ReadsEverything, Takes
    <3>3. PICK i \in DOMAIN stream[d] : stream[d][i] = jt
      BY <3>2 DEF Range
    <3>4. it.n < jt.n
      <4>1. i # 1 /\ i \in Nat \ {0}
        BY <2>3, <3>1, <3>3
      <4>2. 1 < i
        BY <4>1
      <4> QED BY <1>3, <2>3, <3>3, <4>2 DEF ReadsEverything
    <3>5. jt \in Around
      BY <1>3, <3>3, AroundIs
    <3>6. it.seq < jt.seq
      BY <1>3, <2>1, <2>3, <2>7, <3>4, <3>5 DEF StoredInTurn
    <3>7. \A s \in Range(processed[d]) : s < jt.seq
      BY <1>3, <2>7, <3>1 DEF ReadInTurn
    <3> QED BY <2>2, <3>6, <3>7
  <2> QED BY <2>5, <2>6, <2>7 DEF ReadInTurn
<1> QED BY <1>5, <1>6

LEMMA InOrderStepInv ==
  ASSUME MaxCounter <= Limit, InOrderInv, [DeliveryNext]_deliveryVars
  PROVE  InOrderInv'
<1>1. ReadersInv' /\ ReadersInv /\ DeliveryInv /\ DeliveryInv'
  BY ReadersStepInv DEF InOrderInv, ReadersInv
<1> SUFFICES ASSUME announced' = {} PROVE StoredInTurn' /\ \A d \in Device : ReadInTurn(d)'
  BY <1>1 DEF InOrderInv, InTurn
<1>2. announced = {} => Current.prev.released = Waiting
  BY DEF InOrderInv, InTurn, StoredInTurn
<1>3. /\ announced = {} /\ Current'.prev.released = Waiting
      /\ Current.high \in Nat /\ Current'.high \in Nat
  BY <1>1, <1>2, TurnKinds
<1>4. CASE \E class \in ItemClass, seq \in Nat : Raises(class, seq)
  <2>1. PICK class \in ItemClass, seq \in Nat : Raises(class, seq)
    BY <1>4
  <2>2. {} \in SUBSET Device
    OBVIOUS
  <2> QED BY <1>1, <1>3, <2>1, <2>2, TurnStores DEF Raises
<1>5. CASE /\ \E class \in {"welcome", "archive"}, seq \in Nat, depositor \in SUBSET Device :
                Stores(class, seq, depositor)
           /\ Current'.high = Current.high
  <2>1. \A class \in {"welcome", "archive"} : class \in ItemClass
    BY DEF ItemClass
  <2> QED BY <1>1, <1>3, <1>5, <2>1, TurnStores
<1>6. CASE /\ \/ \E h \in HubName, sender \in SUBSET Device : OrderItem(h, sender)
              \/ \E d \in Device : Reads(d)
              \/ \E d \in Device : Process(d)
              \/ Parts
              \/ StoreStays
           /\ Current'.high = Current.high
  <2>1. Around' \subseteq Around /\ \A d \in Device : Near(d)' \subseteq Near(d)
    BY <1>1, <1>6, AroundShrinks
  <2>2. /\ StoredInTurn'
        /\ \A d \in Device : processed'[d] = processed[d] /\ Has(position[d]) \subseteq Has(position'[d])
                               => ReadInTurn(d)'
    BY <1>3, <1>6, <2>1, TurnStays
  <2>3. ASSUME NEW d \in Device PROVE ReadInTurn(d)'
    <3>1. position[d] \in Position
      BY <1>1 DEF DeliveryInv, DeliveryTypes
    <3>2. CASE \E h \in HubName, sender \in SUBSET Device : OrderItem(h, sender)
      <4>1. PICK h \in HubName, sender \in SUBSET Device : OrderItem(h, sender)
        BY <3>2
      <4>2. PICK seq : seq = Len(log) + 1
        OBVIOUS
      <4>3. /\ processed'[d] = processed[d]
            /\ d \in sender => position[d].joined
            /\ position'[d] = IF d \in sender THEN Positioned(position[d], seq) ELSE position[d]
        BY <4>1, <4>2 DEF OrderItem
      <4>4. ASSUME d \in sender PROVE Has(position[d]) \subseteq Has(position'[d])
        <5>1. PICK p, q : p = position[d] /\ q = Positioned(p, seq)
          OBVIOUS
        <5>2. /\ p.contiguous \in 1 .. Len(log) /\ Len(log) \in Nat
              /\ \A s \in p.seen : p.contiguous < s /\ s <= Len(log) /\ s \in Nat
          BY <1>1, <3>1, <4>3, <4>4, <5>1, TakenGivenOut DEF Position
        <5>3. p.contiguous \in 1 .. seq /\ seq \in Nat /\ seq \in 1 .. seq /\ \A s \in p.seen : p.contiguous < s /\ s <= seq
          BY <4>2, <5>2
        <5>4. Has(q) = Has(p) \cup {seq}
          BY <3>1, <5>1, <5>3, PositionedFits
        <5> QED BY <4>3, <4>4, <5>1, <5>4
      <4> QED BY <2>2, <4>3, <4>4
    <3>3. CASE \E x \in Device : Reads(x)
      BY <2>2, <3>3 DEF Reads
    <3>4. CASE \E x \in Device : Process(x)
      <4>1. PICK x \in Device : Process(x)
        BY <3>4
      <4>2. CASE x = d
        BY <1>3, <1>6, <2>1, <4>1, <4>2, TurnProcess
      <4>3. CASE x # d
        <5>1. PICK it : it = Head(stream[x])
          OBVIOUS
        <5>2. position'[d] = position[d] /\ processed'[d] = processed[d]
          BY <1>1, <4>1, <4>3, <5>1, ProcessFacts DEF Takes
        <5> QED BY <2>2, <5>2
      <4> QED BY <4>2, <4>3
    <3>5. CASE Parts
      <4>1. processed' = processed /\ (position'[d] = position[d] \/ position'[d] = [position[d] EXCEPT !.cursor = 0])
        BY <1>1, <3>5 DEF Parts, DeliveryInv, DeliveryTypes
      <4>2. Has(position'[d]) = Has(position[d])
        BY <3>1, <4>1 DEF Position, Has
      <4> QED BY <2>2, <4>1, <4>2
    <3>6. CASE StoreStays
      BY <2>2, <3>6 DEF StoreStays, DevicesStay
    <3> QED BY <1>6, <3>2, <3>3, <3>4, <3>5, <3>6
  <2> QED BY <2>2, <2>3
<1> QED BY <1>1, <1>2, <1>4, <1>5, <1>6, TurnKinds

\* Devices process items in the order of their numbers, across any number of moves,
\* until the mailbox announces that it waits no longer; the hypothesis says that
\* the answer to a sync has room for everything that is stored.
THEOREM OrderUnlessAnnounced == MaxCounter <= Limit => (DeliverySpec => []InOrderUnlessAnnounced)
<1> SUFFICES ASSUME MaxCounter <= Limit PROVE DeliverySpec => []InOrderUnlessAnnounced
  OBVIOUS
<1>1. DeliveryInit => InOrderInv
  BY InOrderInitInv
<1>2. InOrderInv /\ [DeliveryNext]_deliveryVars => InOrderInv'
  BY InOrderStepInv
<1>3. InOrderInv => InOrderUnlessAnnounced
  BY DEF InOrderInv, InTurn, ReadInTurn, InOrderUnlessAnnounced
<1> QED BY <1>1, <1>2, <1>3, PTL DEF DeliverySpec

-----------------------------------------------------------------------------
(* NothingIsLost.                                                          *)

\* Nobody needs a copy of an item any more, or one is stored; the first item is
\* the commit the member was brought in with, of which there is only the welcome.
Kept(seq) ==
  \/ seq = 1
  \/ \E it \in items : Sequenced(it) /\ it.seq = seq
  \/ \A d \in devices : seq \in Taken(d)

\* The group is at its first hub before item m and at h from then on.
MovedAt(m, h) ==
  /\ m \in 2 .. (Len(log) + 1)
  /\ \A k \in Numbers : log[k] = IF k < m THEN FirstHub ELSE h
  /\ m <= Len(log) => h # FirstHub

\* A hub still has to deliver what was ordered while the group was with it.
Queued(h) ==
  /\ \A seq \in Range(backlog[h]) : seq > 1 /\ log[seq - 1] = h
  /\ \A j, k \in DOMAIN backlog[h] : j < k => backlog[h][j] < backlog[h][k]

\* The mailbox knows the first hub, or both and the move between them.
KnowsMove ==
  \/ Current.hub = FirstHub /\ Current.prev.through = 0 /\ Current.prev.released = Waiting
  \/ \E m \in Moves : Current.hub = log[m] /\ Current.prev.hub = log[m - 1] /\ Current.prev.through = m

\* What was given up is above what had come by then.
GivenUp ==
  /\ Current.high <= Len(log)
  /\ Current.prev.released # Waiting => Current.prev.released <= Current.high
  /\ \A seq \in Current.prev.late : Kept(seq)

\* A number the mailbox has gone past has been stored, or will be taken as late.
Passed ==
  \A h \in HubName : \A seq \in Range(backlog[h]) : seq <= Current.high => Kept(seq) \/ Late(Current, h, seq)

Somewhere == \A seq \in 2 .. Len(log) : Kept(seq) \/ \E h \in HubName : seq \in Range(backlog[h])

Whereabouts ==
  /\ \E m \in 2 .. (Len(log) + 1), h \in HubName : MovedAt(m, h)
  /\ \A h \in HubName : Queued(h)
  /\ KnowsMove /\ GivenUp
  /\ Passed /\ Somewhere

SafeInv == ReadersInv /\ Whereabouts

\* Whoever has taken an item keeps it.
LEMMA TakenStays ==
  ASSUME DeliveryInv, [DeliveryNext]_deliveryVars, NEW d \in Device
  PROVE  Taken(d) \subseteq Taken(d)'
<1>1. processed[d] \in Seq(Nat) /\ own \in [Device -> SUBSET Nat] /\ processed \in [Device -> Seq(Nat)]
  BY DEF DeliveryInv, DeliveryTypes
<1>2. CASE \E h \in HubName, sender \in SUBSET Device : OrderItem(h, sender)
  <2>1. processed' = processed /\ own[d] \subseteq own'[d]
    BY <1>1, <1>2 DEF OrderItem
  <2> QED BY <2>1 DEF Taken
<1>3. CASE \/ \E class \in ItemClass, seq \in Nat, depositor \in SUBSET Device : Stores(class, seq, depositor)
           \/ \E x \in Device : Reads(x)
           \/ Parts
           \/ StoreStays
  <2>1. processed' = processed /\ own' = own
    BY <1>3 DEF Stores, Reads, Parts, StoreStays, DevicesStay
  <2> QED BY <2>1 DEF Taken
<1>4. CASE \E x \in Device : Process(x)
  <2>1. PICK x \in Device : Process(x)
    BY <1>4
  <2>2. PICK it : it = Head(stream[x])
    OBVIOUS
  <2>3. Takes(x, it)
    BY <2>1, <2>2, ProcessFacts
  <2>4. it.seq \in Nat /\ own' = own /\ processed'[d] \in {processed[d], Append(processed[d], it.seq)}
    BY <1>1, <2>3 DEF Takes, StoredItem
  <2>5. Range(Append(processed[d], it.seq)) = Range(processed[d]) \cup {it.seq}
    <3>1. PICK q, s : q = processed[d] /\ s = it.seq
      OBVIOUS
    <3>2. q \in Seq(Nat) /\ s \in Nat
      BY <1>1, <2>4, <3>1
    <3>3. Range(Append(q, s)) = Range(q) \cup {s}
      BY <3>2, RangeOfAppend
    <3> QED BY <3>1, <3>3
  <2> QED BY <2>4, <2>5 DEF Taken
<1> QED BY <1>2, <1>3, <1>4, StoreKinds DEF DeliveryInv

\* What is deleted has been taken by every device that is registered.
LEMMA KeptStays ==
  ASSUME ReadersInv, [DeliveryNext]_deliveryVars, NEW seq, Kept(seq)
  PROVE  Kept(seq)'
<1>1. DeliveryInv /\ DeliveryTypes
  BY DEF ReadersInv, DeliveryInv
<1>2. ASSUME devices' \subseteq devices, \A it \in items : Sequenced(it) /\ it.seq = seq => it \in items'
      PROVE  Kept(seq)'
  <2>1. \A d \in devices' : Taken(d) \subseteq Taken(d)'
    BY <1>1, <1>2, TakenStays DEF DeliveryTypes
  <2> QED BY <1>2, <2>1 DEF Kept
<1>3. CASE \/ \E h \in HubName, sender \in SUBSET Device : OrderItem(h, sender)
           \/ \E x \in Device : Process(x)
           \/ Parts
           \/ StoreStays
  <2>1. devices' \subseteq devices /\ items' = items
    BY <1>3 DEF OrderItem, Process, Parts, StoreStays, DevicesStay, mailboxVars, deviceVars
  <2> QED BY <1>2, <2>1
<1>4. CASE \E class \in ItemClass, s \in Nat, depositor \in SUBSET Device : Stores(class, s, depositor)
  <2>1. devices' = devices /\ \A it \in items : it.class # "group-info" => it \in items'
    BY <1>4 DEF Stores, DevicesStay, Store
  <2> QED BY <1>2, <2>1 DEF Sequenced
<1>5. CASE \E x \in Device : Reads(x)
  <2>1. PICK x \in Device : Reads(x)
    BY <1>5
  <2>2. PICK page : page = Page(items', position[x].cursor)
    OBVIOUS
  <2>3. /\ \A d \in Device : acks'[d] = acks[d] \/ (d = x /\ acks'[d] = position[d].cursor)
        /\ \A it \in items \ items' : \A d \in devices : acks'[d] >= it.n
        /\ UNCHANGED <<devices, processed, own>>
    BY <1>1, <2>1, <2>2, ReadFacts
  <2>4. ASSUME NEW it \in items, Sequenced(it), it.seq = seq, it \notin items', seq # 1
        PROVE  \A d \in devices : seq \in Taken(d)
    <3> SUFFICES ASSUME NEW d \in devices PROVE seq \in Taken(d)
      OBVIOUS
    <3>1. d \in Device /\ ReadsEverything(d) /\ PositionCovers(d)
          /\ position[d].cursor \in Nat /\ acks[d] \in Nat /\ it.n \in Nat
      BY DEF ReadersInv, DeliveryInv, DeliveryTypes, Position, StoredItem
    <3>2. acks[d] >= it.n \/ position[d].cursor >= it.n
      BY <2>3, <2>4, <3>1
    <3>3. seq \in Has(position[d])
      BY <2>4, <3>1, <3>2 DEF ReadsEverything
    <3>4. position[d].joined
      BY <3>1, <3>3 DEF PositionCovers, Has, NoPosition
    <3> QED BY <2>4, <3>1, <3>3, <3>4 DEF ReadsEverything
  <2>5. CASE \A it \in items : Sequenced(it) /\ it.seq = seq => it \in items'
    BY <1>2, <2>3, <2>5
  <2>6. CASE seq = 1
    BY <2>6 DEF Kept
  <2>7. CASE \A d \in devices : seq \in Taken(d)
    BY <2>3, <2>7 DEF Kept, Taken
  <2> QED BY <2>4, <2>5, <2>6, <2>7
<1> QED BY <1>1, <1>3, <1>4, <1>5, StoreKinds DEF DeliveryInv

\* Where the one move is.
LEMMA TheMove ==
  ASSUME DeliveryTypes, NEW m, NEW h \in HubName, MovedAt(m, h)
  PROVE  /\ \A k \in Moves : k = m
         /\ m \in Moves => log[m] = h /\ log[m - 1] = FirstHub /\ h # FirstHub
         /\ m <= Len(log) => m \in Moves
         /\ m \in Nat /\ m > 1 /\ m <= Len(log) + 1 /\ Len(log) \in Nat /\ Len(log) > 0
<1>1. m \in Nat /\ m > 1 /\ m <= Len(log) + 1 /\ Len(log) \in Nat /\ Len(log) > 0
  BY DEF MovedAt, DeliveryTypes
<1>2. DOMAIN log = Numbers
  BY DEF DeliveryTypes, Numbers
<1>3. ASSUME NEW k \in Moves PROVE k = m
  <2>1. k \in Numbers /\ k > 1 /\ log[k] # log[k - 1]
    BY <1>2 DEF Moves, IsMove
  <2>2. k - 1 \in Numbers
    BY <1>1, <2>1 DEF Numbers
  <2>3. k \in Nat /\ (k < m => k - 1 < m) /\ (~(k - 1 < m) => ~(k < m))
    BY <1>1, <2>1 DEF Numbers
  <2>4. ~(k < m) /\ k - 1 < m
    BY <1>1, <2>1, <2>2, <2>3 DEF MovedAt
  <2> QED BY <1>1, <2>3, <2>4
<1>4. ASSUME m <= Len(log) PROVE log[m] = h /\ log[m - 1] = FirstHub /\ h # FirstHub /\ m \in DOMAIN log
  <2>1. m \in Numbers /\ m - 1 \in Numbers /\ ~(m < m) /\ m - 1 < m
    BY <1>1, <1>4 DEF Numbers
  <2> QED BY <1>2, <1>4, <2>1 DEF MovedAt
<1>5. m <= Len(log) => m \in Moves
  BY <1>1, <1>4 DEF Moves, IsMove
<1>6. m \in Moves => m <= Len(log)
  BY <1>2 DEF Moves, Numbers
<1> QED BY <1>1, <1>3, <1>4, <1>5, <1>6

\* The only move is from g to h, and seq is from before it.
FromBefore(g, h, seq) ==
  \E m \in Moves : /\ seq <= m /\ m \in Nat /\ log[m] = h /\ log[m - 1] = g /\ g # h
                   /\ g = FirstHub /\ \A k \in Moves : k = m

\* A hub's queue holds what was ordered while the group was there, so what comes
\* before the head of one queue in another is from before the move.
LEMMA FromBeforeMove ==
  ASSUME DeliveryTypes, Whereabouts,
         NEW h \in HubName, NEW last, backlog[h] # <<>>, last = Head(backlog[h]),
         NEW g \in HubName, NEW seq, seq \in Range(backlog[g]), seq < last
  PROVE  FromBefore(g, h, seq)
<1>1. PICK m \in 2 .. (Len(log) + 1), x \in HubName : MovedAt(m, x)
  BY DEF Whereabouts
<1>2. /\ \A k \in Moves : k = m
      /\ m \in Moves => log[m] = x /\ log[m - 1] = FirstHub /\ x # FirstHub
      /\ m <= Len(log) => m \in Moves
      /\ m \in Nat /\ m > 1 /\ m <= Len(log) + 1 /\ Len(log) \in Nat
  BY <1>1, TheMove
<1>3. Queued(g) /\ Queued(h)
  BY DEF Whereabouts
<1>4. backlog[g] \in Seq(Numbers) /\ backlog[h] \in Seq(Numbers)
  BY DEF DeliveryTypes
<1>5. last = backlog[h][1] /\ 1 \in DOMAIN backlog[h] /\ last \in Numbers /\ last \in Range(backlog[h])
  <2>1. PICK q : q = backlog[h]
    OBVIOUS
  <2>2. Head(q) = q[1] /\ 1 \in DOMAIN q /\ q[1] \in Numbers
    BY <1>4, <2>1, TailFacts
  <2> QED BY <2>1, <2>2 DEF Range
<1>6. seq \in Numbers /\ seq > 1 /\ log[seq - 1] = g /\ last > 1 /\ log[last - 1] = h
  <2>1. seq \in Numbers
    BY <1>4 DEF Range
  <2> QED BY <1>3, <1>5, <2>1 DEF Queued
<1>7. g # h
  <2>1. PICK i \in DOMAIN backlog[g] : backlog[g][i] = seq
    BY DEF Range
  <2>2. i \in Nat /\ i >= 1 /\ seq \in Int /\ last \in Int
    <3>1. PICK q : q = backlog[g]
      OBVIOUS
    <3>2. DOMAIN q \subseteq Nat \ {0}
      BY <1>4, <3>1
    <3> QED BY <1>2, <1>5, <1>6, <3>1, <3>2 DEF Numbers
  <2>3. i # 1 => (g = h => last < seq)
    BY <1>3, <1>5, <2>1, <2>2 DEF Queued
  <2>4. i = 1 => (g = h => last = seq)
    BY <1>5, <2>1
  <2> QED BY <2>2, <2>3, <2>4
<1>8. seq - 1 \in Numbers /\ last - 1 \in Numbers /\ seq \in Nat /\ last \in Nat /\ last <= Len(log)
  BY <1>2, <1>5, <1>6 DEF Numbers
<1>9. seq - 1 < m /\ ~(last - 1 < m)
  <2>1. seq - 1 < last - 1
    BY <1>8
  <2>2. last - 1 < m => seq - 1 < m
    BY <1>2, <1>8, <2>1
  <2> QED BY <1>1, <1>6, <1>7, <1>8, <2>2 DEF MovedAt
<1>10. g = FirstHub /\ h = x
  BY <1>1, <1>6, <1>8, <1>9 DEF MovedAt
<1>11. seq <= m /\ m <= Len(log)
  BY <1>2, <1>8, <1>9
<1> QED BY <1>2, <1>7, <1>10, <1>11 DEF FromBefore

\* What a hub deposits leaves nothing behind that is neither stored nor late.
LEMMA DepositPasses ==
  ASSUME DeliveryTypes, RegistersOne, Whereabouts,
         NEW h \in HubName, NEW seq \in Nat, seq # 0 => backlog[h] # <<>> /\ seq = Head(backlog[h]),
         NEW t, t = Current', DepositMakes(Current, h, seq, t),
         UNCHANGED log,
         \A s : Kept(s) => Kept(s)', seq # 0 => Kept(seq)',
         seq <= Len(log)
  PROVE  /\ KnowsMove' /\ GivenUp'
         /\ \A g \in HubName : \A s \in Range(backlog[g]) : s <= t.high => Kept(s)' \/ Late(t, g, s)
<1>1. PICK r : r = Current
  OBVIOUS
<1>2. /\ r \in RegistrationRecord /\ t \in RegistrationRecord
      /\ r.high \in Nat /\ t.high \in Nat /\ r.prev.through \in Nat
      /\ r.prev.released \in Nat \cup {Waiting} /\ t.prev.released \in Nat \cup {Waiting}
      /\ SameMove(r, t) /\ Admits(r, h, seq)
  BY <1>1 DEF RegistersOne, RegistrationRecord, Previous, DepositMakes, Current
<1>3. /\ IF Late(r, h, seq) \/ seq = 0 THEN t.high = r.high ELSE t.high = seq /\ seq > r.high
      /\ IF r.hub = h /\ Awaited(r) THEN t.prev.released = r.high /\ t.prev.late = {}
         ELSE /\ t.prev.released = r.prev.released
              /\ t.prev.late = IF Late(r, h, seq) THEN r.prev.late \cup {seq} ELSE r.prev.late
  BY <1>1 DEF DepositMakes
<1>4. Late(r, h, seq) => seq # 0
  BY <1>2 DEF Late, Waiting
<1>5. /\ \/ r.hub = FirstHub /\ r.prev.through = 0 /\ r.prev.released = Waiting
         \/ \E m \in Moves : r.hub = log[m] /\ r.prev.hub = log[m - 1] /\ r.prev.through = m
      /\ r.high <= Len(log) /\ Len(log) \in Nat
      /\ r.prev.released # Waiting => r.prev.released <= r.high
      /\ \A s \in r.prev.late : Kept(s)
      /\ \A g \in HubName : \A s \in Range(backlog[g]) : s <= r.high => Kept(s) \/ Late(r, g, s)
  BY <1>1 DEF Whereabouts, KnowsMove, GivenUp, Passed, DeliveryTypes
<1>6. KnowsMove'
  <2>1. Moves' = Moves /\ log' = log
    BY DEF Moves, IsMove
  <2>2. t.hub = r.hub /\ t.prev.hub = r.prev.hub /\ t.prev.through = r.prev.through
    BY <1>2 DEF SameMove
  <2>3. ASSUME r.prev.through = 0, r.prev.released = Waiting PROVE t.prev.released = Waiting
    BY <1>2, <1>3, <2>3 DEF Awaited
  <2>4. \/ t.hub = FirstHub /\ t.prev.through = 0 /\ t.prev.released = Waiting
        \/ \E m \in Moves : t.hub = log[m] /\ t.prev.hub = log[m - 1] /\ t.prev.through = m
    BY <1>5, <2>2, <2>3
  <2> QED BY <2>1, <2>4 DEF KnowsMove
<1>7. r.high <= t.high
  BY <1>2, <1>3
<1>8. GivenUp'
  <2>1. t.high <= Len(log')
    BY <1>3, <1>5
  <2>2. t.prev.released # Waiting => t.prev.released <= t.high
    <3>1. t.prev.released = r.high \/ t.prev.released = r.prev.released
      BY <1>3
    <3> QED BY <1>2, <1>5, <1>7, <3>1
  <2>3. \A s \in t.prev.late : Kept(s)'
    BY <1>3, <1>4, <1>5
  <2> QED BY <2>1, <2>2, <2>3 DEF GivenUp
<1>9. ASSUME NEW g \in HubName, NEW s \in Range(backlog[g]), s <= t.high, ~Kept(s)'
      PROVE  Late(t, g, s)
  <2>1. ~Kept(s) /\ (seq # 0 => s # seq) /\ s \in Nat /\ s > 1
    <3>1. s \in Numbers
      BY DEF DeliveryTypes, Range
    <3>2. s > 1
      BY DEF Whereabouts, Queued
    <3> QED BY <1>9, <3>1, <3>2 DEF Numbers
  <2>2. CASE s <= r.high
    <3>1. Late(r, g, s)
      BY <1>5, <2>1, <2>2
    <3>2. ~Awaited(r)
      BY <3>1 DEF Late, Awaited
    <3>3. s \notin t.prev.late /\ t.prev.released = r.prev.released
      BY <1>3, <1>4, <2>1, <3>1, <3>2 DEF Late
    <3> QED BY <1>2, <3>1, <3>3 DEF Late, FromPrevious, SameMove
  <2>3. CASE ~(s <= r.high)
    <3>1. ~Late(r, h, seq) /\ seq # 0 /\ t.high = seq /\ seq > r.high /\ s < seq
      BY <1>2, <1>3, <1>9, <2>1, <2>3
    <3>2. PICK m \in Moves : /\ s <= m /\ m \in Nat /\ log[m] = h /\ log[m - 1] = g /\ g # h
                             /\ g = FirstHub /\ \A k \in Moves : k = m
      <4>1. backlog[h] # <<>> /\ seq = Head(backlog[h]) /\ s < seq
        BY <3>1
      <4>2. FromBefore(g, h, s)
        BY <4>1, FromBeforeMove
      <4> QED BY <4>2 DEF FromBefore
    <3>3. ~FromPrevious(r, h) \/ r.prev.through = 0
      BY <1>5, <3>2 DEF FromPrevious
    <3>4. r.hub = h /\ r.prev.hub = g /\ r.prev.through = m
      <4>1. r.hub = h
        BY <1>2, <3>1, <3>3 DEF Admits
      <4> QED BY <1>5, <3>2, <4>1
    <3>5. FromPrevious(t, g)
      BY <1>2, <3>2, <3>4 DEF FromPrevious, SameMove
    <3>6. CASE Awaited(r)
      <4>1. t.prev.released = r.high /\ t.prev.late = {}
        BY <1>3, <3>4, <3>6
      <4> QED BY <1>2, <2>1, <2>3, <3>5, <4>1 DEF Late, Waiting
    <3>7. CASE ~Awaited(r)
      <4>1. r.prev.released # Waiting
        BY <1>2, <2>1, <2>3, <3>2, <3>4, <3>7 DEF Awaited
      <4>2. t.prev.released = r.prev.released /\ t.prev.late = r.prev.late
        BY <1>3, <3>1, <3>7
      <4>3. s > r.prev.released
        BY <1>2, <1>5, <2>1, <2>3, <4>1
      <4>4. s \notin r.prev.late
        BY <1>5, <2>1
      <4> QED BY <3>5, <4>1, <4>2, <4>3, <4>4 DEF Late
    <3> QED BY <3>6, <3>7
  <2> QED BY <2>2, <2>3
<1> QED BY <1>6, <1>8, <1>9

\* The queues stay as they are, or the head of one of them goes.
QueuesShrink(h) ==
  \/ backlog' = backlog
  \/ /\ backlog[h] # <<>> /\ backlog' = [backlog EXCEPT ![h] = Tail(@)]
     /\ \E first \in {Head(backlog[h])} : Kept(first)'

LEMMA QueuesInOrder ==
  ASSUME DeliveryTypes, Whereabouts, UNCHANGED log, NEW h \in HubName, QueuesShrink(h), NEW g \in HubName
  PROVE  /\ Queued(g)' /\ Range(backlog'[g]) \subseteq Range(backlog[g])
         /\ \A seq \in Range(backlog[g]) : seq \in Range(backlog'[g]) \/ Kept(seq)'
<1>1. Queued(g) /\ backlog \in [HubName -> Seq(Numbers)]
  BY DEF Whereabouts, DeliveryTypes
<1>2. CASE backlog'[g] = backlog[g]
  BY <1>1, <1>2 DEF Queued
<1>3. CASE backlog'[g] # backlog[g]
  <2>1. /\ g = h /\ backlog[g] # <<>> /\ backlog'[g] = Tail(backlog[g])
        /\ \E first \in {Head(backlog[g])} : Kept(first)'
    BY <1>1, <1>3 DEF QueuesShrink
  <2>2. PICK q, w : q = backlog[g] /\ w = backlog'[g]
    OBVIOUS
  <2>3. q \in Seq(Numbers) /\ q # <<>> /\ w = Tail(q)
    BY <1>1, <2>1, <2>2
  <2>4. /\ Head(q) = q[1]
        /\ \A i \in DOMAIN w : i + 1 \in DOMAIN q /\ w[i] = q[i + 1]
    BY <2>3, TailFacts
  <2>5. \A i \in DOMAIN q : i = 1 \/ (i - 1 \in DOMAIN w /\ w[i - 1] = q[i])
    BY <2>3
  <2>6. DOMAIN w \subseteq Nat
    BY <2>3
  <2>7. Range(w) \subseteq Range(q) /\ \A seq \in Range(q) : seq = Head(q) \/ seq \in Range(w)
    BY <2>4, <2>5 DEF Range
  <2>8. \A j, k \in DOMAIN w : j < k => w[j] < w[k]
    <3> SUFFICES ASSUME NEW j \in DOMAIN w, NEW k \in DOMAIN w, j < k PROVE w[j] < w[k]
      OBVIOUS
    <3>1. j + 1 < k + 1
      BY <2>6
    <3> QED BY <1>1, <2>2, <2>4, <3>1 DEF Queued
  <2>9. \A seq \in Range(w) : seq > 1 /\ log[seq - 1] = g
    BY <1>1, <2>2, <2>7 DEF Queued
  <2>10. Queued(g)'
    BY <2>2, <2>8, <2>9 DEF Queued
  <2> QED BY <2>1, <2>2, <2>7, <2>10
<1> QED BY <1>2, <1>3

\* Where nothing is ordered, the invariant is about the registration only.
LEMMA WhereStays ==
  ASSUME DeliveryTypes, Whereabouts, UNCHANGED log, \A s : Kept(s) => Kept(s)',
         NEW h \in HubName, QueuesShrink(h), KnowsMove', GivenUp',
         \A g \in HubName : \A s \in Range(backlog[g]) : s <= Current'.high => Kept(s)' \/ Late(Current', g, s)
  PROVE  Whereabouts'
<1>1. ASSUME NEW g \in HubName
      PROVE  /\ Queued(g)' /\ Range(backlog'[g]) \subseteq Range(backlog[g])
             /\ \A seq \in Range(backlog[g]) : seq \in Range(backlog'[g]) \/ Kept(seq)'
  BY QueuesInOrder
<1>2. \E m \in 2 .. (Len(log') + 1), x \in HubName : MovedAt(m, x)'
  <2>1. PICK m \in 2 .. (Len(log) + 1), x \in HubName : MovedAt(m, x)
    BY DEF Whereabouts
  <2>2. MovedAt(m, x)'
    BY <2>1 DEF MovedAt, Numbers
  <2> QED BY <2>2
<1>3. Passed'
  <2> SUFFICES ASSUME NEW g \in HubName, NEW s \in Range(backlog'[g]), s <= Current'.high
               PROVE  Kept(s)' \/ Late(Current, g, s)'
    BY DEF Passed
  <2>1. Kept(s)' \/ Late(Current', g, s)
    BY <1>1
  <2> QED BY <2>1 DEF Late, FromPrevious
<1>4. Somewhere'
  <2> SUFFICES ASSUME NEW seq \in 2 .. Len(log'), ~Kept(seq)'
               PROVE  \E g \in HubName : seq \in Range(backlog'[g])
    BY DEF Somewhere
  <2>1. PICK g \in HubName : seq \in Range(backlog[g])
    BY DEF Whereabouts, Somewhere
  <2> QED BY <1>1, <2>1
<1> QED BY <1>1, <1>2, <1>3, <1>4 DEF Whereabouts

LEMMA SafeDeposits ==
  ASSUME SafeInv, DeliveryInv', [DeliveryNext]_deliveryVars, NEW h \in HubName, NEW class, NEW seq,
         Deposits(h, class, seq),
         \/ seq = 0 /\ backlog' = backlog
         \/ /\ class \in {"handshake", "application"} /\ backlog[h] # <<>> /\ seq = Head(backlog[h])
            /\ backlog' = backlog \/ backlog' = [backlog EXCEPT ![h] = Tail(@)]
  PROVE  Whereabouts'
<1>1. DeliveryTypes /\ RegistersOne /\ Whereabouts /\ ReadersInv /\ CursorsApart
  BY DEF SafeInv, ReadersInv, DeliveryInv
<1>2. class \in ItemClass /\ seq \in Nat /\ Stores(class, seq, {}) /\ UNCHANGED log /\ seq <= Len(log)
  <2>1. class \in ItemClass /\ seq \in Nat /\ Stores(class, seq, {}) /\ UNCHANGED log
    BY DEF Deposits, HubDeposit, Stores, Numbers, ItemClass
  <2>2. seq \in Numbers \/ seq = 0
    BY DEF Deposits
  <2>3. Len(log) \in Nat
    BY <1>1 DEF DeliveryTypes
  <2> QED BY <2>1, <2>2, <2>3 DEF Numbers
<1>3. PICK t : t = Current'
  OBVIOUS
<1>4. DepositMakes(Current, h, seq, t)
  BY <1>1, <1>2, <1>3, DepositFacts DEF Deposits, Current
<1>5. \A s : Kept(s) => Kept(s)'
  BY <1>1, KeptStays
<1>6. seq # 0 => Kept(seq)'
  <2>1. PICK new : new = Item(counter + 1, class, TheGroup, seq)
    OBVIOUS
  <2>2. new \in items' /\ new.class = class /\ new.seq = seq
    <3>1. {} \in SUBSET Device
      OBVIOUS
    <3> QED BY <1>1, <1>2, <2>1, <3>1, StoreFacts
  <2> QED BY <2>2 DEF Kept, Sequenced
<1>7. seq # 0 => backlog[h] # <<>> /\ seq = Head(backlog[h])
  OBVIOUS
<1>8. /\ KnowsMove' /\ GivenUp'
      /\ \A g \in HubName : \A s \in Range(backlog[g]) : s <= t.high => Kept(s)' \/ Late(t, g, s)
  BY <1>1, <1>2, <1>3, <1>4, <1>5, <1>6, <1>7, DepositPasses
<1>9. QueuesShrink(h)
  <2>1. CASE seq = 0 /\ backlog' = backlog
    BY <2>1 DEF QueuesShrink
  <2>2. CASE backlog[h] # <<>> /\ seq = Head(backlog[h]) /\ backlog' = [backlog EXCEPT ![h] = Tail(@)] /\ seq # 0
    <3>1. \E first \in {Head(backlog[h])} : Kept(first)'
      BY <1>6, <2>2
    <3> QED BY <2>2, <3>1 DEF QueuesShrink
  <2>3. class \in {"handshake", "application"} => seq # 0
    <3>1. class \in {"handshake", "application"} => seq \in Numbers
      BY DEF Deposits
    <3> QED BY <3>1 DEF Numbers
  <2> QED BY <2>1, <2>2, <2>3 DEF QueuesShrink
<1> QED BY <1>1, <1>2, <1>3, <1>5, <1>8, <1>9, WhereStays

\* A registration that has not moved knows what it knew.
LEMMA KnowledgeStays ==
  ASSUME DeliveryTypes, RegistersOne, Whereabouts, UNCHANGED <<log, backlog>>, \A s : Kept(s) => Kept(s)',
         NEW r, r = Current, NEW t, t = Current', SameMove(r, t), t.high = r.high,
         \/ t.prev.released = r.prev.released /\ t.prev.late = r.prev.late
         \/ Awaited(r) /\ t.prev.released = r.high /\ t.prev.late = {}
  PROVE  Whereabouts'
<1>1. r.high \in Nat /\ r.prev.through \in Nat /\ Waiting \notin Nat
  BY DEF RegistersOne, RegistrationRecord, Previous, Current, Waiting
<1>2. /\ \/ r.hub = FirstHub /\ r.prev.through = 0 /\ r.prev.released = Waiting
         \/ \E m \in Moves : r.hub = log[m] /\ r.prev.hub = log[m - 1] /\ r.prev.through = m
      /\ r.high <= Len(log)
      /\ r.prev.released # Waiting => r.prev.released <= r.high
      /\ \A s \in r.prev.late : Kept(s)
      /\ \A g \in HubName : \A s \in Range(backlog[g]) : s <= r.high => Kept(s) \/ Late(r, g, s)
  BY DEF Whereabouts, KnowsMove, GivenUp, Passed
<1>3. t.hub = r.hub /\ t.prev.hub = r.prev.hub /\ t.prev.through = r.prev.through
  BY DEF SameMove
<1>4. Awaited(r) => r.prev.through # 0 /\ r.prev.released = Waiting
  BY <1>1 DEF Awaited
<1>5. KnowsMove'
  <2>1. \/ t.hub = FirstHub /\ t.prev.through = 0 /\ t.prev.released = Waiting
        \/ \E m \in Moves : t.hub = log[m] /\ t.prev.hub = log[m - 1] /\ t.prev.through = m
    BY <1>2, <1>3, <1>4
  <2> QED BY <2>1 DEF KnowsMove, Moves, IsMove
<1>6. GivenUp'
  BY <1>1, <1>2 DEF GivenUp
<1>7. ASSUME NEW g \in HubName, NEW s \in Range(backlog[g]), s <= t.high
      PROVE  Kept(s)' \/ Late(t, g, s)
  <2>1. Kept(s) \/ Late(r, g, s)
    BY <1>2, <1>7
  <2>2. Late(r, g, s) => Late(t, g, s)
    BY <1>3, <1>4 DEF Late, FromPrevious
  <2> QED BY <2>1, <2>2
<1>8. QueuesShrink(FirstHub)
  BY DEF QueuesShrink
<1> QED BY <1>5, <1>6, <1>7, <1>8, WhereStays, DeliveryAssumption

\* The registration t is of the hub that item k moved the group to.
MovedBy(r, t, k) ==
  /\ t.high = r.high /\ r.hub # log[k] /\ t.hub = log[k]
  /\ t.prev.hub = r.hub /\ t.prev.through = k /\ t.prev.released = Waiting /\ t.prev.late = {}

\* A move the mailbox had not heard of leaves the first hub.
LEMMA SafeMove ==
  ASSUME DeliveryTypes, RegistersOne, Whereabouts, UNCHANGED <<log, backlog>>, \A s : Kept(s) => Kept(s)',
         NEW r, r = Current, NEW t, t = Current', NEW k \in Moves, MovedBy(r, t, k)
  PROVE  Whereabouts'
<1>1. /\ t.prev.hub = r.hub /\ t.prev.through = k /\ t.prev.released = Waiting /\ t.prev.late = {}
      /\ t.high = r.high /\ r.hub # log[k] /\ t.hub = log[k]
  BY DEF MovedBy
<1>2. PICK m \in 2 .. (Len(log) + 1), h \in HubName : MovedAt(m, h)
  BY DEF Whereabouts
<1>3. \A x \in Moves : x = k /\ log[x - 1] = FirstHub
  BY <1>2, TheMove
<1>4. /\ \/ r.hub = FirstHub /\ r.prev.through = 0 /\ r.prev.released = Waiting
         \/ \E x \in Moves : r.hub = log[x] /\ r.prev.hub = log[x - 1] /\ r.prev.through = x
      /\ r.high <= Len(log)
      /\ \A g \in HubName : \A s \in Range(backlog[g]) : s <= r.high => Kept(s) \/ Late(r, g, s)
  BY DEF Whereabouts, KnowsMove, GivenUp, Passed
<1>5. r.hub = FirstHub /\ r.prev.released = Waiting
  BY <1>1, <1>3, <1>4
<1>6. KnowsMove'
  <2>1. \E x \in Moves : t.hub = log[x] /\ t.prev.hub = log[x - 1] /\ t.prev.through = x
    BY <1>1, <1>3, <1>5
  <2> QED BY <2>1 DEF KnowsMove, Moves, IsMove
<1>7. GivenUp'
  BY <1>1, <1>4 DEF GivenUp
<1>8. ASSUME NEW g \in HubName, NEW s \in Range(backlog[g]), s <= t.high
      PROVE  Kept(s)' \/ Late(t, g, s)
  BY <1>1, <1>4, <1>5, <1>8 DEF Late
<1>9. QueuesShrink(FirstHub)
  BY DEF QueuesShrink
<1> QED BY <1>6, <1>7, <1>8, <1>9, WhereStays, DeliveryAssumption

\* A hub's try that is acknowledged as a duplicate had been stored.
LEMMA SafeDuplicate ==
  ASSUME SafeInv, [DeliveryNext]_deliveryVars, NEW h \in HubName, DeliverDuplicate(h), UNCHANGED groups
  PROVE  Whereabouts'
<1>1. DeliveryTypes /\ RegistersOne /\ Whereabouts /\ ReadersInv
  BY DEF SafeInv, ReadersInv, DeliveryInv
<1>2. \A s : Kept(s) => Kept(s)'
  BY <1>1, KeptStays
<1>3. PICK first : first = Head(backlog[h])
  OBVIOUS
<1>4. /\ backlog[h] # <<>> /\ backlog' = [backlog EXCEPT ![h] = Tail(@)] /\ UNCHANGED log
      /\ Redelivered(Current, h, first)
  BY <1>3 DEF DeliverDuplicate, Duplicate, Current
<1>5. first \in Range(backlog[h])
  <2>1. PICK q : q = backlog[h]
    OBVIOUS
  <2>2. Head(q) = q[1] /\ 1 \in DOMAIN q
    BY <1>1, <1>4, <2>1, TailFacts DEF DeliveryTypes
  <2> QED BY <1>3, <2>1, <2>2 DEF Range
<1>6. Kept(first)'
  BY <1>1, <1>2, <1>4, <1>5 DEF Redelivered, Whereabouts, Passed
<1>7. QueuesShrink(h)
  BY <1>3, <1>4, <1>6 DEF QueuesShrink
<1>8. PICK r : r = Current /\ r = Current'
  BY DEF Current
<1>9. KnowsMove' /\ GivenUp'
  <2>1. KnowsMove /\ GivenUp
    BY <1>1 DEF Whereabouts
  <2>2. KnowsMove'
    BY <1>4, <1>8, <2>1 DEF KnowsMove, Moves, IsMove
  <2>3. GivenUp'
    BY <1>2, <1>4, <1>8, <2>1 DEF GivenUp
  <2> QED BY <2>2, <2>3
<1>10. \A g \in HubName : \A s \in Range(backlog[g]) : s <= r.high => Kept(s)' \/ Late(r, g, s)
  BY <1>1, <1>2, <1>8 DEF Whereabouts, Passed
<1> QED BY <1>1, <1>2, <1>4, <1>7, <1>8, <1>9, <1>10, WhereStays

\* The second move is never ordered.
LEMMA NoSecondMove ==
  ASSUME DeliveryTypes, MaxMoves \in 0 .. 1, NEW m \in Moves
  PROVE  ~(Cardinality(Moves) < MaxMoves)
<1>1. IsFiniteSet(Moves)
  <2>1. Moves \in SUBSET (1 .. Len(log)) /\ Len(log) \in Nat
    BY DEF Moves, DeliveryTypes
  <2>2. IsFiniteSet(1 .. Len(log))
    BY <2>1, FS_Interval
  <2> QED BY <2>1, <2>2, FS_Subset
<1>2. Cardinality(Moves) \in Nat /\ Cardinality(Moves) # 0
  BY <1>1, FS_CardinalityType, FS_EmptySet
<1> QED BY <1>2

LEMMA SafeOrder ==
  ASSUME SafeInv, MaxMoves \in 0 .. 1, [DeliveryNext]_deliveryVars, NEW h \in HubName, NEW sender \in SUBSET Device,
         OrderItem(h, sender)
  PROVE  Whereabouts'
<1>1. DeliveryTypes /\ RegistersOne /\ Whereabouts /\ ReadersInv
  BY DEF SafeInv, ReadersInv, DeliveryInv
<1>2. \A s : Kept(s) => Kept(s)'
  BY <1>1, KeptStays
<1>3. PICK last : last = Len(log)
  OBVIOUS
<1>4. PICK at : at = Host
  OBVIOUS
<1>5. /\ log \in Seq(HubName) /\ last \in Nat /\ last > 0 /\ at = log[last] /\ at \in HubName
      /\ backlog \in [HubName -> Seq(Numbers)] /\ Numbers = 1 .. last
  BY <1>1, <1>3, <1>4 DEF DeliveryTypes, Host, HubAfter, Numbers
<1>6. /\ log' = Append(log, h) /\ backlog' = [backlog EXCEPT ![at] = Append(@, last + 1)]
      /\ Current' = Current /\ (h # at => Cardinality(Moves) < MaxMoves)
  BY <1>3, <1>4 DEF OrderItem, mailboxVars, Current
<1>7. /\ Len(log') = last + 1 /\ Numbers' = 1 .. (last + 1)
      /\ \A k \in Numbers : log'[k] = log[k]
      /\ log'[last + 1] = h
  BY <1>3, <1>5, <1>6 DEF Numbers
<1>8. \E m \in 2 .. (Len(log') + 1), x \in HubName : MovedAt(m, x)'
  <2>1. PICK m \in 2 .. (Len(log) + 1), x \in HubName : MovedAt(m, x)
    BY <1>1 DEF Whereabouts
  <2>2. /\ m \in Nat /\ m > 1 /\ m <= last + 1 /\ \A k \in Numbers : log[k] = IF k < m THEN FirstHub ELSE x
        /\ (m <= last => x # FirstHub /\ m \in Moves)
    BY <1>1, <1>3, <2>1, TheMove DEF MovedAt
  <2>3. last \in Numbers /\ \A k \in Numbers' : k = last + 1 \/ (k \in Numbers /\ log'[k] = log[k])
    BY <1>5, <1>7
  <2>4. CASE m <= last
    <3>1. at = x
      <4>1. last \in Numbers /\ ~(last < m)
        BY <1>5, <2>2, <2>3, <2>4
      <4>2. log[last] = IF last < m THEN FirstHub ELSE x
        BY <2>2, <4>1
      <4>3. log[last] = x
        BY <4>1, <4>2
      <4> QED BY <1>5, <4>3
    <3>2. h = x
      <4>1. PICK k \in Moves : k = m
        BY <2>2, <2>4
      <4>2. ~(Cardinality(Moves) < MaxMoves)
        BY <1>1, <4>1, NoSecondMove
      <4> QED BY <1>6, <3>1, <4>2
    <3>3. ASSUME NEW k \in Numbers' PROVE log'[k] = IF k < m THEN FirstHub ELSE x
      <4>1. CASE k = last + 1
        <5>1. ~(k < m)
          BY <1>5, <2>2, <2>4, <4>1
        <5>2. log'[k] = h
          BY <1>7, <4>1, Zenon
        <5> QED BY <3>2, <5>1, <5>2
      <4>2. CASE k \in Numbers
        BY <1>7, <2>2, <4>2
      <4> QED BY <2>3, <4>1, <4>2
    <3>4. m \in 2 .. (Len(log') + 1)
      BY <1>5, <1>7, <2>2
    <3> QED BY <2>2, <2>4, <3>3, <3>4 DEF MovedAt
  <2>5. CASE m = last + 1 /\ h # FirstHub
    <3>1. \A k \in Numbers' : log'[k] = IF k < m THEN FirstHub ELSE h
      BY <1>5, <1>7, <2>2, <2>3, <2>5
    <3>2. m \in 2 .. (Len(log') + 1)
      BY <1>5, <1>7, <2>2
    <3> QED BY <2>5, <3>1, <3>2 DEF MovedAt
  <2>6. CASE m = last + 1 /\ h = FirstHub
    <3>1. PICK n : n = last + 2
      OBVIOUS
    <3>2. ASSUME NEW k \in Numbers' PROVE log'[k] = IF k < n THEN FirstHub ELSE h
      <4>1. CASE k = last + 1
        <5>1. log'[k] = h
          BY <1>7, <4>1, Zenon
        <5> QED BY <2>6, <5>1
      <4>2. CASE k \in Numbers
        <5>1. k < m
          BY <1>5, <2>6, <4>2
        <5> QED BY <1>7, <2>2, <2>6, <4>2, <5>1
      <4> QED BY <2>3, <4>1, <4>2
    <3>3. n \in 2 .. (Len(log') + 1) /\ ~(n <= Len(log'))
      BY <1>5, <1>7, <3>1
    <3> QED BY <3>2, <3>3 DEF MovedAt
  <2> QED BY <1>5, <2>2, <2>4, <2>5, <2>6
<1>9. ASSUME NEW g \in HubName
      PROVE  /\ Queued(g)' /\ Range(backlog[g]) \subseteq Range(backlog'[g])
             /\ \A seq \in Range(backlog'[g]) : seq \in Range(backlog[g]) \/ seq = last + 1
             /\ g = at => last + 1 \in Range(backlog'[g])
  <2>1. Queued(g) /\ backlog[g] \in Seq(Numbers)
    BY <1>1, <1>5 DEF Whereabouts
  <2>2. \A seq \in Range(backlog[g]) : seq \in 1 .. last /\ seq > 1 /\ log'[seq - 1] = g
    <3>1. ASSUME NEW seq \in Range(backlog[g]) PROVE seq \in 1 .. last
      BY <1>5, <2>1, <3>1 DEF Range
    <3>2. ASSUME NEW seq \in Range(backlog[g]) PROVE seq > 1 /\ seq - 1 \in 1 .. last /\ log[seq - 1] = g
      BY <1>5, <2>1, <3>1 DEF Queued
    <3> QED BY <1>5, <1>7, <3>1, <3>2
  <2>3. CASE g # at
    <3>1. backlog'[g] = backlog[g]
      BY <1>5, <1>6, <2>3
    <3> QED BY <2>1, <2>2, <2>3, <3>1 DEF Queued
  <2>4. CASE g = at
    <3>1. PICK q, w : q = backlog[g] /\ w = backlog'[g]
      OBVIOUS
    <3>2. q \in Seq(Nat) /\ w = Append(q, last + 1) /\ last + 1 \in Nat
      <4>1. w = Append(q, last + 1)
        BY <1>5, <1>6, <2>4, <3>1
      <4>2. q \in Seq(Nat)
        BY <1>5, <2>1, <3>1
      <4> QED BY <1>5, <4>1, <4>2
    <3>3. Range(w) = Range(q) \cup {last + 1}
      BY <3>2, RangeOfAppend
    <3>4. \A i \in DOMAIN w : w[i] = IF i \in DOMAIN q THEN q[i] ELSE last + 1
      BY <3>2, AppendFacts
    <3>5. ASSUME NEW j \in DOMAIN w, NEW k \in DOMAIN w, j < k PROVE w[j] < w[k]
      <4>1. j \in DOMAIN q
        BY <3>2, <3>5
      <4>2. q[j] < last + 1
        <5>1. q[j] \in 1 .. last
          BY <2>2, <3>1, <4>1 DEF Range
        <5> QED BY <1>5, <5>1
      <4>3. k \in DOMAIN q => q[j] < q[k]
        BY <2>1, <3>1, <3>5, <4>1 DEF Queued
      <4> QED BY <3>4, <4>1, <4>2, <4>3
    <3>6. \A seq \in Range(w) : seq > 1 /\ log'[seq - 1] = g
      <4>1. last + 1 > 1 /\ (last + 1) - 1 = last /\ last \in Numbers
        BY <1>5
      <4> QED BY <1>5, <1>7, <2>2, <2>4, <3>1, <3>3, <4>1
    <3> QED BY <2>4, <3>1, <3>3, <3>5, <3>6 DEF Queued
  <2> QED BY <2>3, <2>4
<1>10. KnowsMove' /\ GivenUp'
  <2>1. KnowsMove /\ GivenUp
    BY <1>1 DEF Whereabouts
  <2>2. ASSUME NEW m \in Moves PROVE m \in Moves' /\ log'[m] = log[m] /\ log'[m - 1] = log[m - 1]
    <3>1. m \in Numbers /\ m > 1 /\ log[m] # log[m - 1]
      BY <1>5 DEF Moves, IsMove, Numbers
    <3>2. m - 1 \in Numbers /\ m \in Numbers'
      BY <1>5, <1>7, <3>1
    <3>3. DOMAIN log' = Numbers'
      BY <1>5, <1>6 DEF Numbers
    <3> QED BY <1>7, <3>1, <3>2, <3>3 DEF Moves, IsMove
  <2>3. KnowsMove'
    BY <1>6, <2>1, <2>2 DEF KnowsMove
  <2>4. Current.high <= last + 1
    <3>1. Current.high \in Nat /\ Current.high <= last
      BY <1>1, <1>3, <2>1 DEF GivenUp, RegistersOne, RegistrationRecord, Current
    <3> QED BY <1>5, <3>1
  <2>5. GivenUp'
    BY <1>2, <1>6, <1>7, <2>1, <2>4 DEF GivenUp
  <2> QED BY <2>3, <2>5
<1>11. Passed'
  <2> SUFFICES ASSUME NEW g \in HubName, NEW s \in Range(backlog'[g]), s <= Current'.high
               PROVE  Kept(s)' \/ Late(Current, g, s)'
    BY DEF Passed
  <2>1. Current.high \in Nat /\ Current.high <= last
    BY <1>1, <1>3 DEF Whereabouts, GivenUp, RegistersOne, RegistrationRecord, Current
  <2>2. s \in Range(backlog[g])
    BY <1>5, <1>6, <1>9, <2>1
  <2>3. Kept(s) \/ Late(Current, g, s)
    BY <1>1, <1>6, <2>2 DEF Whereabouts, Passed
  <2> QED BY <1>2, <1>6, <2>3 DEF Late, FromPrevious
<1>12. Somewhere'
  <2> SUFFICES ASSUME NEW seq \in 2 .. Len(log'), ~Kept(seq)'
               PROVE  \E g \in HubName : seq \in Range(backlog'[g])
    BY DEF Somewhere
  <2>1. CASE seq = last + 1
    BY <1>5, <1>9, <2>1
  <2>2. CASE seq # last + 1
    <3>1. seq \in 2 .. Len(log)
      <4>1. Len(log') = last + 1 /\ last \in Nat /\ last = Len(log)
        BY <1>3, <1>5, <1>7
      <4>2. seq \in Nat /\ seq >= 2 /\ seq <= last + 1
        BY <4>1
      <4> QED BY <2>2, <4>1, <4>2
    <3>2. PICK g \in HubName : seq \in Range(backlog[g])
      BY <1>1, <1>2, <3>1 DEF Whereabouts, Somewhere
    <3> QED BY <1>9, <3>2
  <2> QED BY <2>1, <2>2
<1> QED BY <1>8, <1>9, <1>10, <1>11, <1>12 DEF Whereabouts

LEMMA SafeInitInv == DeliveryInit => SafeInv
<1> SUFFICES ASSUME DeliveryInit PROVE SafeInv
  OBVIOUS
<1>1. ReadersInv
  BY ReadersInitInv
<1>2. log = <<FirstHub>> /\ Len(log) = 1 /\ Numbers = {1} /\ log[1] = FirstHub
  BY DEF DeliveryInit, Numbers
<1>3. \E m \in 2 .. (Len(log) + 1), h \in HubName : MovedAt(m, h)
  <2>1. MovedAt(2, FirstHub)
    BY <1>2 DEF MovedAt
  <2> QED BY <1>2, <2>1, DeliveryAssumption
<1>4. ASSUME NEW h \in HubName PROVE backlog[h] = <<>> /\ Queued(h)
  BY DEF DeliveryInit, Queued, Range
<1>5. Current = Registration(FirstHub, "pending")
  BY DEF DeliveryInit, Current
<1>6. KnowsMove /\ GivenUp
  BY <1>2, <1>5 DEF KnowsMove, GivenUp, Registration, NoPrevious
<1>7. Passed
  BY <1>4 DEF Passed, Range
<1>8. Somewhere
  BY <1>2 DEF Somewhere
<1> QED BY <1>1, <1>3, <1>4, <1>6, <1>7, <1>8 DEF SafeInv, Whereabouts

LEMMA SafeStepInv ==
  ASSUME MaxCounter <= Limit, MaxMoves \in 0 .. 1, SafeInv, [DeliveryNext]_deliveryVars
  PROVE  SafeInv'
<1>1. /\ ReadersInv' /\ ReadersInv /\ DeliveryInv /\ DeliveryInv' /\ Whereabouts
      /\ DeliveryTypes /\ NumbersGivenOut /\ OnlyToBound /\ RegistersOne /\ NamesGivenOut
  BY ReadersStepInv DEF SafeInv, ReadersInv, DeliveryInv
<1>2. \A s : Kept(s) => Kept(s)'
  BY <1>1, KeptStays
<1>3. PICK r, t : r = Current /\ t = Current'
  OBVIOUS
<1>4. CASE \E h \in HubName, sender \in SUBSET Device : OrderItem(h, sender)
  BY <1>1, <1>4, SafeOrder DEF SafeInv
<1>5. CASE \E h \in HubName : Delivers(h)
  <2>1. PICK h \in HubName : Delivers(h)
    BY <1>5
  <2>2. PICK class, seq : class = ClassOf(Head(backlog[h])) /\ seq = Head(backlog[h])
    OBVIOUS
  <2>3. /\ Deposits(h, class, seq) /\ class \in {"handshake", "application"} /\ backlog[h] # <<>>
        /\ backlog' = backlog \/ backlog' = [backlog EXCEPT ![h] = Tail(@)]
    BY <2>1, <2>2 DEF Delivers, ClassOf
  <2>4. Whereabouts'
    BY <1>1, <2>2, <2>3, SafeDeposits
  <2> QED BY <1>1, <2>4 DEF SafeInv
<1>6. CASE Deposits(Host, "group-info", 0) /\ UNCHANGED backlog
  <2>1. Host \in HubName
    BY <1>1, DeliveryAssumption DEF Host, HubAfter, DeliveryTypes
  <2>2. Whereabouts'
    BY <1>1, <1>6, <2>1, SafeDeposits
  <2> QED BY <1>1, <2>2 DEF SafeInv
<1>7. CASE \E h \in HubName : DeliverDuplicate(h) /\ StoreStays /\ UNCHANGED <<groups, announced>>
  <2>1. Whereabouts'
    BY <1>7, SafeDuplicate
  <2> QED BY <1>1, <2>1 DEF SafeInv
<1>8. ASSUME HubsStay PROVE SafeInv'
  <2>1. r = t /\ UNCHANGED <<log, backlog>>
    BY <1>3, <1>8 DEF HubsStay, Current
  <2>2. SameMove(r, t)
    BY <2>1 DEF SameMove
  <2>3. Whereabouts'
    BY <1>1, <1>2, <1>3, <2>1, <2>2, KnowledgeStays
  <2> QED BY <1>1, <2>3 DEF SafeInv
<1>9. CASE /\ HubDepositNotStored(TheGroup, Host) \/ (\E d \in Device : NameHub(d)) \/ MailboxClock
           /\ StoreStays /\ UNCHANGED backlog
  <2>1. UNCHANGED <<log, backlog>> /\ t = groups'[TheGroup] /\ r = groups[TheGroup]
    BY <1>3, <1>9 DEF StoreStays, Current
  <2>2. /\ t.high = r.high
        /\ \/ SameMove(r, t) /\ t.prev.released = r.prev.released /\ t.prev.late = r.prev.late
           \/ SameMove(r, t) /\ Awaited(r) /\ t.prev.released = r.high /\ t.prev.late = {}
           \/ \E k \in Moves : /\ r.hub # log[k] /\ t.hub = log[k]
                               /\ t.prev = [NoPrevious EXCEPT !.hub = r.hub, !.through = k]
    BY <1>1, <1>9, <2>1, OtherRegistrations
  <2>3. CASE /\ SameMove(r, t)
             /\ \/ t.prev.released = r.prev.released /\ t.prev.late = r.prev.late
                \/ Awaited(r) /\ t.prev.released = r.high /\ t.prev.late = {}
    <3>1. Whereabouts'
      BY <1>1, <1>2, <1>3, <2>1, <2>2, <2>3, KnowledgeStays
    <3> QED BY <1>1, <3>1 DEF SafeInv
  <2>4. CASE \E k \in Moves : /\ r.hub # log[k] /\ t.hub = log[k]
                              /\ t.prev = [NoPrevious EXCEPT !.hub = r.hub, !.through = k]
    <3>1. PICK k \in Moves : /\ r.hub # log[k] /\ t.hub = log[k]
                             /\ t.prev = [NoPrevious EXCEPT !.hub = r.hub, !.through = k]
      BY <2>4
    <3>2. MovedBy(r, t, k)
      BY <2>2, <3>1 DEF MovedBy, NoPrevious
    <3>3. Whereabouts'
      BY <1>1, <1>2, <1>3, <2>1, <3>2, SafeMove
    <3> QED BY <1>1, <3>3 DEF SafeInv
  <2> QED BY <2>2, <2>3, <2>4
<1> QED BY <1>1, <1>4, <1>5, <1>6, <1>7, <1>8, <1>9, StepKinds

\* What a hub has ordered is in its queue, in the mailbox, or with every registered
\* device, at all times, although answers to hubs get lost, hubs move, mailboxes
\* restart and devices crash; the hypotheses are that the answer to a sync has room
\* for everything that is stored, and that the group moves once at most.
THEOREM EverythingIsSomewhere ==
  MaxCounter <= Limit /\ MaxMoves \in 0 .. 1 => (DeliverySpec => []NothingIsLost)
<1> SUFFICES ASSUME MaxCounter <= Limit, MaxMoves \in 0 .. 1 PROVE DeliverySpec => []NothingIsLost
  OBVIOUS
<1>1. DeliveryInit => SafeInv
  BY SafeInitInv
<1>2. SafeInv /\ [DeliveryNext]_deliveryVars => SafeInv'
  BY SafeStepInv
<1>3. SafeInv => NothingIsLost
  <2> SUFFICES ASSUME SafeInv PROVE NothingIsLost
    OBVIOUS
  <2>1. ASSUME NEW seq \in 2 .. Len(log) PROVE Kept(seq) \/ \E h \in HubName : seq \in Range(backlog[h])
    BY DEF SafeInv, Whereabouts, Somewhere
  <2>2. Len(log) \in Nat
    BY DEF SafeInv, ReadersInv, DeliveryInv, DeliveryTypes
  <2> QED BY <2>1, <2>2 DEF Kept, NothingIsLost
<1> QED BY <1>1, <1>2, <1>3, PTL DEF DeliverySpec
=============================================================================
