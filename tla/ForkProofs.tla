------------------------------ MODULE ForkProofs ------------------------------
(***************************************************************************)
(* Proofs about ForkedCall: a call to an identity with any number of       *)
(* devices, which come and go, behind a relay.                             *)
(*                                                                         *)
(* The argument is about one session at a time, and of it about the caller *)
(* and one leg.  What is on a connection or held by the relay counts as    *)
(* the set of its messages; their order matters for the invite only.       *)
(***************************************************************************)
EXTENDS ForkedCall, EndpointProofs, RelayProofs

-----------------------------------------------------------------------------
(* What is in transit.                                                     *)

In(s) == {s[n] : n \in DOMAIN s}

\* Nobody acts on an error but a caller, on the relay's that nobody responds.
Noise(m) == m.type = "error" /\ m.tag # "transport.no-response"

\* The messages of session i in s.
Of(s, i) == {m \in In(s) : m.sid = i /\ ~Noise(m)}

Some(T, type) == \E m \in T : m.type = type

InviteAt(s, n, i) == s[n].type = "invite" /\ s[n].sid = i
\* s has at most one invite of session i; one comes before all else of it.
Sole(s, i) == \A n, l \in DOMAIN s : InviteAt(s, n, i) /\ InviteAt(s, l, i) => n = l
Leads(s, i) ==
  \A n, l \in DOMAIN s : InviteAt(s, n, i) /\ s[l].sid = i /\ ~Noise(s[l]) => n <= l

\* Out of T, which is left as R, m is taken; into it x is put.
Takes(T, R, m) == IF Noise(m) THEN R = T ELSE m \in T /\ R \subseteq T /\ T \subseteq R \cup {m}
Puts(T, R, x) == R = IF Noise(x) THEN T ELSE T \cup {x}

\* r is s without m, the oldest message of it.
Popped(s, m, r) ==
  /\ m \in In(s) /\ m \in Message
  /\ r \in Seq(Message) /\ In(r) \subseteq In(s) /\ In(s) \subseteq In(r) \cup {m}
  /\ \A i \in Sid : /\ Sole(s, i) => Sole(r, i)
                    /\ Leads(s, i) => Leads(r, i)
                    /\ IF m.sid = i THEN Takes(Of(s, i), Of(r, i), m) ELSE Of(r, i) = Of(s, i)
  /\ m.type = "invite" /\ Sole(s, m.sid) => ~Some(Of(r, m.sid), "invite")
  /\ m.type = "invite" /\ Leads(s, m.sid) => ~Some(Of(r, m.sid), "invite")
  /\ m.type # "invite" /\ ~Noise(m) /\ Leads(s, m.sid) => ~Some(Of(s, m.sid), "invite")

\* r is s with the messages w behind it; with one message m.
Joined(s, w, r) ==
  /\ r \in Seq(Message) /\ In(r) = In(s) \cup In(w)
  /\ \A i \in Sid :
       /\ Of(r, i) = Of(s, i) \cup Of(w, i)
       /\ Sole(s, i) /\ ~Some(Of(w, i), "invite") => Sole(r, i)
       /\ Sole(w, i) /\ ~Some(Of(s, i), "invite") => Sole(r, i)
       /\ Leads(s, i) /\ ~Some(Of(w, i), "invite") => Leads(r, i)
Pushed(s, m, r) ==
  /\ r \in Seq(Message) /\ In(r) = In(s) \cup {m}
  /\ \A i \in Sid :
       /\ Sole(s, i) /\ (InviteAt(<<m>>, 1, i) => ~Some(Of(s, i), "invite")) => Sole(r, i)
       /\ Leads(s, i) /\ (InviteAt(<<m>>, 1, i) => Of(s, i) = {}) => Leads(r, i)
       /\ IF m.sid = i THEN Puts(Of(s, i), Of(r, i), m) ELSE Of(r, i) = Of(s, i)

\* The oldest message is taken.
LEMMA TailQueue ==
  ASSUME NEW s \in Seq(Message), s # <<>>, NEW m, m = Head(s), NEW r, r = Tail(s)
  PROVE  Popped(s, m, r)
<1>1. /\ m \in Message /\ m = s[1] /\ r \in Seq(Message)
      /\ DOMAIN s = 1 .. Len(s) /\ Len(s) \in Nat \ {0}
      /\ DOMAIN r = 1 .. Len(s) - 1
      /\ \A n \in 1 .. Len(s) - 1 : r[n] = s[n + 1]
  BY HeadTailProperties, EmptySeq, LenProperties
<1>2. \A n \in DOMAIN r : n \in Int /\ n + 1 \in DOMAIN s /\ n + 1 > 1 /\ r[n] = s[n + 1]
  BY <1>1
<1>3. 1 \in DOMAIN s /\ m = s[1]
  BY <1>1
<1>4. \A n \in DOMAIN s : n = 1 \/ (n > 1 /\ n - 1 \in DOMAIN r /\ s[n] = r[n - 1])
  BY <1>1
<1>5. In(s) \subseteq In(r) \cup {m} /\ m \in In(s)
  BY <1>3, <1>4 DEF In
<1>6. In(r) \subseteq In(s)
  BY <1>2 DEF In
<1>7. ASSUME NEW i \in Sid PROVE (Sole(s, i) => Sole(r, i)) /\ (Leads(s, i) => Leads(r, i))
  <2>1. ASSUME Sole(s, i) PROVE Sole(r, i)
    <3> SUFFICES ASSUME NEW n \in DOMAIN r, NEW l \in DOMAIN r, InviteAt(r, n, i), InviteAt(r, l, i)
                 PROVE  n = l
      BY DEF Sole
    <3>1. n + 1 = l + 1
      BY <1>2, <2>1 DEF Sole, InviteAt
    <3> QED BY <1>2, <3>1
  <2>2. ASSUME Leads(s, i) PROVE Leads(r, i)
    <3> SUFFICES ASSUME NEW n \in DOMAIN r, NEW l \in DOMAIN r, InviteAt(r, n, i),
                        r[l].sid = i, ~Noise(r[l])
                 PROVE  n <= l
      BY DEF Leads
    <3>1. n + 1 <= l + 1
      BY <1>2, <2>2 DEF Leads, InviteAt
    <3> QED BY <1>2, <3>1
  <2> QED BY <2>1, <2>2
<1>8. ASSUME m.type = "invite", Some(Of(r, m.sid), "invite")
      PROVE  ~Sole(s, m.sid) /\ ~Leads(s, m.sid)
  <2>1. PICK n \in DOMAIN r : r[n].type = "invite" /\ r[n].sid = m.sid
    BY <1>8 DEF Some, Of, In
  <2>2. n + 1 \in DOMAIN s /\ n + 1 > 1 /\ InviteAt(s, n + 1, m.sid) /\ InviteAt(s, 1, m.sid)
    BY <1>2, <1>3, <1>8, <2>1 DEF InviteAt
  <2>3. ~Noise(s[1]) /\ s[1].sid = m.sid /\ n + 1 # 1 /\ ~(n + 1 <= 1)
    BY <1>2, <1>3, <1>8, <2>1 DEF Noise
  <2> QED BY <1>3, <2>2, <2>3 DEF Sole, Leads
<1>9. ASSUME m.type # "invite", ~Noise(m), Leads(s, m.sid), Some(Of(s, m.sid), "invite")
      PROVE  FALSE
  <2>1. PICK n \in DOMAIN s : s[n].type = "invite" /\ s[n].sid = m.sid
    BY <1>9 DEF Some, Of, In
  <2>2. n # 1 /\ n <= 1
    BY <1>3, <1>9, <2>1 DEF Leads, InviteAt
  <2> QED BY <1>1, <2>2
<1>10. ASSUME NEW i \in Sid
       PROVE  IF m.sid = i THEN Takes(Of(s, i), Of(r, i), m) ELSE Of(r, i) = Of(s, i)
  BY <1>5, <1>6 DEF Of, Takes
<1> QED BY <1>1, <1>5, <1>6, <1>7, <1>8, <1>9, <1>10 DEF Popped

\* Messages w are added to s.
LEMMA ConcatQueue ==
  ASSUME NEW s \in Seq(Message), NEW w \in Seq(Message), NEW r, r = s \o w
  PROVE  Joined(s, w, r)
<1>1. /\ r \in Seq(Message)
      /\ DOMAIN s = 1 .. Len(s) /\ Len(s) \in Nat
      /\ DOMAIN w = 1 .. Len(w) /\ Len(w) \in Nat
      /\ DOMAIN r = 1 .. Len(s) + Len(w)
      /\ \A l \in 1 .. Len(s) : r[l] = s[l]
      /\ \A n \in 1 .. Len(w) : r[Len(s) + n] = w[n]
  BY ConcatProperties, LenProperties
<1>2. PICK c \in Nat : c = Len(s)
  BY <1>1
<1>3. /\ \A l \in DOMAIN s : l \in DOMAIN r /\ r[l] = s[l] /\ l \in Int /\ l <= c
      /\ \A l \in DOMAIN r :
           \/ l \in DOMAIN s /\ r[l] = s[l] /\ l \in Int /\ l <= c
           \/ l - c \in DOMAIN w /\ r[l] = w[l - c] /\ l \in Int /\ c < l
      /\ \A n \in DOMAIN w : c + n \in DOMAIN r /\ r[c + n] = w[n]
  <2>1. ASSUME NEW l \in DOMAIN r, l \notin DOMAIN s
        PROVE  l - c \in DOMAIN w /\ r[l] = w[l - c] /\ l \in Int /\ c < l
    <3>1. l \in Int /\ c < l /\ l - c \in 1 .. Len(w)
      BY <1>1, <1>2, <2>1
    <3>2. r[c + (l - c)] = w[l - c]
      BY <1>1, <1>2, <3>1
    <3>3. c + (l - c) = l
      BY <3>1
    <3> QED BY <1>1, <3>1, <3>2, <3>3
  <2>2. \A l \in DOMAIN s : l \in DOMAIN r /\ r[l] = s[l] /\ l \in Int /\ l <= c
    BY <1>1, <1>2
  <2>3. \A n \in DOMAIN w : c + n \in DOMAIN r /\ r[c + n] = w[n]
    BY <1>1, <1>2
  <2> QED BY <2>1, <2>2, <2>3
<1>4. In(r) = In(s) \cup In(w)
  <2>1. In(r) \subseteq In(s) \cup In(w)
    BY <1>3 DEF In
  <2>2. \A l \in DOMAIN s : s[l] \in In(r)
    BY <1>3 DEF In
  <2>3. \A n \in DOMAIN w : w[n] \in In(r)
    BY <1>3 DEF In
  <2> QED BY <2>1, <2>2, <2>3 DEF In
<1>5. ASSUME NEW i \in Sid, NEW e \in Seq(Message), ~Some(Of(e, i), "invite"),
             NEW n \in DOMAIN e, InviteAt(e, n, i)
      PROVE  FALSE
  BY <1>5 DEF Some, Of, In, InviteAt, Noise
<1>6. ASSUME NEW i \in Sid, Sole(s, i), ~Some(Of(w, i), "invite") PROVE Sole(r, i)
  BY <1>3, <1>5, <1>6 DEF Sole, InviteAt
<1>7. ASSUME NEW i \in Sid, Sole(w, i), ~Some(Of(s, i), "invite") PROVE Sole(r, i)
  <2> SUFFICES ASSUME NEW n \in DOMAIN r, NEW l \in DOMAIN r, InviteAt(r, n, i), InviteAt(r, l, i)
               PROVE  n = l
    BY DEF Sole
  <2>1. /\ n - c \in DOMAIN w /\ InviteAt(w, n - c, i) /\ n \in Int
        /\ l - c \in DOMAIN w /\ InviteAt(w, l - c, i) /\ l \in Int
    BY <1>3, <1>5, <1>7 DEF InviteAt
  <2>2. n - c = l - c
    BY <1>7, <2>1 DEF Sole
  <2> QED BY <2>1, <2>2
<1>8. ASSUME NEW i \in Sid, Leads(s, i), ~Some(Of(w, i), "invite") PROVE Leads(r, i)
  <2> SUFFICES ASSUME NEW n \in DOMAIN r, NEW l \in DOMAIN r, InviteAt(r, n, i),
                      r[l].sid = i, ~Noise(r[l])
               PROVE  n <= l
    BY DEF Leads
  <2>1. n \in DOMAIN s /\ InviteAt(s, n, i) /\ n \in Int /\ n <= c
    BY <1>3, <1>5, <1>8 DEF InviteAt
  <2>2. CASE l \in DOMAIN s /\ r[l] = s[l]
    BY <1>8, <2>1, <2>2 DEF Leads
  <2>3. CASE l \in Int /\ c < l
    BY <2>1, <2>3
  <2> QED BY <1>3, <2>2, <2>3
<1>9. \A i \in Sid : Of(r, i) = Of(s, i) \cup Of(w, i)
  BY <1>4 DEF Of
<1> QED BY <1>1, <1>4, <1>6, <1>7, <1>8, <1>9 DEF Joined

\* One message is added.
LEMMA SendQueue ==
  ASSUME NEW s \in Seq(Message), NEW m \in Message, NEW r, r = s \o <<m>> \/ r = Append(s, m)
  PROVE  Pushed(s, m, r)
<1>0. <<m>> \in Seq(Message) /\ r = s \o <<m>>
  BY AppendIsConcat
<1>1. PICK w \in Seq(Message) : w = <<m>>
  BY <1>0, Zenon
<1>2. DOMAIN w = {1} /\ w[1] = m /\ In(w) = {m}
  BY <1>1 DEF In
<1>3. /\ r \in Seq(Message) /\ In(r) = In(s) \cup In(w)
      /\ \A i \in Sid :
           /\ Of(r, i) = Of(s, i) \cup Of(w, i)
           /\ Sole(s, i) /\ ~Some(Of(w, i), "invite") => Sole(r, i)
           /\ Sole(w, i) /\ ~Some(Of(s, i), "invite") => Sole(r, i)
           /\ Leads(s, i) /\ ~Some(Of(w, i), "invite") => Leads(r, i)
  <2>1. r = s \o w
    BY <1>0, <1>1
  <2>2. Joined(s, w, r)
    BY <2>1, ConcatQueue
  <2> QED BY <2>2 DEF Joined
<1>4. ASSUME NEW i \in Sid PROVE Sole(w, i) /\ (~InviteAt(w, 1, i) => ~Some(Of(w, i), "invite"))
  BY <1>2 DEF Sole, InviteAt, Some, Of
<1>5. ASSUME NEW i \in Sid, Of(s, i) = {}, InviteAt(w, 1, i) PROVE Leads(r, i)
  <2>1. Of(r, i) = {m} /\ Sole(r, i)
    <3>1. Of(r, i) = {m}
      BY <1>2, <1>3, <1>5 DEF Of, InviteAt, Noise
    <3>2. ~Some(Of(s, i), "invite")
      BY <1>5 DEF Some
    <3> QED BY <1>3, <1>4, <3>1, <3>2
  <2>2. \A l \in DOMAIN r : r[l].sid = i /\ ~Noise(r[l]) => InviteAt(r, l, i)
    BY <1>2, <1>5, <2>1 DEF Of, In, InviteAt
  <2>3. \A n \in DOMAIN r : n <= n
    <3>1. \A n \in DOMAIN r : n \in Int
      BY <1>3, LenProperties
    <3> QED BY <3>1
  <2> QED BY <2>1, <2>2, <2>3 DEF Leads, Sole
<1>6. ASSUME NEW i \in Sid
      PROVE  IF m.sid = i THEN Puts(Of(s, i), Of(r, i), m) ELSE Of(r, i) = Of(s, i)
  BY <1>2, <1>3 DEF Of, Puts
<1> QED BY <1>1, <1>2, <1>3, <1>4, <1>5, <1>6 DEF Pushed

\* Only(q, K) is what q has at the positions in K, and has no more invites.
LEMMA OnlyQueue ==
  ASSUME NEW q \in Seq(Message), NEW K \in SUBSET DOMAIN q
  PROVE  /\ Only(q, K) \in Seq(Message)
         /\ In(Only(q, K)) = {q[k] : k \in K}
         /\ \A i \in Sid : Sole(q, i) => Sole(Only(q, K), i)
<1> DEFINE At(n) == {q[k] : k \in {l \in K : l <= n}}
           Fine(s, n) == /\ s \in Seq(Message) /\ In(s) = At(n)
                         /\ \A i \in Sid : Sole(q, i) => Sole(s, i)
<1>0. DOMAIN q = 1 .. Len(q) /\ Len(q) \in Nat
  BY LenProperties
<1>1. PICK g : KeepsTo(q, K, Len(q), g) /\ Only(q, K) = g[Len(q)]
  BY <1>0, OnlyUnfolds
<1>2. \A n \in 0 .. Len(q) :
        g[n] = IF n = 0 THEN <<>> ELSE IF n \in K THEN Append(g[n - 1], q[n]) ELSE g[n - 1]
  BY <1>1 DEF KeepsTo
<1> DEFINE Bad == {n \in 0 .. Len(q) : ~Fine(g[n], n)}
<1>3. ASSUME Bad # {} PROVE FALSE
  <2>1. PICK n \in Bad : \A m \in Bad : n <= m
    <3>1. Bad \subseteq Nat
      OBVIOUS
    <3> QED BY <1>3, <3>1, Least
  <2>2. n \in 0 .. Len(q) /\ ~Fine(g[n], n)
    BY <2>1
  <2>3. n # 0
    <3>1. <<>> \in Seq(Message) /\ In(<<>>) = {} /\ \A i \in Sid : Sole(<<>>, i)
      BY EmptySeq DEF In, Sole
    <3>2. At(0) = {}
      BY <1>0
    <3> QED BY <1>2, <2>2, <3>1, <3>2
  <2>4. n - 1 \in 0 .. Len(q) /\ Fine(g[n - 1], n - 1)
    <3>1. n - 1 \in 0 .. Len(q) /\ n - 1 < n
      BY <1>0, <2>2, <2>3
    <3> HIDE DEF Fine
    <3> QED BY <1>0, <2>1, <3>1
  <2>5. CASE n \in K
    <3>1. q[n] \in Message
      BY <1>0, <2>2, <2>3
    <3>2. g[n] = Append(g[n - 1], q[n]) /\ g[n - 1] \in Seq(Message)
      BY <1>2, <2>2, <2>3, <2>4, <2>5
    <3>3. /\ g[n] \in Seq(Message) /\ In(g[n]) = In(g[n - 1]) \cup {q[n]}
          /\ \A i \in Sid :
               Sole(g[n - 1], i) /\ (InviteAt(<<q[n]>>, 1, i) => ~Some(Of(g[n - 1], i), "invite"))
                 => Sole(g[n], i)
      <4>1. Pushed(g[n - 1], q[n], g[n])
        BY <3>1, <3>2, SendQueue
      <4> QED BY <4>1 DEF Pushed
    <3>4. At(n) = At(n - 1) \cup {q[n]}
      BY <1>0, <2>2, <2>5
    <3>5. ASSUME NEW i \in Sid, Sole(q, i), InviteAt(<<q[n]>>, 1, i),
                 Some(Of(g[n - 1], i), "invite")
          PROVE  FALSE
      <4>1. PICK m \in At(n - 1) : m.type = "invite" /\ m.sid = i
        BY <2>4, <3>5 DEF Some, Of
      <4>2. PICK k \in K : k <= n - 1 /\ InviteAt(q, k, i)
        BY <4>1 DEF InviteAt
      <4>3. InviteAt(q, n, i)
        BY <3>5 DEF InviteAt
      <4> QED BY <1>0, <2>2, <2>5, <3>5, <4>2, <4>3 DEF Sole
    <3>6. Fine(g[n], n)
      BY <2>4, <3>3, <3>4, <3>5
    <3> QED BY <2>2, <3>6
  <2>6. CASE n \notin K
    <3>1. At(n) = At(n - 1)
      BY <1>0, <2>2, <2>6
    <3>2. g[n] = g[n - 1]
      BY <1>2, <2>2, <2>3, <2>6
    <3> QED BY <2>2, <2>4, <3>1, <3>2
  <2> QED BY <2>5, <2>6
<1>4. Fine(g[Len(q)], Len(q))
  <2> HIDE DEF Fine
  <2> QED BY <1>0, <1>3
<1>5. At(Len(q)) = {q[k] : k \in K}
  BY <1>0
<1> QED BY <1>1, <1>4, <1>5

\* The invites of the attempts in S, one of each.
LEMMA JoinQueue ==
  ASSUME NEW S \in SUBSET Sid, NEW w \in JoinInvites(S),
         \A i \in S : attempts[i].initiator \in Party /\ attempts[i].identity \in Party
  PROVE  /\ w \in Seq(Message)
         /\ In(w) = {Msg("invite", attempts[i].initiator, attempts[i].identity, i, "none", 0)
                       : i \in S}
         /\ \A i \in Sid : Sole(w, i)
<1> DEFINE inv(i) == Msg("invite", attempts[i].initiator, attempts[i].identity, i, "none", 0)
           T == {inv(i) : i \in S}
           n == Cardinality(S)
<1>1. \A i \in S : inv(i) \in Message /\ inv(i).sid = i
  BY MsgType DEF MessageType, Tag, Msg
<1>2. /\ w \in [1 .. n -> T]
      /\ \A j, k \in DOMAIN w : j < k => w[j].sid < w[k].sid
  BY DEF JoinInvites
<1>3. IsFiniteSet(S) /\ n \in Nat
  BY IdAssumption, FS_Subset, FS_CardinalityType
<1> DEFINE f == [j \in 1 .. n |-> w[j].sid]
<1>4. f \in [1 .. n -> S] /\ \A j \in 1 .. n : w[j] = inv(f[j]) /\ w[j].sid = f[j]
  <2> HIDE DEF n, inv
  <2>1. ASSUME NEW j \in 1 .. n PROVE w[j].sid \in S /\ w[j] = inv(w[j].sid)
    <3>1. PICK i \in S : w[j] = inv(i)
      BY <1>2
    <3> QED BY <1>1, <3>1
  <2> QED BY <2>1
<1> HIDE DEF f, inv, n
<1>5. \A j, k \in 1 .. n : f[j] = f[k] => j = k
  <2> SUFFICES ASSUME NEW j \in 1 .. n, NEW k \in 1 .. n, f[j] = f[k], j # k PROVE FALSE
    OBVIOUS
  <2>1. j < k \/ k < j
    BY <1>3
  <2>2. f[j] < f[k] \/ f[k] < f[j]
    BY <1>2, <1>4, <2>1
  <2>3. PICK i \in S : i = f[j] /\ i = f[k]
    BY <1>4
  <2>4. i \in Nat /\ i < i
    BY <2>2, <2>3, IdAssumption
  <2> QED BY <2>4
<1>6. f \in Injection(1 .. n, S)
  BY <1>4, <1>5 DEF Injection, IsInjective
<1>7. Cardinality(1 .. n) = n
  BY <1>3, FS_Interval
<1>8. f \in Surjection(1 .. n, S)
  BY <1>3, <1>6, <1>7, FS_Injection DEF n
<1>9. \A i \in S : \E j \in 1 .. n : f[j] = i
  BY <1>8 DEF Surjection
<1>10. w \in Seq(Message)
  <2>1. w \in [1 .. n -> Message]
    BY <1>1, <1>2
  <2> QED BY <1>3, <2>1, SeqDef
<1>11. In(w) = T
  <2>1. In(w) \subseteq T
    BY <1>2 DEF In
  <2>2. T \subseteq In(w)
    BY <1>2, <1>4, <1>9 DEF In
  <2> QED BY <2>1, <2>2
<1>12. \A i \in Sid : Sole(w, i)
  BY <1>2, <1>4, <1>5 DEF Sole, InviteAt
<1> QED BY <1>10, <1>11, <1>12 DEF inv

-----------------------------------------------------------------------------
(* The invariant of one session and one leg d, a view v: p and q are the   *)
(* records of caller and leg, a the relay's; U is on its way from the      *)
(* caller to the relay and D back, V from the leg and E back, I is in the  *)
(* inbox.                                                                  *)

View(i, d) ==
  [p |-> sess[Caller][i], q |-> sess[d][i], a |-> attempts[i], over |-> i \in lapsed,
   U |-> Of(up[Caller], i), V |-> Of(up[d], i), I |-> Of(inbox, i),
   D |-> Of(down[Caller], i), E |-> Of(down[d], i)]

\* A cancel is only sent by a caller that does not wait any more.
Withdrawn(p, m) ==
  /\ p.state \notin Inviting
  /\ m.tag # "session.answered-elsewhere" => p.state = "ENDED"

CallerFits(v) ==
  /\ v.p.state # "NONE" => v.p.role = "initiator" /\ v.p.inviteTo = Callee
  /\ v.p.state = "ACTIVE" => v.p.peer \in Leaves /\ v.p.answered = v.p.peer

\* While the invite is on its way nobody else has heard of the call, and while
\* it is held the relay has no attempt for it.
AttemptFits(v) ==
  /\ v.a.initiator = Nobody => v.a = NoAttempt
  /\ v.a.initiator # Nobody =>
       /\ v.a.initiator = Caller /\ v.a.identity = Callee /\ v.a.legs[Caller] = "none"
       /\ ~Some(v.I, "invite") /\ ~Some(v.I, "cancel")
  /\ v.p.state = "NONE" => v.U = {}
  /\ v.p.state = "NONE" \/ Some(v.U, "invite") => v.D = {} /\ v.I = {} /\ v.a = NoAttempt
  /\ Some(v.I, "cancel") => ~Some(v.I, "invite")
  /\ \A m \in v.U \cup v.I : m.type = "cancel" => Withdrawn(v.p, m)

\* What a caller waits for: its invite to get there, the relay, word from it,
\* or its own timer, when the invite has expired in the inbox.
Waits(v) ==
  v.p.state \in Inviting =>
    \/ Some(v.U, "invite") \/ Some(v.I, "invite")
    \/ v.a.initiator # Nobody /\ v.a.outcome = "none"
    \/ \E m \in v.D : m.type \in {"answer", "reject", "error"}
    \/ v.over /\ v.a.initiator = Nobody

\* A leg hears of the call once, through an attempt that counts on it, and is
\* counted on until its word is on its way.
LegFits(d, v) ==
  /\ v.p.state = "NONE" \/ Some(v.U, "invite") => v.q.state = "NONE" /\ v.V = {} /\ v.E = {}
  /\ v.q.state # "NONE" => v.q.role = "responder" /\ v.q.peer = Caller
  /\ Some(v.I, "invite") => v.q.state = "NONE" /\ ~Some(v.E, "invite") /\ ~Some(v.E, "cancel")
  /\ Some(v.E, "invite") => v.q.state = "NONE"
  /\ v.a.initiator # Nobody =>
       /\ v.q.state # "NONE" \/ Some(v.E, "invite") => v.a.legs[d] # "none"
       /\ Some(v.E, "cancel") => v.a.legs[d] \in Terminal
  /\ \A m \in v.E : m.type = "cancel" => Withdrawn(v.p, m)
  /\ Some(v.V, "reject") \/ v.a.legs[d] = "rejected" => v.q.state = "ENDED"
  /\ v.a.legs[d] = "delivered" =>
       \/ Some(v.E, "invite") \/ v.q.state \in {"OFFERED", "ALERTING"}
       \/ Some(v.V, "answer") \/ Some(v.V, "reject")

Agrees(d, v) == CallerFits(v) /\ AttemptFits(v) /\ Waits(v) /\ LegFits(d, v)

\* The answer of d is on its way to the caller; a bye is on its way to d.
Answers(d, v) == Some(v.V, "answer") \/ \E m \in v.D : m.type = "answer" /\ m.from = d
Leaving(d, v) == \E m \in v.U \cup v.I \cup v.E : m.type = "bye" /\ m.to = d

\* Where only the caller hangs up, a leg is in the call with it or will be told.
Talks(d, v) ==
  /\ Answers(d, v) => v.q.state = "ACTIVE" \/ (v.q.state = "ENDED" /\ v.p.state \notin Inviting)
  /\ Leaving(d, v) => v.p.state = "ENDED" \/ (v.p.state = "ACTIVE" /\ v.p.peer # d)
  /\ v.p.state = "ACTIVE" /\ v.p.peer = d => v.q.state = "ACTIVE"
  /\ v.q.state = "ACTIVE" =>
       (v.p.state = "ACTIVE" /\ v.p.peer = d) \/ Answers(d, v) \/ Leaving(d, v)

-----------------------------------------------------------------------------
(* The invariant of all.                                                   *)

\* The devices but the caller are those of the identity called, which is
\* neither a device nor the caller's.
OneCallee ==
  /\ Leaves # {} /\ Callee \notin Device
  /\ \A d \in Leaves : IdentityOf[d] = Callee
  /\ IdentityOf[Caller] \notin Leaves \cup {Callee}

ForkTypes ==
  /\ bound \subseteq Device /\ Caller \in bound
  /\ known = Device \cup {IdentityOf[d] : d \in Device}
  /\ attempts \in [Sid -> AttemptRec]
  /\ inbox \in Seq(Message)
  /\ down \in [Device -> Seq(Message)]

\* What a caller sends, and what a leg d sends; what reaches them.
FromCaller(m) ==
  \/ Noise(m)
  \/ /\ m.from = Caller /\ m.upd = 0
     /\ (m.type \in {"invite", "cancel"} /\ m.to = Callee) \/ (m.type = "bye" /\ m.to \in Leaves)
FromCallee(d, m) ==
  \/ Noise(m)
  \/ /\ m.from = d /\ m.to = Caller /\ m.upd = 0
     /\ m.type \in {"progress", "answer", "reject"} \/ (m.type = "bye" /\ d \in MayHangUp)
ToCaller(m) ==
  \/ m.type = "error"
  \/ /\ m.type \in {"progress", "answer", "reject", "bye"} /\ m.upd = 0
     /\ m.type = "answer" => m.from \in Leaves
     /\ m.type = "bye" => m.from \in MayHangUp \cap Leaves
ToCallee(d, m) == Noise(m) \/ (FromCaller(m) /\ m.to \in {d, Callee})

MailSound ==
  /\ \A m \in In(up[Caller]) \cup In(inbox) : FromCaller(m)
  /\ \A m \in In(down[Caller]) : ToCaller(m)
  /\ \A d \in Leaves : /\ \A m \in In(up[d]) : FromCallee(d, m)
                       /\ \A m \in In(down[d]) : ToCallee(d, m)

InvitesOnce ==
  \A i \in Sid : /\ Leads(up[Caller], i) /\ Sole(inbox, i)
                 /\ \A d \in Leaves : Sole(down[d], i)

ForkInv ==
  /\ OneCallee /\ EndpointInv /\ ForkTypes /\ MailSound /\ InvitesOnce
  /\ \A i \in Sid, d \in Leaves : Agrees(d, View(i, d))

TalkInv == \A i \in Sid, d \in Leaves : Talks(d, View(i, d))

-----------------------------------------------------------------------------
(* What a step does to a view v, which it leaves as w.                     *)

Keeps(v, w, F) == \A f \in F : w[f] = v[f]
SameRecord(p, r) ==
  /\ r.role = p.role /\ r.inviteTo = p.inviteTo /\ r.state = p.state
  /\ r.peer = p.peer /\ r.answered = p.answered

\* The caller takes m, sends x and turns its record p into r: it places the
\* call, withdraws it or hangs up; what it takes makes progress or is dropped,
\* establishes the call, comes too late, fails the attempt or ends the call.
CallerTurns(p, m, x, r) ==
  /\ r.role = "initiator" /\ r.inviteTo = Callee
  /\ \/ p.state = "NONE" /\ r.state = "INVITING" /\ Noise(m) /\ x.type = "invite"
     \/ /\ p.state \in Inviting /\ r.state = "ENDED" /\ (Noise(m) \/ m.type = "progress")
        /\ x.type = "cancel" /\ x.tag # "session.answered-elsewhere"
     \/ /\ p.state = "ACTIVE" /\ r.state = "ENDED" /\ Noise(m)
        /\ x.type = "bye" /\ x.to = p.peer
     \/ /\ p.state \in Inviting /\ r.state \in Inviting /\ Noise(x)
        /\ m.type \in {"progress", "bye"}
     \/ /\ p.state \notin Inviting /\ SameRecord(p, r) /\ Noise(x)
        /\ m.type = "answer" => p.state = "ACTIVE" /\ m.from = p.answered
     \/ /\ p.state \in Inviting /\ r.state = "ACTIVE" /\ r.peer = m.from /\ r.answered = m.from
        /\ m.type = "answer" /\ m.from \in Leaves
        /\ x.type = "cancel" /\ x.tag = "session.answered-elsewhere"
     \/ /\ p.state = "ENDED" \/ (p.state = "ACTIVE" /\ m.from # p.answered)
        /\ m.type = "answer" /\ SameRecord(p, r) /\ x.type = "bye" /\ x.to = m.from
     \/ /\ p.state \in Inviting /\ r.state = "ENDED" /\ Noise(x)
        /\ ~Noise(m) /\ m.type \in {"reject", "error"}
     \/ /\ p.state = "ACTIVE" /\ r.state = "ENDED" /\ Noise(x)
        /\ m.type = "bye" /\ m.from \in MayHangUp \cap Leaves

CallerMoves(v, w) ==
  /\ Keeps(v, w, {"q", "a", "over", "V", "I", "E"})
  /\ \E m, x : Takes(v.D, w.D, m) /\ Puts(v.U, w.U, x) /\ CallerTurns(v.p, m, x, w.p)

\* Leg d takes m, sends x and turns its record q into r: it is offered the call
\* or refuses it; it alerts, turns the call down, answers or hangs up; it is
\* told to leave, or drops what it takes.
LegTurns(d, q, m, x, r) ==
  /\ r.state # "NONE" => r.role = "responder" /\ r.peer = Caller
  /\ \/ /\ m.type = "invite" /\ q.state = "NONE"
        /\ (r.state = "OFFERED" /\ Noise(x)) \/ (r.state = "ENDED" /\ x.type = "reject")
     \/ /\ Noise(m)
        /\ \/ q.state = "OFFERED" /\ r.state = "ALERTING" /\ x.type = "progress"
           \/ q.state \in {"OFFERED", "ALERTING"} /\ r.state = "ENDED" /\ x.type = "reject"
           \/ q.state = "ALERTING" /\ r.state = "ACTIVE" /\ x.type = "answer"
           \/ q.state = "ACTIVE" /\ r.state = "ENDED" /\ x.type = "bye" /\ d \in MayHangUp
     \/ /\ Noise(x)
        /\ \/ /\ m.type = "cancel" /\ q.state \in {"OFFERED", "ALERTING", "ACTIVE"}
              /\ r.state = "ENDED"
              /\ q.state = "ACTIVE" => m.tag # "session.answered-elsewhere"
           \/ m.type = "bye" /\ m.to = d /\ q.state = "ACTIVE" /\ r.state = "ENDED"
           \/ /\ r.state = q.state
              /\ \/ m.type = "bye" /\ q.state # "ACTIVE"
                 \/ m.type = "cancel" /\ q.state \notin {"OFFERED", "ALERTING"}

LegMoves(d, v, w) ==
  /\ Keeps(v, w, {"p", "a", "over", "U", "I", "D"})
  /\ \E m, x : /\ Takes(v.E, w.E, m) /\ Puts(v.V, w.V, x) /\ LegTurns(d, v.q, m, x, w.q)
               /\ m.type = "invite" => ~Some(w.E, "invite")

\* The relay's record stays that of the caller's call.
SameCall(v, w) ==
  /\ v.a.initiator # Nobody
  /\ w.a.initiator = v.a.initiator /\ w.a.identity = v.a.identity
  /\ w.a.legs[Caller] = v.a.legs[Caller]

\* The relay takes what the caller sent: it forks the invite or holds it, drops
\* a held invite, passes a message on, or tells the legs of a cancel.
RelayHears(d, v, w) ==
  /\ Keeps(v, w, {"p", "q", "over", "V", "D"})
  /\ \E m : Takes(v.U, w.U, m) /\
       \/ /\ m.type = "invite" /\ ~Some(w.U, "invite")
          /\ \/ /\ w.I = v.I
                /\ w.a.initiator = Caller /\ w.a.identity = Callee /\ w.a.outcome = "none"
                /\ w.a.legs[Caller] = "none"
                /\ \/ w.a.legs[d] = "delivered" /\ w.E = v.E \cup {m}
                   \/ w.a.legs[d] = "none" /\ w.E = v.E
             \/ w.a = v.a /\ w.E = v.E /\ w.I = v.I \cup {m}
       \/ /\ m.type = "cancel" /\ v.a.initiator = Nobody /\ w.a = v.a /\ w.E = v.E
          /\ w.I \subseteq v.I /\ ~Some(w.I, "invite")
          /\ \A n \in v.I : n \in w.I \/ n.type = "invite"
       \/ /\ m.type \in {"cancel", "bye"} /\ w.a = v.a
          /\ ~Some(v.U, "invite")
          /\ m.type = "cancel" => v.a.initiator = Nobody /\ ~Some(v.I, "invite")
          /\ \/ w.I = v.I /\ w.E = v.E \cup {m}
             \/ w.I = v.I \cup {m} /\ w.E = v.E
             \/ w.I = v.I /\ w.E = v.E /\ (m.type = "bye" => m.to # d)
       \/ /\ m.type = "cancel" /\ SameCall(v, w) /\ w.I = v.I
          /\ \/ /\ v.a.legs[d] = "delivered" /\ w.a.legs[d] = "cancelled"
                /\ w.E = v.E \/ w.E = v.E \cup {m}
             \/ v.a.legs[d] # "delivered" /\ w.a.legs[d] = v.a.legs[d] /\ w.E = v.E

\* The attempt goes on, or the caller gets word of its outcome.
Concludes(v, w) ==
  \/ w.D = v.D /\ w.a.outcome = v.a.outcome
  \/ \E m : m.type \in {"reject", "error"} /\ w.D = v.D \cup {m}

\* The relay takes what d or another leg sent: passes it on, notes a reject, or
\* drops it.
RelayIsTold(d, v, w) ==
  /\ Keeps(v, w, {"p", "q", "over", "U", "I", "E"})
  /\ v.p.state # "NONE" /\ ~Some(v.U, "invite")
  /\ \E m : /\ m.type \in {"progress", "answer", "reject", "bye"}
            /\ (m.from = d /\ Takes(v.V, w.V, m)) \/ (m.from # d /\ w.V = v.V)
            /\ \/ /\ w.D = v.D \cup {m}
                  /\ w.a = v.a \/ SameCall(v, w)
                  /\ \/ w.a.legs[d] = v.a.legs[d]
                     \/ v.a.legs[d] = "delivered" /\ w.a.legs[d] = "answered"
                  /\ m.type = "answer" \/ w.a.outcome = v.a.outcome
                  /\ m.from = d /\ m.type \in {"answer", "reject"} => w.a.legs[d] # "delivered"
               \/ /\ m.type = "reject" /\ SameCall(v, w) /\ Concludes(v, w)
                  /\ w.a.legs[d] = IF m.from = d THEN "rejected" ELSE v.a.legs[d]
               \/ /\ m.type # "answer" /\ SameCall(v, w) /\ w.D = v.D
                  /\ w.a.legs[d] = v.a.legs[d] /\ w.a.outcome = v.a.outcome
                  /\ m.from = d => v.a.legs[d] # "delivered"

\* Leg x connects: it gets what is held for it, and the invite if it is called.
LegConnects(d, x, v, w) ==
  /\ Keeps(v, w, {"p", "q", "over", "U", "V", "D"})
  /\ w.I \subseteq v.I
  /\ IF d = x THEN /\ v.E \subseteq w.E /\ \A n \in v.I : n \in w.I \/ n \in w.E
                   /\ \A n \in w.E : n \in v.E \/ n \in v.I \/ n.type = "invite"
              ELSE w.E = v.E /\ \A n \in v.I : n \in w.I \/ (n.type = "bye" => n.to # d)
  /\ \/ /\ w.a = v.a /\ ~Some(v.I, "invite")
        /\ Some(w.E, "invite") => Some(v.E, "invite")
     \/ /\ \/ SameCall(v, w) /\ v.a.outcome = "none" /\ v.a.legs[x] = "none"
           \/ /\ Some(v.I, "invite") /\ ~Some(w.I, "invite")
              /\ w.a.initiator = Caller /\ w.a.identity = Callee /\ w.a.legs[Caller] = "none"
        /\ w.a.outcome = "none"
        /\ IF d = x THEN w.a.legs[d] = "delivered" /\ Some(w.E, "invite")
                    ELSE w.a.legs[d] = v.a.legs[d]

\* The invite expires, or the relay forgets the attempt.
TimePasses(d, v, w) ==
  /\ Keeps(v, w, {"p", "q", "U", "V", "E"})
  /\ \/ /\ w.over /\ v.p.state # "NONE"
        /\ w.I \subseteq v.I /\ ~Some(w.I, "invite")
        /\ \A n \in v.I : n \in w.I \/ n.type = "invite"
        /\ \/ w.a = v.a /\ w.D = v.D
           \/ /\ SameCall(v, w) /\ Concludes(v, w)
              /\ w.a.legs[d] \in {v.a.legs[d], "expired"}
     \/ /\ w.a = NoAttempt /\ w.over = v.over /\ w.I = v.I /\ w.D = v.D
        /\ v.U = {} /\ v.D = {} /\ v.V = {} /\ v.E = {}
        /\ v.p.state \notin Inviting

Moves(d, v, w) ==
  \/ w = v
  \/ CallerMoves(v, w)
  \/ LegMoves(d, v, w)
  \/ RelayHears(d, v, w)
  \/ RelayIsTold(d, v, w)
  \/ \E x \in Leaves : LegConnects(d, x, v, w)
  \/ TimePasses(d, v, w)

-----------------------------------------------------------------------------
(* Every such move keeps the invariant.                                    *)

\* What the caller does keeps the records and what is in transit in agreement.
LEMMA CallerMovesAgree ==
  ASSUME OneCallee, NEW d \in Leaves, NEW v, NEW w, Agrees(d, v), CallerMoves(v, w)
  PROVE  Agrees(d, w)
<1> USE PartyAssumption, ForkAssumption DEF CallerFits, AttemptFits, Waits, LegFits,
        CallerMoves, CallerTurns, Keeps, Takes, Puts, Noise, SameRecord, Some,
        Withdrawn, Inviting
<1>1. CallerFits(w)
  BY DEF Agrees
<1>2. AttemptFits(w)
  BY DEF Agrees
<1>3. Waits(w)
  BY DEF Agrees
<1>4. LegFits(d, w)
  BY DEF Agrees
<1> QED BY <1>1, <1>2, <1>3, <1>4 DEF Agrees

\* What a leg does keeps them in agreement.
LEMMA LegMovesAgree ==
  ASSUME OneCallee, NEW d \in Leaves, NEW v, NEW w, Agrees(d, v), LegMoves(d, v, w)
  PROVE  Agrees(d, w)
<1> USE PartyAssumption, ForkAssumption DEF CallerFits, AttemptFits, Waits, LegFits,
        LegMoves, LegTurns, Keeps, Takes, Puts, Noise, SameRecord, Some, Withdrawn,
        Inviting, Terminal, NoAttempt, Leaves
<1>1. CallerFits(w)
  BY DEF Agrees
<1>2. AttemptFits(w)
  BY DEF Agrees
<1>3. Waits(w)
  BY DEF Agrees
<1>4. LegFits(d, w)
  BY DEF Agrees
<1> QED BY <1>1, <1>2, <1>3, <1>4 DEF Agrees

\* What the relay does with a message of the caller keeps them in agreement.
LEMMA RelayHearsAgrees ==
  ASSUME OneCallee, NEW d \in Leaves, NEW v, NEW w, Agrees(d, v), RelayHears(d, v, w)
  PROVE  Agrees(d, w)
<1> USE PartyAssumption, ForkAssumption DEF CallerFits, AttemptFits, Waits, LegFits,
        RelayHears, SameCall, Keeps, Takes, Puts, Noise, SameRecord, Some, Withdrawn,
        Inviting, Terminal, NoAttempt, Leaves
<1>1. CallerFits(w)
  BY DEF Agrees
<1>2. AttemptFits(w)
  BY DEF Agrees
<1>3. Waits(w)
  BY DEF Agrees
<1>4. LegFits(d, w)
  BY DEF Agrees
<1> QED BY <1>1, <1>2, <1>3, <1>4 DEF Agrees

\* What the relay does with a message of a leg keeps them in agreement.
LEMMA RelayIsToldAgrees ==
  ASSUME OneCallee, NEW d \in Leaves, NEW v, NEW w, Agrees(d, v), RelayIsTold(d, v, w)
  PROVE  Agrees(d, w)
<1> USE PartyAssumption, ForkAssumption DEF CallerFits, AttemptFits, Waits, LegFits,
        RelayIsTold, SameCall, Concludes, Keeps, Takes, Puts, Noise, SameRecord, Some,
        Withdrawn, Inviting, Terminal, NoAttempt, Leaves
<1>1. CallerFits(w)
  BY DEF Agrees
<1>2. AttemptFits(w)
  BY DEF Agrees
<1>3. Waits(w)
  BY DEF Agrees
<1>4. LegFits(d, w)
  BY DEF Agrees
<1> QED BY <1>1, <1>2, <1>3, <1>4 DEF Agrees

\* The expiry of an invite and the end of retention keep them in agreement.
LEMMA TimePassesAgrees ==
  ASSUME OneCallee, NEW d \in Leaves, NEW v, NEW w, Agrees(d, v), TimePasses(d, v, w)
  PROVE  Agrees(d, w)
<1> USE PartyAssumption, ForkAssumption DEF CallerFits, AttemptFits, Waits, LegFits,
        TimePasses, SameCall, Concludes, Keeps, Takes, Puts, Noise, SameRecord, Some,
        Withdrawn, Inviting, Terminal, NoAttempt, Leaves
<1>1. CallerFits(w)
  BY DEF Agrees
<1>2. AttemptFits(w)
  BY DEF Agrees
<1>3. Waits(w)
  BY DEF Agrees
<1>4. LegFits(d, w)
  BY DEF Agrees
<1> QED BY <1>1, <1>2, <1>3, <1>4 DEF Agrees

\* A leg that connects, this one or another, keeps them in agreement.
LEMMA LegConnectsAgrees ==
  ASSUME OneCallee, NEW d \in Leaves, NEW v, NEW w, Agrees(d, v), NEW x \in Leaves,
         LegConnects(d, x, v, w)
  PROVE  Agrees(d, w)
<1> USE PartyAssumption, ForkAssumption DEF CallerFits, AttemptFits, Waits, LegFits,
        LegConnects, SameCall, Keeps, Takes, Puts, Noise, SameRecord, Some, Withdrawn,
        Inviting, Terminal, NoAttempt, Leaves
<1>1. CallerFits(w)
  BY DEF Agrees
<1>2. AttemptFits(w)
  BY DEF Agrees
<1>3. Waits(w)
  BY DEF Agrees
<1>4. LegFits(d, w)
  BY DEF Agrees
<1> QED BY <1>1, <1>2, <1>3, <1>4 DEF Agrees

\* Where the legs do not hang up, a leg in the call is in it with the caller or
\* will be told to leave; this holds after what the caller does.
LEMMA CallerMovesTalk ==
  ASSUME OneCallee, MayHangUp \cap Leaves = {}, NEW d \in Leaves, NEW v, NEW w,
         Agrees(d, v), Talks(d, v), CallerMoves(v, w)
  PROVE  Talks(d, w)
<1> USE PartyAssumption, ForkAssumption DEF Agrees, CallerFits, AttemptFits, Waits,
        LegFits, Answers, Leaving, CallerMoves, CallerTurns, Keeps, Takes, Puts, Noise,
        SameRecord, Some, Inviting
<1>2. Answers(d, w) => w.q.state = "ACTIVE" \/ (w.q.state = "ENDED" /\ w.p.state \notin Inviting)
  BY DEF Talks
<1>3. Leaving(d, w) => w.p.state = "ENDED" \/ (w.p.state = "ACTIVE" /\ w.p.peer # d)
  BY DEF Talks
<1>4. w.p.state = "ACTIVE" /\ w.p.peer = d => w.q.state = "ACTIVE"
  BY DEF Talks
<1>5. w.q.state = "ACTIVE" =>
        (w.p.state = "ACTIVE" /\ w.p.peer = d) \/ Answers(d, w) \/ Leaving(d, w)
  BY DEF Talks
<1> QED BY <1>2, <1>3, <1>4, <1>5 DEF Talks

\* It holds after what a leg does.
LEMMA LegMovesTalk ==
  ASSUME OneCallee, MayHangUp \cap Leaves = {}, NEW d \in Leaves, NEW v, NEW w,
         Agrees(d, v), Talks(d, v), LegMoves(d, v, w)
  PROVE  Talks(d, w)
<1> USE PartyAssumption, ForkAssumption DEF Agrees, CallerFits, AttemptFits, Waits,
        LegFits, Answers, Leaving, LegMoves, LegTurns, Keeps, Takes, Puts, Noise,
        SameRecord, Some, Withdrawn, Inviting
<1>2. Answers(d, w) => w.q.state = "ACTIVE" \/ (w.q.state = "ENDED" /\ w.p.state \notin Inviting)
  BY DEF Talks
<1>3. Leaving(d, w) => w.p.state = "ENDED" \/ (w.p.state = "ACTIVE" /\ w.p.peer # d)
  BY DEF Talks
<1>4. w.p.state = "ACTIVE" /\ w.p.peer = d => w.q.state = "ACTIVE"
  BY DEF Talks
<1>5. w.q.state = "ACTIVE" =>
        (w.p.state = "ACTIVE" /\ w.p.peer = d) \/ Answers(d, w) \/ Leaving(d, w)
  BY DEF Talks
<1> QED BY <1>2, <1>3, <1>4, <1>5 DEF Talks

\* It holds after what the relay does with a message of the caller.
LEMMA RelayHearsTalks ==
  ASSUME OneCallee, MayHangUp \cap Leaves = {}, NEW d \in Leaves, NEW v, NEW w,
         Agrees(d, v), Talks(d, v), RelayHears(d, v, w)
  PROVE  Talks(d, w)
<1> USE PartyAssumption, ForkAssumption DEF Agrees, CallerFits, AttemptFits, Waits,
        LegFits, Answers, Leaving, RelayHears, Keeps, Takes, Puts, Noise, Some, Inviting
<1>2. Answers(d, w) => w.q.state = "ACTIVE" \/ (w.q.state = "ENDED" /\ w.p.state \notin Inviting)
  BY DEF Talks
<1>3. Leaving(d, w) => w.p.state = "ENDED" \/ (w.p.state = "ACTIVE" /\ w.p.peer # d)
  BY DEF Talks
<1>4. w.p.state = "ACTIVE" /\ w.p.peer = d => w.q.state = "ACTIVE"
  BY DEF Talks
<1>5. w.q.state = "ACTIVE" =>
        (w.p.state = "ACTIVE" /\ w.p.peer = d) \/ Answers(d, w) \/ Leaving(d, w)
  BY DEF Talks
<1> QED BY <1>2, <1>3, <1>4, <1>5 DEF Talks

\* It holds after what the relay does with a message of a leg.
LEMMA RelayIsToldTalks ==
  ASSUME OneCallee, MayHangUp \cap Leaves = {}, NEW d \in Leaves, NEW v, NEW w,
         Agrees(d, v), Talks(d, v), RelayIsTold(d, v, w)
  PROVE  Talks(d, w)
<1> USE PartyAssumption, ForkAssumption DEF Agrees, CallerFits, AttemptFits, Waits,
        LegFits, Answers, Leaving, RelayIsTold, SameCall, Concludes, Keeps, Takes, Puts,
        Noise, SameRecord, Some, Inviting
<1>2. Answers(d, w) => w.q.state = "ACTIVE" \/ (w.q.state = "ENDED" /\ w.p.state \notin Inviting)
  BY DEF Talks
<1>3. Leaving(d, w) => w.p.state = "ENDED" \/ (w.p.state = "ACTIVE" /\ w.p.peer # d)
  BY DEF Talks
<1>4. w.p.state = "ACTIVE" /\ w.p.peer = d => w.q.state = "ACTIVE"
  BY DEF Talks
<1>5. w.q.state = "ACTIVE" =>
        (w.p.state = "ACTIVE" /\ w.p.peer = d) \/ Answers(d, w) \/ Leaving(d, w)
  BY DEF Talks
<1> QED BY <1>2, <1>3, <1>4, <1>5 DEF Talks

\* It holds after an expiry and after the end of retention.
LEMMA TimePassesTalks ==
  ASSUME OneCallee, MayHangUp \cap Leaves = {}, NEW d \in Leaves, NEW v, NEW w,
         Agrees(d, v), Talks(d, v), TimePasses(d, v, w)
  PROVE  Talks(d, w)
<1> USE PartyAssumption, ForkAssumption DEF Agrees, CallerFits, AttemptFits, Waits,
        LegFits, Answers, Leaving, TimePasses, SameCall, Concludes, Keeps, Takes, Puts,
        Noise, SameRecord, Some, Inviting
<1>2. Answers(d, w) => w.q.state = "ACTIVE" \/ (w.q.state = "ENDED" /\ w.p.state \notin Inviting)
  BY DEF Talks
<1>3. Leaving(d, w) => w.p.state = "ENDED" \/ (w.p.state = "ACTIVE" /\ w.p.peer # d)
  BY DEF Talks
<1>4. w.p.state = "ACTIVE" /\ w.p.peer = d => w.q.state = "ACTIVE"
  BY DEF Talks
<1>5. w.q.state = "ACTIVE" =>
        (w.p.state = "ACTIVE" /\ w.p.peer = d) \/ Answers(d, w) \/ Leaving(d, w)
  BY DEF Talks
<1> QED BY <1>2, <1>3, <1>4, <1>5 DEF Talks

\* It holds after a leg has connected.
LEMMA LegConnectsTalks ==
  ASSUME OneCallee, MayHangUp \cap Leaves = {}, NEW d \in Leaves, NEW v, NEW w,
         Agrees(d, v), Talks(d, v), NEW x \in Leaves, LegConnects(d, x, v, w)
  PROVE  Talks(d, w)
<1> USE PartyAssumption, ForkAssumption DEF Agrees, CallerFits, AttemptFits, Waits,
        LegFits, Answers, Leaving, LegConnects, Keeps, Some, Inviting
<1>2. Answers(d, w) => w.q.state = "ACTIVE" \/ (w.q.state = "ENDED" /\ w.p.state \notin Inviting)
  BY DEF Talks
<1>3. Leaving(d, w) => w.p.state = "ENDED" \/ (w.p.state = "ACTIVE" /\ w.p.peer # d)
  BY DEF Talks
<1>4. w.p.state = "ACTIVE" /\ w.p.peer = d => w.q.state = "ACTIVE"
  BY DEF Talks
<1>5. w.q.state = "ACTIVE" =>
        (w.p.state = "ACTIVE" /\ w.p.peer = d) \/ Answers(d, w) \/ Leaving(d, w)
  BY DEF Talks
<1> QED BY <1>2, <1>3, <1>4, <1>5 DEF Talks

-----------------------------------------------------------------------------
(* A step of a device.                                                     *)

GoodStep ==
  /\ EndpointInv' /\ ForkTypes' /\ MailSound' /\ InvitesOnce'
  /\ \A i \in Sid, d \in Leaves : Moves(d, View(i, d), View(i, d)')

\* Only session i of device c changes; c takes m and sends x about it, if they
\* are not noise.
About(c, i) ==
  /\ \A e \in Device, j \in Sid : e # c \/ j # i => sess'[e][j] = sess[e][j]
  /\ UNCHANGED <<bound, known, attempts, inbox, lapsed>>
Input(c, i, m) ==
  \/ Noise(m) /\ down' = down
  \/ m.sid = i /\ down[c] # <<>> /\ m = Head(down[c]) /\ down' = [down EXCEPT ![c] = Tail(@)]
Output(c, i, x) ==
  \/ Noise(x) /\ up' = up
  \/ /\ x \in Message /\ x.sid = i /\ Emit(c, up, <<x>>)
     /\ IF c = Caller THEN FromCaller(x) ELSE FromCallee(c, x)

\* The caller and the legs are the devices.
LEMMA CallerFacts ==
  /\ Caller \in Device /\ Leaves \subseteq Device /\ Caller \notin Leaves
  /\ \A d \in Device : d # Caller => d \in Leaves
  /\ Device \subseteq Party /\ Callee \in Party
  BY ForkAssumption, PartyAssumption DEF Leaves

\* What such a step leaves, whichever device takes it.
LEMMA DeviceFrame ==
  ASSUME ForkInv, EndpointInv', NEW c \in Device, NEW i \in Sid, NEW m, NEW x,
         About(c, i), Input(c, i, m), Output(c, i, x),
         x.type = "invite" => c = Caller /\ Of(up[c], i) = {}
  PROVE  /\ ForkTypes' /\ MailSound' /\ InvitesOnce'
         /\ \A e \in Device : e # c => up'[e] = up[e] /\ down'[e] = down[e]
         /\ Takes(Of(down[c], i), Of(down'[c], i), m)
         /\ Puts(Of(up[c], i), Of(up'[c], i), x)
         /\ \A j \in Sid : j # i => Of(down'[c], j) = Of(down[c], j) /\ Of(up'[c], j) = Of(up[c], j)
         /\ c # Caller /\ m.type = "invite" => ~Some(Of(down'[c], i), "invite")
<1>1. ForkTypes /\ MailSound /\ InvitesOnce /\ up \in [Device -> Seq(Message)]
  BY DEF ForkInv, EndpointInv, TypeOK
<1>2. UNCHANGED <<bound, known, attempts, inbox, lapsed>>
  BY DEF About
\* What c reads.
<1>3. /\ down' \in [Device -> Seq(Message)]
      /\ \A e \in Device : e # c => down'[e] = down[e]
      /\ In(down'[c]) \subseteq In(down[c])
      /\ Takes(Of(down[c], i), Of(down'[c], i), m)
      /\ \A j \in Sid : j # i => Of(down'[c], j) = Of(down[c], j)
      /\ c # Caller /\ m.type = "invite" => ~Some(Of(down'[c], i), "invite")
      /\ c # Caller => \A j \in Sid : Sole(down'[c], j)
  <2>1. down[c] \in Seq(Message) /\ down \in [Device -> Seq(Message)]
    BY <1>1 DEF ForkTypes
  <2>2. c # Caller => \A j \in Sid : Sole(down[c], j)
    BY <1>1, CallerFacts DEF InvitesOnce
  <2>3. CASE Noise(m) /\ down' = down
    BY <2>1, <2>2, <2>3 DEF Takes, Noise
  <2>4. CASE /\ m.sid = i /\ down[c] # <<>> /\ m = Head(down[c])
             /\ down' = [down EXCEPT ![c] = Tail(@)]
    <3>1. down'[c] = Tail(down[c]) /\ \A e \in Device : e # c => down'[e] = down[e]
      BY <2>1, <2>4
    <3>2. Popped(down[c], m, down'[c])
      BY <2>1, <2>4, <3>1, TailQueue
    <3>4. /\ down'[c] \in Seq(Message) /\ In(down'[c]) \subseteq In(down[c])
          /\ \A j \in Sid :
               /\ Sole(down[c], j) => Sole(down'[c], j)
               /\ IF m.sid = j THEN Takes(Of(down[c], j), Of(down'[c], j), m)
                               ELSE Of(down'[c], j) = Of(down[c], j)
          /\ m.type = "invite" /\ Sole(down[c], m.sid) => ~Some(Of(down'[c], m.sid), "invite")
      BY <3>2 DEF Popped
    <3>3. down' \in [Device -> Seq(Message)]
      BY <2>1, <2>4, <3>1, <3>2, <3>4
    <3> QED BY <2>2, <2>4, <3>1, <3>2, <3>3, <3>4
  <2> QED BY <2>3, <2>4 DEF Input
\* What c sends.
<1>4. /\ \A e \in Device : e # c => up'[e] = up[e]
      /\ \A n \in In(up'[c]) :
           n \in In(up[c]) \/ (IF c = Caller THEN FromCaller(n) ELSE FromCallee(c, n))
      /\ Puts(Of(up[c], i), Of(up'[c], i), x)
      /\ \A j \in Sid : j # i => Of(up'[c], j) = Of(up[c], j)
      /\ c = Caller => \A j \in Sid : Leads(up'[c], j)
  <2>1. up[c] \in Seq(Message)
    BY <1>1
  <2>2. c = Caller => \A j \in Sid : Leads(up[c], j)
    BY <1>1 DEF InvitesOnce
  <2>3. CASE Noise(x) /\ up' = up
    BY <2>2, <2>3 DEF Puts
  <2>4. CASE /\ x \in Message /\ x.sid = i /\ Emit(c, up, <<x>>)
             /\ IF c = Caller THEN FromCaller(x) ELSE FromCallee(c, x)
    <3>1. up'[c] = up[c] \o <<x>> /\ \A e \in Device : e # c => up'[e] = up[e]
      BY <1>1, <2>4 DEF Emit
    <3>2. /\ In(up'[c]) = In(up[c]) \cup {x}
          /\ \A j \in Sid :
               /\ Leads(up[c], j) /\ (InviteAt(<<x>>, 1, j) => Of(up[c], j) = {})
                    => Leads(up'[c], j)
               /\ IF x.sid = j THEN Puts(Of(up[c], j), Of(up'[c], j), x)
                               ELSE Of(up'[c], j) = Of(up[c], j)
      <4>1. Pushed(up[c], x, up'[c])
        BY <2>1, <2>4, <3>1, SendQueue
      <4> QED BY <4>1 DEF Pushed
    <3>3. c = Caller => \A j \in Sid : Leads(up'[c], j)
      BY <2>2, <2>4, <3>2 DEF InviteAt
    <3> QED BY <2>4, <3>1, <3>2, <3>3
  <2> QED BY <2>3, <2>4 DEF Output
<1>5. ForkTypes'
  BY <1>1, <1>2, <1>3 DEF ForkTypes
<1>6. MailSound'
  BY <1>1, <1>2, <1>3, <1>4, CallerFacts DEF MailSound
<1>7. InvitesOnce'
  BY <1>1, <1>2, <1>3, <1>4, CallerFacts DEF InvitesOnce
<1> QED BY <1>3, <1>4, <1>5, <1>6, <1>7

\* The caller's step is one of its turns.
LEMMA CallerGood ==
  ASSUME ForkInv, EndpointInv', NEW i \in Sid, NEW m, NEW x,
         About(Caller, i), Input(Caller, i, m), Output(Caller, i, x),
         x.type = "invite" => sess[Caller][i].state = "NONE",
         CallerTurns(sess[Caller][i], m, x, sess'[Caller][i])
  PROVE  GoodStep
<1>0. Caller \in Device
  BY CallerFacts
<1>1. x.type = "invite" => Of(up[Caller], i) = {}
  <2>1. PICK d : d \in Leaves
    BY DEF ForkInv, OneCallee
  <2>2. AttemptFits(View(i, d))
    BY <2>1 DEF ForkInv, Agrees
  <2> QED BY <2>2 DEF AttemptFits, View
<1>2. /\ ForkTypes' /\ MailSound' /\ InvitesOnce'
      /\ \A e \in Device : e # Caller => up'[e] = up[e] /\ down'[e] = down[e]
      /\ Takes(Of(down[Caller], i), Of(down'[Caller], i), m)
      /\ Puts(Of(up[Caller], i), Of(up'[Caller], i), x)
      /\ \A j \in Sid : j # i => /\ Of(down'[Caller], j) = Of(down[Caller], j)
                                 /\ Of(up'[Caller], j) = Of(up[Caller], j)
  BY <1>0, <1>1, DeviceFrame
<1>3. ASSUME NEW j \in Sid, NEW d \in Leaves PROVE Moves(d, View(j, d), View(j, d)')
  <2>1. /\ d \in Device /\ d # Caller /\ sess'[d][j] = sess[d][j]
        /\ attempts' = attempts /\ inbox' = inbox /\ lapsed' = lapsed
        /\ up'[d] = up[d] /\ down'[d] = down[d]
    BY <1>2, CallerFacts DEF About
  <2>2. CASE j # i
    <3>1. sess'[Caller][j] = sess[Caller][j]
      BY <1>0, <2>2 DEF About
    <3>2. View(j, d)' = View(j, d)
      BY <1>2, <2>1, <2>2, <3>1 DEF View
    <3> QED BY <3>2 DEF Moves
  <2>3. CASE j = i
    <3>1. CallerMoves(View(j, d), View(j, d)')
      BY <1>2, <2>1, <2>3 DEF CallerMoves, View, Keeps
    <3> QED BY <3>1 DEF Moves
  <2> QED BY <2>2, <2>3
<1> QED BY <1>2, <1>3 DEF GoodStep

\* A leg's step is one of its turns.
LEMMA LegGood ==
  ASSUME ForkInv, EndpointInv', NEW c \in Leaves, NEW i \in Sid, NEW m, NEW x,
         About(c, i), Input(c, i, m), Output(c, i, x), x.type # "invite",
         LegTurns(c, sess[c][i], m, x, sess'[c][i])
  PROVE  GoodStep
<1>0. c \in Device /\ c # Caller /\ Caller \in Device
  BY CallerFacts
<1>2. /\ ForkTypes' /\ MailSound' /\ InvitesOnce'
      /\ \A e \in Device : e # c => up'[e] = up[e] /\ down'[e] = down[e]
      /\ Takes(Of(down[c], i), Of(down'[c], i), m)
      /\ Puts(Of(up[c], i), Of(up'[c], i), x)
      /\ \A j \in Sid : j # i => Of(down'[c], j) = Of(down[c], j) /\ Of(up'[c], j) = Of(up[c], j)
      /\ m.type = "invite" => ~Some(Of(down'[c], i), "invite")
  BY <1>0, DeviceFrame
<1>3. ASSUME NEW j \in Sid, NEW d \in Leaves PROVE Moves(d, View(j, d), View(j, d)')
  <2>1. /\ d \in Device /\ sess'[Caller][j] = sess[Caller][j]
        /\ attempts' = attempts /\ inbox' = inbox /\ lapsed' = lapsed
        /\ up'[Caller] = up[Caller] /\ down'[Caller] = down[Caller]
    BY <1>0, <1>2, CallerFacts DEF About
  <2>2. CASE j # i \/ d # c
    <3>1. sess'[d][j] = sess[d][j]
      BY <2>1, <2>2 DEF About
    <3>2. Of(up'[d], j) = Of(up[d], j) /\ Of(down'[d], j) = Of(down[d], j)
      BY <1>2, <2>1, <2>2
    <3>3. View(j, d)' = View(j, d)
      BY <2>1, <3>1, <3>2 DEF View
    <3> QED BY <3>3 DEF Moves
  <2>3. CASE j = i /\ d = c
    <3>1. LegMoves(d, View(j, d), View(j, d)')
      BY <1>2, <2>1, <2>3 DEF LegMoves, View, Keeps
    <3> QED BY <3>1 DEF Moves
  <2> QED BY <2>2, <2>3
<1> QED BY <1>2, <1>3 DEF GoodStep

\* A step that moves every view well keeps the invariant, and what holds where
\* only the caller hangs up.
LEMMA GoodStepInv ==
  ASSUME ForkInv, GoodStep
  PROVE  /\ ForkInv'
         /\ MayHangUp \cap Leaves = {} /\ TalkInv => TalkInv'
<1>0. /\ OneCallee
      /\ \A i \in Sid, d \in Leaves : /\ Agrees(d, View(i, d))
                                      /\ Moves(d, View(i, d), View(i, d)')
  BY DEF ForkInv, GoodStep
<1>1. ASSUME NEW d \in Leaves, NEW v, NEW w, Agrees(d, v), Moves(d, v, w)
      PROVE  /\ Agrees(d, w)
             /\ MayHangUp \cap Leaves = {} /\ Talks(d, v) => Talks(d, w)
  <2>1. CASE CallerMoves(v, w)
    BY <1>0, <1>1, <2>1, CallerMovesAgree, CallerMovesTalk
  <2>2. CASE LegMoves(d, v, w)
    BY <1>0, <1>1, <2>2, LegMovesAgree, LegMovesTalk
  <2>3. CASE RelayHears(d, v, w)
    BY <1>0, <1>1, <2>3, RelayHearsAgrees, RelayHearsTalks
  <2>4. CASE RelayIsTold(d, v, w)
    BY <1>0, <1>1, <2>4, RelayIsToldAgrees, RelayIsToldTalks
  <2>5. CASE \E x \in Leaves : LegConnects(d, x, v, w)
    BY <1>0, <1>1, <2>5, LegConnectsAgrees, LegConnectsTalks
  <2>6. CASE TimePasses(d, v, w)
    BY <1>0, <1>1, <2>6, TimePassesAgrees, TimePassesTalks
  <2> QED BY <1>1, <2>1, <2>2, <2>3, <2>4, <2>5, <2>6 DEF Moves
<1>2. OneCallee'
  BY <1>0 DEF OneCallee, Leaves
<1>3. \A i \in Sid, d \in Leaves : Agrees(d, View(i, d)')
  BY <1>0, <1>1
<1>4. \A i \in Sid, d \in Leaves : Agrees(d, View(i, d))'
  BY <1>3 DEF Agrees, CallerFits, AttemptFits, Waits, LegFits
<1>5. ForkInv'
  BY <1>2, <1>4 DEF ForkInv, GoodStep
<1>6. ASSUME MayHangUp \cap Leaves = {}, TalkInv PROVE TalkInv'
  <2>1. \A i \in Sid, d \in Leaves : Talks(d, View(i, d)')
    BY <1>0, <1>1, <1>6 DEF TalkInv
  <2> QED BY <2>1 DEF TalkInv, Talks, Answers, Leaving
<1> QED BY <1>5, <1>6

-----------------------------------------------------------------------------
(* What users, policies and timers do.                                     *)

Silence == [type |-> "error", tag |-> "none"]

\* Nothing is taken, or nothing is sent.
LEMMA SilentFacts == /\ Noise(Silence) /\ Silence.type = "error"
                     /\ \A c, i : /\ down' = down => Input(c, i, Silence)
                                  /\ up' = up => Output(c, i, Silence)
  BY DEF Silence, Noise, Input, Output

\* What the caller and a leg c have on session i.
LEMMA RoleFacts ==
  ASSUME ForkInv, NEW i \in Sid
  PROVE  /\ TypeOK /\ sess[Caller][i] \in SessionRec
         /\ sess[Caller][i].state # "NONE" =>
              sess[Caller][i].role = "initiator" /\ sess[Caller][i].inviteTo = Callee
         /\ sess[Caller][i].state = "ACTIVE" =>
              /\ sess[Caller][i].peer \in Leaves
              /\ sess[Caller][i].answered = sess[Caller][i].peer
         /\ \A c \in Leaves :
              /\ sess[c][i] \in SessionRec
              /\ sess[c][i].state # "NONE" =>
                   sess[c][i].role = "responder" /\ sess[c][i].peer = Caller
              /\ Some(Of(down[c], i), "invite") => sess[c][i].state = "NONE"
<1>1. PICK d : d \in Leaves
  BY DEF ForkInv, OneCallee
<1>2. TypeOK /\ \A c \in Device : sess[c][i] \in SessionRec
  BY DEF ForkInv, EndpointInv, TypeOK
<1>3. \A c \in Leaves : CallerFits(View(i, c)) /\ LegFits(c, View(i, c))
  BY DEF ForkInv, Agrees
<1>4. \A c \in Leaves :
        /\ sess[Caller][i].state # "NONE" =>
             sess[Caller][i].role = "initiator" /\ sess[Caller][i].inviteTo = Callee
        /\ sess[Caller][i].state = "ACTIVE" =>
             /\ sess[Caller][i].peer \in Leaves
             /\ sess[Caller][i].answered = sess[Caller][i].peer
        /\ sess[c][i].state # "NONE" =>
             sess[c][i].role = "responder" /\ sess[c][i].peer = Caller
        /\ Some(Of(down[c], i), "invite") => sess[c][i].state = "NONE"
  BY <1>3 DEF CallerFits, LegFits, View
<1> QED BY <1>1, <1>2, <1>4, CallerFacts

\* A step that turns session i of c into s.
LEMMA OneTurn ==
  ASSUME ForkInv, NEW c \in Device, NEW i \in Sid, NEW s, Session(c, i, s),
         UNCHANGED <<bound, known, attempts, inbox, lapsed>>
  PROVE  About(c, i) /\ sess'[c][i] = s
  BY DEF ForkInv, EndpointInv, TypeOK, Session, About

\* end() and its callers keep who is in the session.
LEMMA FinishedTurn ==
  ASSUME NEW s \in SessionRec
  PROVE  /\ Finished(s).state = "ENDED" /\ Finished(s).role = s.role
         /\ Finished(s).inviteTo = s.inviteTo /\ Finished(s).peer = s.peer
         /\ \A q : LET r == [s EXCEPT !.cancelled = TRUE, !.queueCount = q] IN
              /\ Finished(r).state = "ENDED" /\ Finished(r).role = s.role
              /\ Finished(r).inviteTo = s.inviteTo
         /\ LET r == [s EXCEPT !.cancelled = TRUE] IN
              /\ Finished(r).state = "ENDED" /\ Finished(r).role = s.role
              /\ Finished(r).inviteTo = s.inviteTo
  BY DEF Finished, SessionRec

\* The caller places the call.
LEMMA CallGood == ASSUME ForkInv, NEW i \in Sid, Call(i) PROVE GoodStep
<1> DEFINE x == Msg("invite", Caller, Callee, i, "none", 0)
           s == NewSession("initiator", "INVITING", Callee, Callee)
<1>1. /\ sess[Caller][i].state = "NONE" /\ Session(Caller, i, s) /\ Emit(Caller, up, <<x>>)
      /\ UNCHANGED <<bound, known, attempts, inbox, lapsed, down>>
  BY DEF Call, PlaceCall, relayOnlyVars
<1>2. EndpointInv'
  BY CallerFacts, PlaceCallInv DEF Call, ForkInv, EndpointInv, TypeOK
<1>3. x \in Message /\ x.type = "invite" /\ x.sid = i /\ FromCaller(x) /\ ~Noise(x)
  BY CallerFacts, MsgType DEF MessageType, Tag, Msg, FromCaller, Noise
<1>4. s.role = "initiator" /\ s.state = "INVITING" /\ s.inviteTo = Callee
  BY DEF NewSession, Blank
<1> HIDE DEF x, s
<1>5. About(Caller, i) /\ sess'[Caller][i] = s
  BY <1>1, CallerFacts, OneTurn
<1>6. Input(Caller, i, Silence) /\ Output(Caller, i, x)
  BY <1>1, <1>3, SilentFacts DEF Output
<1>7. CallerTurns(sess[Caller][i], Silence, x, sess'[Caller][i])
  BY <1>1, <1>3, <1>4, <1>5, SilentFacts DEF CallerTurns
<1> QED BY <1>1, <1>2, <1>5, <1>6, <1>7, CallerGood

\* The user or a timer withdraws the attempt.
LEMMA WithdrawGood ==
  ASSUME ForkInv, NEW i \in Sid, NEW reason \in {"user.cancelled", "session.timeout"},
         sess[Caller][i].state \in Inviting, Withdraw(Caller, i, reason, up),
         UNCHANGED lapsed, UNCHANGED relayOnlyVars
  PROVE  GoodStep
<1> DEFINE p == sess[Caller][i]
           x == Msg("cancel", Caller, p.inviteTo, i, reason, 0)
           s == Finished([p EXCEPT !.cancelled = TRUE])
<1>0. p \in SessionRec /\ p.role = "initiator" /\ p.inviteTo = Callee
  BY RoleFacts DEF Inviting
<1>1. /\ Session(Caller, i, s) /\ Emit(Caller, up, <<x>>)
      /\ UNCHANGED <<bound, known, attempts, inbox, lapsed, down>>
  BY DEF Withdraw, End, relayOnlyVars
<1>2. EndpointInv'
  BY CallerFacts, WithdrawInv DEF CancelReason, ForkInv, EndpointInv, TypeOK
<1>3. /\ x \in Message /\ x.type = "cancel" /\ x.sid = i /\ FromCaller(x) /\ ~Noise(x)
      /\ x.tag # "session.answered-elsewhere"
  BY <1>0, CallerFacts, MsgType DEF MessageType, Tag, CancelReason, Msg, FromCaller, Noise
<1>4. s.role = "initiator" /\ s.state = "ENDED" /\ s.inviteTo = Callee
  BY <1>0, FinishedTurn
<1> HIDE DEF x, s
<1>5. About(Caller, i) /\ sess'[Caller][i] = s
  BY <1>1, CallerFacts, OneTurn
<1>6. Input(Caller, i, Silence) /\ Output(Caller, i, x)
  BY <1>1, <1>3, SilentFacts DEF Output
<1>7. CallerTurns(p, Silence, x, sess'[Caller][i])
  BY <1>1, <1>3, <1>4, <1>5, SilentFacts DEF CallerTurns
<1> QED BY <1>1, <1>2, <1>3, <1>5, <1>6, <1>7, CallerGood

\* A leg turns the call down.
LEMMA TurnDownGood ==
  ASSUME ForkInv, NEW c \in Leaves, NEW i \in Sid, NEW reason \in RejectReason,
         sess[c][i].state \in {"OFFERED", "ALERTING"}, TurnDown(c, i, reason, up),
         UNCHANGED lapsed, UNCHANGED relayOnlyVars
  PROVE  GoodStep
<1> DEFINE q == sess[c][i]
           x == Msg("reject", c, q.peer, i, reason, 0)
           s == Finished(q)
<1>0. c \in Device /\ q \in SessionRec /\ q.role = "responder" /\ q.peer = Caller
  BY RoleFacts, CallerFacts
<1>1. /\ Session(c, i, s) /\ Emit(c, up, <<x>>)
      /\ UNCHANGED <<bound, known, attempts, inbox, lapsed, down>>
  BY DEF TurnDown, End, relayOnlyVars
<1>2. EndpointInv'
  BY <1>0, TurnDownInv DEF ForkInv, EndpointInv, TypeOK
<1>3. /\ x \in Message /\ x.type = "reject" /\ x.sid = i /\ FromCallee(c, x) /\ ~Noise(x)
  BY <1>0, CallerFacts, MsgType DEF MessageType, Tag, Msg, FromCallee, Noise
<1>4. s.role = "responder" /\ s.state = "ENDED" /\ s.peer = Caller
  BY <1>0, FinishedTurn
<1> HIDE DEF x, s
<1>5. About(c, i) /\ sess'[c][i] = s
  BY <1>0, <1>1, OneTurn
<1>6. Input(c, i, Silence) /\ Output(c, i, x)
  BY <1>0, <1>1, <1>3, CallerFacts, SilentFacts DEF Output
<1>7. LegTurns(c, q, Silence, x, sess'[c][i])
  BY <1>1, <1>3, <1>4, <1>5, SilentFacts DEF LegTurns
<1> QED BY <1>1, <1>2, <1>3, <1>5, <1>6, <1>7, LegGood

\* A leg rings.
LEMMA AlertGood ==
  ASSUME ForkInv, NEW c \in Leaves, NEW i \in Sid, Alert(c, i, up), UNCHANGED relayOnlyVars
  PROVE  GoodStep
<1> DEFINE q == sess[c][i]
           x == Msg("progress", c, q.peer, i, "ringing", 0)
           s == [q EXCEPT !.state = "ALERTING"]
<1>0. /\ c \in Device /\ q \in SessionRec /\ q.state = "OFFERED" /\ q.role = "responder"
      /\ q.peer = Caller
  BY RoleFacts, CallerFacts DEF Alert
<1>1. /\ Session(c, i, s) /\ Emit(c, up, <<x>>)
      /\ UNCHANGED <<bound, known, attempts, inbox, lapsed, down>>
  BY DEF Alert, relayOnlyVars
<1>2. EndpointInv'
  BY <1>0, AlertInv DEF ForkInv, EndpointInv, TypeOK
<1>3. /\ x \in Message /\ x.type = "progress" /\ x.sid = i /\ FromCallee(c, x) /\ ~Noise(x)
  BY <1>0, CallerFacts, MsgType DEF MessageType, Tag, Status, Msg, FromCallee, Noise
<1>4. s.role = "responder" /\ s.state = "ALERTING" /\ s.peer = Caller
  BY <1>0 DEF SessionRec
<1> HIDE DEF x, s
<1>5. About(c, i) /\ sess'[c][i] = s
  BY <1>0, <1>1, OneTurn
<1>6. Input(c, i, Silence) /\ Output(c, i, x)
  BY <1>0, <1>1, <1>3, CallerFacts, SilentFacts DEF Output
<1>7. LegTurns(c, q, Silence, x, sess'[c][i])
  BY <1>0, <1>1, <1>3, <1>4, <1>5, SilentFacts DEF LegTurns
<1> QED BY <1>1, <1>2, <1>3, <1>5, <1>6, <1>7, LegGood

\* A leg answers.
LEMMA AcceptGood ==
  ASSUME ForkInv, NEW c \in Leaves, NEW i \in Sid, Accept(c, i, up), UNCHANGED relayOnlyVars
  PROVE  GoodStep
<1> DEFINE q == sess[c][i]
           x == Msg("answer", c, q.peer, i, "none", 0)
           s == [q EXCEPT !.state = "ACTIVE", !.wasActive = TRUE]
<1>0. /\ c \in Device /\ q \in SessionRec /\ q.state = "ALERTING" /\ q.role = "responder"
      /\ q.peer = Caller
  BY RoleFacts, CallerFacts DEF Accept
<1>1. /\ Session(c, i, s) /\ Emit(c, up, <<x>>)
      /\ UNCHANGED <<bound, known, attempts, inbox, lapsed, down>>
  BY DEF Accept, relayOnlyVars
<1>2. EndpointInv'
  BY <1>0, AcceptInv DEF ForkInv, EndpointInv, TypeOK
<1>3. /\ x \in Message /\ x.type = "answer" /\ x.sid = i /\ FromCallee(c, x) /\ ~Noise(x)
  BY <1>0, CallerFacts, MsgType DEF MessageType, Tag, Msg, FromCallee, Noise
<1>4. s.role = "responder" /\ s.state = "ACTIVE" /\ s.peer = Caller
  BY <1>0 DEF SessionRec
<1> HIDE DEF x, s
<1>5. About(c, i) /\ sess'[c][i] = s
  BY <1>0, <1>1, OneTurn
<1>6. Input(c, i, Silence) /\ Output(c, i, x)
  BY <1>0, <1>1, <1>3, CallerFacts, SilentFacts DEF Output
<1>7. LegTurns(c, q, Silence, x, sess'[c][i])
  BY <1>0, <1>1, <1>3, <1>4, <1>5, SilentFacts DEF LegTurns
<1> QED BY <1>1, <1>2, <1>3, <1>5, <1>6, <1>7, LegGood

\* The caller or a leg that may hang up does.
LEMMA HangupGood ==
  ASSUME ForkInv, NEW c \in MayHangUp, c \in Device, NEW i \in Sid, Hangup(c, i, up),
         UNCHANGED relayOnlyVars
  PROVE  GoodStep
<1> DEFINE q == sess[c][i]
           x == Msg("bye", c, q.peer, i, "user.hangup", 0)
           s == Finished(q)
<1>0. /\ q \in SessionRec /\ q.state = "ACTIVE" /\ q.peer \in Party
      /\ c = Caller => q.role = "initiator" /\ q.inviteTo = Callee /\ q.peer \in Leaves
      /\ c # Caller => c \in Leaves /\ q.role = "responder" /\ q.peer = Caller
  BY RoleFacts, CallerFacts DEF Hangup
<1>1. /\ Session(c, i, s) /\ Emit(c, up, <<x>>)
      /\ UNCHANGED <<bound, known, attempts, inbox, lapsed, down>>
  BY DEF Hangup, EndWithMedia, relayOnlyVars
<1>2. EndpointInv'
  BY HangupInv DEF ForkInv, EndpointInv, TypeOK
<1>3. /\ x \in Message /\ x.type = "bye" /\ x.sid = i /\ x.to = q.peer /\ ~Noise(x)
      /\ IF c = Caller THEN FromCaller(x) ELSE FromCallee(c, x)
  BY <1>0, CallerFacts, MsgType
     DEF MessageType, Tag, ByeReason, Msg, FromCaller, FromCallee, Noise
<1>4. s.role = q.role /\ s.state = "ENDED" /\ s.peer = q.peer /\ s.inviteTo = q.inviteTo
  BY <1>0, FinishedTurn
<1> HIDE DEF x, s
<1>5. About(c, i) /\ sess'[c][i] = s
  BY <1>1, OneTurn
<1>6. Input(c, i, Silence) /\ Output(c, i, x)
  BY <1>1, <1>3, SilentFacts DEF Output
<1>7. CASE c = Caller
  <2>1. CallerTurns(q, Silence, x, sess'[c][i])
    BY <1>0, <1>1, <1>3, <1>4, <1>5, <1>7, SilentFacts DEF CallerTurns
  <2> QED BY <1>2, <1>3, <1>5, <1>6, <1>7, <2>1, CallerGood
<1>8. CASE c # Caller
  <2>1. LegTurns(c, q, Silence, x, sess'[c][i])
    BY <1>0, <1>1, <1>3, <1>4, <1>5, <1>8, SilentFacts DEF LegTurns
  <2> QED BY <1>0, <1>2, <1>3, <1>5, <1>6, <1>8, <2>1, LegGood
<1> QED BY <1>7, <1>8

\* What is decided at the caller or at a leg fits the role it has.
LEMMA LocalGood ==
  ASSUME ForkInv, NEW c \in Device, NEW i \in Sid,
         DecideLeg(c, i) \/ UserStep(c, i) \/ TimerStep(c, i)
  PROVE  GoodStep
<1>0. UNCHANGED relayOnlyVars
  BY DEF DecideLeg, UserStep, TimerStep
<1>1. /\ Coherent(sess[c][i]) /\ TimersOf(c, i) \in TimersAllowed(sess[c][i].state)
      /\ sess[c][i].state \in Inviting => c = Caller
      /\ sess[c][i].state \in {"OFFERED", "ALERTING"} => c \in Leaves
  <2>1. Coherent(sess[c][i]) /\ TimersOf(c, i) \in TimersAllowed(sess[c][i].state)
    BY SessionFacts DEF ForkInv
  <2> QED BY <2>1, RoleFacts, CallerFacts DEF Coherent, Inviting
<1>2. CASE DecideLeg(c, i)
  <2>1. CASE Alert(c, i, up)
    BY <1>0, <1>1, <2>1, AlertGood DEF Alert
  <2>2. CASE AlertTooLate(c, i, up)
    BY <1>0, <1>1, <2>2, TurnDownGood DEF AlertTooLate, RejectReason
  <2>3. CASE AutoReject(c, i, up)
    BY <1>0, <1>1, <2>3, TurnDownGood DEF AutoReject, RejectReason
  <2> QED BY <1>2, <2>1, <2>2, <2>3 DEF DecideLeg
<1>3. CASE UserStep(c, i)
  <2>1. CASE Cancel(c, i, up)
    BY <1>0, <1>1, <2>1, WithdrawGood DEF Cancel
  <2>2. CASE c \in MayHangUp /\ Hangup(c, i, up)
    BY <1>0, <2>2, HangupGood
  <2>3. CASE Accept(c, i, up)
    BY <1>0, <1>1, <2>3, AcceptGood DEF Accept
  <2>4. CASE Decline(c, i, up)
    BY <1>0, <1>1, <2>4, TurnDownGood DEF Decline, RejectReason
  <2> QED BY <1>3, <2>1, <2>2, <2>3, <2>4 DEF UserStep
<1>4. CASE TimerStep(c, i)
  <2>1. PICK name \in TimerName : Fire(c, i, name, up)
    BY <1>4 DEF TimerStep
  <2>2. name \in TimersOf(c, i)
    BY <2>1 DEF Fire, TimersOf
  <2>3. \/ name # "T-Ring-Local" /\ sess[c][i].state \in Inviting
        \/ name = "T-Ring-Local" /\ sess[c][i].state = "ALERTING"
    BY <1>1, <2>2 DEF TimersAllowed, Inviting
  <2>4. CASE name # "T-Ring-Local" /\ sess[c][i].state \in Inviting
    <3>1. Withdraw(c, i, "session.timeout", up) /\ UNCHANGED lapsed
      BY <2>1, <2>4 DEF Fire
    <3> QED BY <1>0, <1>1, <2>4, <3>1, WithdrawGood
  <2>5. CASE name = "T-Ring-Local" /\ sess[c][i].state = "ALERTING"
    <3>1. TurnDown(c, i, "user.no-answer", up) /\ UNCHANGED lapsed
      BY <2>1, <2>5 DEF Fire
    <3> QED BY <1>0, <1>1, <2>5, <3>1, TurnDownGood DEF RejectReason
  <2> QED BY <2>3, <2>4, <2>5
<1> QED BY <1>2, <1>3, <1>4

-----------------------------------------------------------------------------
(* What devices receive.                                                   *)

\* Nothing but noise was received, and nothing but noise sent.
LEMMA NoiseGood ==
  ASSUME ForkInv, EndpointInv', NEW c \in Device, NEW i \in Sid, NEW m, NEW x,
         Input(c, i, m), Output(c, i, x), Noise(m), Noise(x),
         UNCHANGED <<sess, bound, known, attempts, inbox, lapsed>>
  PROVE  GoodStep
<1>1. About(c, i) /\ x.type # "invite"
  BY DEF About, Noise
<1>2. /\ ForkTypes' /\ MailSound' /\ InvitesOnce'
      /\ \A e \in Device : e # c => up'[e] = up[e] /\ down'[e] = down[e]
      /\ Takes(Of(down[c], i), Of(down'[c], i), m)
      /\ Puts(Of(up[c], i), Of(up'[c], i), x)
      /\ \A j \in Sid : j # i => Of(down'[c], j) = Of(down[c], j) /\ Of(up'[c], j) = Of(up[c], j)
  BY <1>1, DeviceFrame
<1>3. \A e \in Device, j \in Sid : Of(down'[e], j) = Of(down[e], j) /\ Of(up'[e], j) = Of(up[e], j)
  BY <1>2 DEF Takes, Puts
<1>4. ASSUME NEW j \in Sid, NEW d \in Leaves PROVE View(j, d)' = View(j, d)
  BY <1>3, CallerFacts DEF View
<1> QED BY <1>2, <1>4 DEF GoodStep, Moves

\* What is known of the message a device takes.
LEMMA ReceiveFacts ==
  ASSUME ForkInv, NEW c \in Device, Receive(c), NEW m, m = Head(down[c])
  PROVE  /\ m \in Message /\ m.sid \in Sid /\ EndpointInv' /\ Recv(c, m, up)
         /\ Input(c, m.sid, m) /\ UNCHANGED <<bound, known, attempts, inbox>>
         /\ up \in [Device -> Seq(Message)]
         /\ c = Caller => ToCaller(m) /\ (sess[c][m.sid].state = "NONE" => Noise(m))
         /\ c # Caller => ToCallee(c, m) /\ (m.type = "invite" => sess[c][m.sid].state = "NONE")
<1>1. /\ ForkTypes /\ MailSound /\ EndpointInv /\ up \in [Device -> Seq(Message)]
      /\ down[c] # <<>> /\ Recv(c, m, up) /\ down' = [down EXCEPT ![c] = Tail(@)]
      /\ UNCHANGED <<bound, known, attempts, inbox>>
  BY DEF ForkInv, EndpointInv, TypeOK, Receive
<1>2. m \in In(down[c]) /\ m \in Message /\ m.sid \in Sid
  <2>1. Popped(down[c], m, Tail(down[c]))
    BY <1>1, TailQueue DEF ForkTypes
  <2> QED BY <2>1 DEF Popped, Message
<1>3. ~Noise(m) => m \in Of(down[c], m.sid)
  BY <1>2 DEF Of
<1>4. c = Caller => ToCaller(m) /\ (sess[c][m.sid].state = "NONE" => Noise(m))
  <2>1. PICK d : d \in Leaves
    BY DEF ForkInv, OneCallee
  <2>2. AttemptFits(View(m.sid, d))
    BY <1>2, <2>1 DEF ForkInv, Agrees
  <2> QED BY <1>1, <1>2, <1>3, <2>2 DEF MailSound, AttemptFits, View
<1>5. c # Caller => ToCallee(c, m) /\ (m.type = "invite" => sess[c][m.sid].state = "NONE")
  BY <1>1, <1>2, <1>3, CallerFacts, RoleFacts DEF MailSound, Some, Noise
<1>6. (m.type = "invite" => sess[c][m.sid].state = "NONE") /\ m.type # "update"
  BY <1>4, <1>5 DEF ToCaller, ToCallee, FromCaller, Noise
<1>7. EndpointInv'
  BY <1>1, <1>2, <1>6, RecvInv
<1>8. Input(c, m.sid, m)
  BY <1>1 DEF Input
<1> QED BY <1>1, <1>2, <1>4, <1>5, <1>7, <1>8

\* A device may answer with an error; nobody minds.
LEMMA ErrorSent ==
  ASSUME NEW c \in Device, NEW m \in Message,
         NEW reason \in {"session.unknown-session", "session.invalid-state"},
         Emit(c, up, <<ErrorReply(c, m, reason)>>)
  PROVE  \E x : Noise(x) /\ Output(c, m.sid, x)
<1> DEFINE x == ErrorReply(c, m, reason)
<1>1. x \in Message /\ x.sid = m.sid /\ Noise(x)
  BY MsgType, PartyAssumption
     DEF ErrorReply, Message, MessageType, Tag, ErrorReason, Msg, Noise
<1> HIDE DEF x
<1>2. Output(c, m.sid, x)
  BY <1>1 DEF x, Output, FromCaller, FromCallee
<1> QED BY <1>1, <1>2

\* A device that replies with nothing leaves its connection as it is.
LEMMA NothingSent ==
  ASSUME ForkInv, NEW c \in Device, Emit(c, up, <<>>) PROVE up' = up
<1>1. up \in [Device -> Seq(Message)]
  BY DEF ForkInv, EndpointInv, TypeOK
<1>2. up[c] \o <<>> = up[c]
  BY <1>1
<1> QED BY <1>1, <1>2 DEF Emit

\* A message the device is not in the state for.
LEMMA InvalidTurn ==
  ASSUME ForkInv, NEW c \in Device, NEW m \in Message, NEW s, InvalidState(c, m, s, up),
         UNCHANGED <<bound, known, attempts, inbox>>
  PROVE  /\ About(c, m.sid) /\ sess'[c][m.sid] = s
         /\ \E x : Noise(x) /\ Output(c, m.sid, x)
<1>1. m.sid \in Sid /\ Session(c, m.sid, s) /\ UNCHANGED lapsed
  BY DEF InvalidState, Message
<1>2. Emit(c, up, <<ErrorReply(c, m, "session.invalid-state")>>)
  BY DEF InvalidState
<1>3. \E x : Noise(x) /\ Output(c, m.sid, x)
  BY <1>2, ErrorSent
<1> QED BY <1>1, <1>3, OneTurn

\* Progress on the caller's attempt.
LEMMA ProgressGood ==
  ASSUME ForkInv, Receive(Caller), NEW m, m = Head(down[Caller]), m.type = "progress",
         sess[Caller][m.sid].state \notin {"NONE", "ENDED"},
         RecvProgress(Caller, m, sess[Caller][m.sid], up)
  PROVE  GoodStep
<1> DEFINE i == m.sid
           p == sess[Caller][i]
<1>0. /\ Caller \in Device /\ m \in Message /\ i \in Sid /\ EndpointInv' /\ Input(Caller, i, m)
      /\ UNCHANGED <<bound, known, attempts, inbox>>
  BY CallerFacts, ReceiveFacts
<1>1. p \in SessionRec /\ p.role = "initiator" /\ p.inviteTo = Callee
  BY <1>0, RoleFacts
<1> HIDE DEF i
<1>2. CASE p.state \notin Inviting
  <2>1. InvalidState(Caller, m, p, up)
    BY <1>2 DEF RecvProgress, i
  <2>2. /\ About(Caller, i) /\ sess'[Caller][i] = p
        /\ \E x : Noise(x) /\ Output(Caller, i, x)
    BY <1>0, <2>1, InvalidTurn DEF i
  <2>3. PICK x : Noise(x) /\ Output(Caller, i, x)
    BY <2>2
  <2>4. CallerTurns(p, m, x, sess'[Caller][i]) /\ x.type # "invite"
    BY <1>1, <1>2, <2>2, <2>3 DEF CallerTurns, SameRecord, Noise
  <2> QED BY <1>0, <2>2, <2>3, <2>4, CallerGood
<1>3. ASSUME NEW n, NEW ts, p.state \in Inviting, Proceed(Caller, i, p, n, ts, up) PROVE GoodStep
  <2> DEFINE s == [p EXCEPT !.state = "PROCEEDING", !.queueCount = n]
  <2>1. s.state = "PROCEEDING" /\ s.role = "initiator" /\ s.inviteTo = Callee
    BY <1>1 DEF SessionRec
  <2>2. Session(Caller, i, s) /\ up' = up /\ UNCHANGED lapsed
    BY <1>3 DEF Proceed
  <2> HIDE DEF s
  <2>3. About(Caller, i) /\ sess'[Caller][i] = s
    BY <1>0, <2>2, OneTurn
  <2>4. Output(Caller, i, Silence)
    BY <2>2, SilentFacts
  <2>5. CallerTurns(p, m, Silence, sess'[Caller][i])
    BY <1>3, <2>1, <2>3, SilentFacts DEF CallerTurns, Inviting
  <2> QED BY <1>0, <2>3, <2>4, <2>5, SilentFacts, CallerGood
<1>4. CASE p.state \in Inviting /\ RecvQueuedTooOften(Caller, i, p, up)
  <2> DEFINE s == Finished([p EXCEPT !.cancelled = TRUE, !.queueCount = p.queueCount + 1])
             x == Msg("cancel", Caller, Callee, i, "session.timeout", 0)
  <2>1. s.state = "ENDED" /\ s.role = "initiator" /\ s.inviteTo = Callee
    BY <1>1, FinishedTurn
  <2>2. Session(Caller, i, s) /\ Emit(Caller, up, <<x>>) /\ UNCHANGED lapsed
    BY <1>1, <1>4 DEF RecvQueuedTooOften, End
  <2>3. /\ x \in Message /\ x.type = "cancel" /\ x.sid = i /\ FromCaller(x)
        /\ x.tag # "session.answered-elsewhere"
    BY <1>0, CallerFacts, MsgType DEF MessageType, Tag, CancelReason, Msg, FromCaller
  <2> HIDE DEF s, x
  <2>4. About(Caller, i) /\ sess'[Caller][i] = s
    BY <1>0, <2>2, OneTurn
  <2>5. Output(Caller, i, x)
    BY <2>2, <2>3 DEF Output
  <2>6. CallerTurns(p, m, x, sess'[Caller][i])
    BY <1>4, <2>1, <2>3, <2>4 DEF CallerTurns
  <2> QED BY <1>0, <2>3, <2>4, <2>5, <2>6, CallerGood
<1> QED BY <1>2, <1>3, <1>4 DEF RecvProgress, RecvRinging, RecvQueued, RecvTrying, i

\* An answer to the caller's live session: the first, or one of another leg.
LEMMA AnswerGood ==
  ASSUME ForkInv, Receive(Caller), NEW m, m = Head(down[Caller]), m.type = "answer",
         sess[Caller][m.sid].state \notin {"NONE", "ENDED"},
         RecvAnswer(Caller, m, sess[Caller][m.sid], up)
  PROVE  GoodStep
<1> DEFINE i == m.sid
           p == sess[Caller][i]
<1>0. /\ Caller \in Device /\ m \in Message /\ i \in Sid /\ EndpointInv' /\ Input(Caller, i, m)
      /\ UNCHANGED <<bound, known, attempts, inbox>> /\ m.upd = 0 /\ m.from \in Leaves
  BY CallerFacts, ReceiveFacts DEF ToCaller
<1>1. p \in SessionRec /\ p.role = "initiator" /\ p.inviteTo = Callee
  BY <1>0, RoleFacts
<1>2. p.state \in Inviting \/ p.state = "ACTIVE"
  <2>1. Coherent(p)
    BY <1>0, SessionFacts DEF ForkInv
  <2> QED BY <1>1, <2>1 DEF SessionRec, Coherent, Inviting
<1> HIDE DEF i
<1>3. CASE p.state \in Inviting
  <2> DEFINE s == [p EXCEPT !.state = "ACTIVE", !.wasActive = TRUE,
                            !.answered = m.from, !.peer = m.from]
             x == Msg("cancel", Caller, Callee, i, "session.answered-elsewhere", 0)
  <2>0. RecvFirstAnswer(Caller, m, p, up) /\ m.from # Callee
    <3>1. p.state # "ACTIVE"
      BY <1>3 DEF Inviting
    <3>2. RecvFirstAnswer(Caller, m, p, up)
      BY <1>0, <1>3, <3>1 DEF RecvAnswer, i
    <3> QED BY <1>0, <3>2, CallerFacts DEF ForkInv, OneCallee
  <2>1. /\ s.state = "ACTIVE" /\ s.role = "initiator" /\ s.inviteTo = Callee
        /\ s.peer = m.from /\ s.answered = m.from
    BY <1>1 DEF SessionRec
  <2>2. Session(Caller, i, s) /\ Emit(Caller, up, <<x>>) /\ UNCHANGED lapsed
    BY <1>1, <2>0 DEF RecvFirstAnswer, i
  <2>3. /\ x \in Message /\ x.type = "cancel" /\ x.sid = i /\ FromCaller(x)
        /\ x.tag = "session.answered-elsewhere"
    BY <1>0, CallerFacts, MsgType DEF MessageType, Tag, CancelReason, Msg, FromCaller
  <2> HIDE DEF s, x
  <2>4. About(Caller, i) /\ sess'[Caller][i] = s
    BY <1>0, <2>2, OneTurn
  <2>5. Output(Caller, i, x)
    BY <2>2, <2>3 DEF Output
  <2>6. CallerTurns(p, m, x, sess'[Caller][i])
    BY <1>0, <1>3, <2>1, <2>3, <2>4 DEF CallerTurns
  <2> QED BY <1>0, <2>3, <2>4, <2>5, <2>6, CallerGood
<1>4. CASE p.state = "ACTIVE" /\ m.from # p.answered
  <2> DEFINE x == Msg("bye", Caller, m.from, i, "session.already-answered", 0)
  <2>0. RecvLaterAnswer(Caller, m, p, up)
    BY <1>0, <1>1, <1>4 DEF RecvAnswer, Inviting, i
  <2>2. Session(Caller, i, p) /\ Emit(Caller, up, <<x>>) /\ UNCHANGED lapsed
    BY <2>0 DEF RecvLaterAnswer, i
  <2>3. x \in Message /\ x.type = "bye" /\ x.sid = i /\ FromCaller(x) /\ x.to = m.from
    BY <1>0, CallerFacts, MsgType DEF MessageType, Tag, ByeReason, Msg, FromCaller
  <2> HIDE DEF x
  <2>4. About(Caller, i) /\ sess'[Caller][i] = p
    BY <1>0, <2>2, OneTurn
  <2>5. Output(Caller, i, x)
    BY <2>2, <2>3 DEF Output
  <2>6. CallerTurns(p, m, x, sess'[Caller][i])
    BY <1>1, <1>4, <2>3, <2>4 DEF CallerTurns, SameRecord
  <2> QED BY <1>0, <2>3, <2>4, <2>5, <2>6, CallerGood
<1>5. CASE p.state = "ACTIVE" /\ m.from = p.answered
  <2>1. InvalidState(Caller, m, p, up)
    BY <1>0, <1>5 DEF RecvAnswer, Inviting, i
  <2>2. /\ About(Caller, i) /\ sess'[Caller][i] = p
        /\ \E x : Noise(x) /\ Output(Caller, i, x)
    BY <1>0, <2>1, InvalidTurn DEF i
  <2>3. PICK x : Noise(x) /\ Output(Caller, i, x)
    BY <2>2
  <2>4. CallerTurns(p, m, x, sess'[Caller][i]) /\ x.type # "invite"
    BY <1>1, <1>5, <2>2, <2>3 DEF CallerTurns, SameRecord, Noise, Inviting
  <2> QED BY <1>0, <2>2, <2>3, <2>4, CallerGood
<1> QED BY <1>2, <1>3, <1>4, <1>5

\* Whatever the caller receives.
LEMMA CallerReceives == ASSUME ForkInv, Receive(Caller) PROVE GoodStep
<1> DEFINE m == Head(down[Caller])
           i == m.sid
           p == sess[Caller][i]
<1>0. /\ Caller \in Device /\ m \in Message /\ i \in Sid /\ EndpointInv' /\ Input(Caller, i, m)
      /\ UNCHANGED <<bound, known, attempts, inbox>> /\ Recv(Caller, m, up)
      /\ ToCaller(m) /\ (p.state = "NONE" => Noise(m))
  BY CallerFacts, ReceiveFacts
<1>1. /\ p \in SessionRec
      /\ p.state # "NONE" => p.role = "initiator" /\ p.inviteTo = Callee
  BY <1>0, RoleFacts
<1> HIDE DEF m, i, p
<1>2. ~RecvInvite(Caller, m, up) /\ ~RecvUnknownSession(Caller, m, up)
  BY <1>0 DEF RecvInvite, RecvUnknownSession, ToCaller, Noise, p, i
<1>3. CASE RecvError(Caller, m, up)
  <2>1. Output(Caller, i, Silence) /\ UNCHANGED lapsed /\ m.type = "error"
    BY <1>3, SilentFacts DEF RecvError, End
  <2>2. CASE m.tag = "transport.no-response" /\ p.state \in Inviting
    <3> DEFINE s == Finished(p)
    <3>1. s.state = "ENDED" /\ s.role = p.role /\ s.inviteTo = p.inviteTo
      BY <1>1, FinishedTurn
    <3>2. Session(Caller, i, s)
      BY <1>3, <2>2 DEF RecvError, End, p, i
    <3> HIDE DEF s
    <3>3. About(Caller, i) /\ sess'[Caller][i] = s
      BY <1>0, <2>1, <3>2, OneTurn
    <3>4. ~Noise(m) /\ p.state # "NONE"
      BY <2>2 DEF Noise, Inviting
    <3>5. CallerTurns(p, m, Silence, sess'[Caller][i])
      BY <1>1, <2>1, <2>2, <3>1, <3>3, <3>4, SilentFacts DEF CallerTurns
    <3> QED BY <1>0, <2>1, <3>3, <3>5, SilentFacts, CallerGood DEF p
  <2>3. CASE Noise(m)
    <3>1. UNCHANGED sess
      BY <1>3, <2>3 DEF RecvError, Noise
    <3> QED BY <1>0, <2>1, <2>3, <3>1, SilentFacts, NoiseGood
  <2>4. CASE ~Noise(m) /\ p.state \notin Inviting
    <3>1. UNCHANGED sess
      BY <1>3, <2>4 DEF RecvError, p, i
    <3>2. About(Caller, i) /\ sess'[Caller][i] = p
      BY <1>0, <2>1, <3>1 DEF About, p
    <3>3. CallerTurns(p, m, Silence, sess'[Caller][i])
      BY <1>0, <1>1, <2>1, <2>4, <3>2, SilentFacts DEF CallerTurns, SameRecord
    <3> QED BY <1>0, <2>1, <3>2, <3>3, SilentFacts, CallerGood DEF p
  <2> QED BY <2>1, <2>2, <2>3, <2>4 DEF Noise
<1>4. CASE RecvEnded(Caller, m, up)
  <2>1. /\ p.state = "ENDED" /\ UNCHANGED <<sess, lapsed>> /\ m.type \notin {"invite", "error"}
        /\ Emit(Caller, up, IF m.type = "answer" /\ p.role = "initiator" /\ m.upd = 0
                           THEN <<Msg("bye", Caller, m.from, i, LateAnswerReason(p), 0)>>
                           ELSE <<>>)
    BY <1>4 DEF RecvEnded, p, i
  <2>2. About(Caller, i) /\ sess'[Caller][i] = p
    BY <1>0, <2>1 DEF About, p
  <2>3. CASE m.type = "answer"
    <3> DEFINE x == Msg("bye", Caller, m.from, i, LateAnswerReason(p), 0)
    <3>1. Emit(Caller, up, <<x>>) /\ m.from \in Leaves
      BY <1>0, <1>1, <2>1, <2>3 DEF ToCaller
    <3>2. LateAnswerReason(p)
            \in {"session.cancelled", "session.already-answered", "session.failed"}
      BY DEF LateAnswerReason
    <3>3. x \in Message /\ x.type = "bye" /\ x.sid = i /\ x.to = m.from /\ FromCaller(x)
      <4>1. LateAnswerReason(p) \in ByeReason
        BY <3>2 DEF ByeReason
      <4> QED BY <1>0, <3>1, <4>1, CallerFacts, MsgType DEF MessageType, Tag, Msg, FromCaller
    <3> HIDE DEF x
    <3>4. Output(Caller, i, x)
      BY <3>1, <3>3 DEF Output
    <3>5. CallerTurns(p, m, x, sess'[Caller][i])
      BY <1>1, <2>1, <2>2, <2>3, <3>3 DEF CallerTurns, SameRecord
    <3> QED BY <1>0, <2>2, <3>3, <3>4, <3>5, CallerGood DEF p
  <2>4. CASE m.type # "answer"
    <3>1. Output(Caller, i, Silence)
      BY <1>0, <2>1, <2>4, NothingSent, SilentFacts
    <3>2. CallerTurns(p, m, Silence, sess'[Caller][i])
      BY <1>1, <2>1, <2>2, <2>4, SilentFacts DEF CallerTurns, SameRecord, Inviting
    <3> QED BY <1>0, <2>2, <3>1, <3>2, SilentFacts, CallerGood DEF p
  <2> QED BY <2>3, <2>4
<1>5. CASE RecvLive(Caller, m, up)
  <2>1. /\ p.state \notin {"NONE", "ENDED"}
        /\ \/ m.type = "progress" /\ RecvProgress(Caller, m, p, up)
           \/ m.type = "answer" /\ RecvAnswer(Caller, m, p, up)
           \/ m.type = "reject" /\ RecvReject(Caller, m, p, up)
           \/ m.type = "bye" /\ RecvBye(Caller, m, p, up)
    <3>1. /\ Noted(Caller, m) = p /\ p.state \notin {"NONE", "ENDED"}
          /\ m.type \notin {"cancel", "update", "info"}
      BY <1>0, <1>1, <1>5 DEF RecvLive, Noted, ToCaller, p, i
    <3> QED BY <1>5, <3>1 DEF RecvLive
  <2>2. p.state \in Inviting \/ p.state = "ACTIVE"
    <3>1. Coherent(p)
      BY <1>0, SessionFacts DEF ForkInv, p
    <3> QED BY <1>1, <2>1, <3>1 DEF SessionRec, Coherent, Inviting
  <2>3. CASE m.type = "progress" /\ RecvProgress(Caller, m, p, up)
    BY <2>1, <2>3, ProgressGood DEF m, i, p
  <2>4. CASE m.type = "answer" /\ RecvAnswer(Caller, m, p, up)
    BY <2>1, <2>4, AnswerGood DEF m, i, p
  <2>5. CASE /\ InvalidState(Caller, m, p, up)
             /\ \/ m.type = "reject" /\ p.state = "ACTIVE"
                \/ m.type = "bye" /\ p.state \in Inviting
    <3>1. /\ About(Caller, i) /\ sess'[Caller][i] = p
          /\ \E x : Noise(x) /\ Output(Caller, i, x)
      BY <1>0, <2>5, InvalidTurn DEF i
    <3>2. PICK x : Noise(x) /\ Output(Caller, i, x)
      BY <3>1
    <3>3. CallerTurns(p, m, x, sess'[Caller][i]) /\ x.type # "invite"
      BY <1>1, <2>1, <2>5, <3>1, <3>2 DEF CallerTurns, SameRecord, Noise, Inviting
    <3> QED BY <1>0, <3>1, <3>2, <3>3, CallerGood DEF p
  <2>6. CASE /\ End(Caller, i, p) \/ EndWithMedia(Caller, i, p)
             /\ up' = up /\ UNCHANGED lapsed
             /\ \/ m.type = "reject" /\ p.state \in Inviting
                \/ m.type = "bye" /\ p.state = "ACTIVE"
    <3> DEFINE s == Finished(p)
    <3>1. s.state = "ENDED" /\ s.role = p.role /\ s.inviteTo = p.inviteTo
      BY <1>1, FinishedTurn
    <3>2. Session(Caller, i, s) /\ Output(Caller, i, Silence)
      BY <2>6, SilentFacts DEF End, EndWithMedia
    <3> HIDE DEF s
    <3>3. About(Caller, i) /\ sess'[Caller][i] = s
      BY <1>0, <2>6, <3>2, OneTurn
    <3>4. m.type = "bye" => m.from \in MayHangUp \cap Leaves
      BY <1>0 DEF ToCaller
    <3>5. CallerTurns(p, m, Silence, sess'[Caller][i])
      BY <1>1, <2>1, <2>6, <3>1, <3>3, <3>4, SilentFacts DEF CallerTurns, Noise
    <3> QED BY <1>0, <3>2, <3>3, <3>5, SilentFacts, CallerGood DEF p
  <2>7. CASE m.type = "reject" /\ RecvReject(Caller, m, p, up)
    <3>1. m.upd = 0
      BY <1>0, <2>7 DEF ToCaller
    <3>2. CASE p.state \in Inviting
      <4>1. p.state # "ACTIVE"
        BY <3>2 DEF Inviting
      <4> QED BY <2>6, <2>7, <3>1, <3>2, <4>1 DEF RecvReject, i
    <3>3. CASE p.state = "ACTIVE"
      <4>1. p.state \notin Inviting
        BY <3>3 DEF Inviting
      <4> QED BY <2>5, <2>7, <3>1, <3>3, <4>1 DEF RecvReject
    <3> QED BY <2>2, <3>2, <3>3
  <2>8. CASE m.type = "bye" /\ RecvBye(Caller, m, p, up)
    BY <2>2, <2>5, <2>6, <2>8 DEF RecvBye, i
  <2> QED BY <2>1, <2>3, <2>4, <2>7, <2>8
<1> QED BY <1>0, <1>2, <1>3, <1>4, <1>5 DEF Recv

\* A leg hears of the call: it is offered, or refused without first contact.
LEMMA LegInvited ==
  ASSUME ForkInv, NEW c \in Leaves, Receive(c), NEW m, m = Head(down[c]), RecvInvite(c, m, up)
  PROVE  GoodStep
<1> DEFINE i == m.sid
           q == sess[c][i]
<1>0. /\ c \in Device /\ c # Caller /\ m \in Message /\ i \in Sid /\ EndpointInv' /\ Input(c, i, m)
      /\ UNCHANGED <<bound, known, attempts, inbox>> /\ ToCallee(c, m)
      /\ m.type = "invite" /\ q.state = "NONE"
  BY CallerFacts, ReceiveFacts DEF RecvInvite
<1>1. m.from = Caller /\ m.to \in Party /\ ~Noise(m)
  BY <1>0 DEF ToCallee, FromCaller, Noise, Message
<1>2. Rivals(c, m) = {}
  <2>1. \A j \in Sid : sess[c][j].state # "NONE" => sess[c][j].role = "responder"
    BY RoleFacts
  <2> QED BY <2>1 DEF Rivals, Inviting
<1> HIDE DEF i, q
<1>3. RecvInviteFirstContact(c, m, up) \/ RecvInviteOffered(c, m, up)
  BY <1>0, <1>2 DEF RecvInvite, RecvInviteHeld, RecvInviteWeWin, RecvInviteWeLose, RecvInviteEqual,
                    i, q
<1>4. CASE RecvInviteFirstContact(c, m, up)
  <2> DEFINE x == RejectInvite(c, m, "policy.first-contact-required")
             s == RefusedInvite(m)
  <2>1. s.role = "responder" /\ s.state = "ENDED" /\ s.peer = Caller
    BY <1>1 DEF RefusedInvite, Blank
  <2>2. Session(c, i, s) /\ Emit(c, up, <<x>>) /\ UNCHANGED lapsed
    BY <1>4 DEF RecvInviteFirstContact, i
  <2>3. x \in Message /\ x.type = "reject" /\ x.sid = i /\ FromCallee(c, x)
    BY <1>0, <1>1, CallerFacts, MsgType
       DEF RejectInvite, MessageType, Tag, RejectReason, Msg, FromCallee, i
  <2> HIDE DEF x, s
  <2>4. About(c, i) /\ sess'[c][i] = s
    BY <1>0, <2>2, OneTurn
  <2>5. Output(c, i, x)
    BY <1>0, <2>2, <2>3 DEF Output
  <2>6. LegTurns(c, q, m, x, sess'[c][i])
    BY <1>0, <2>1, <2>3, <2>4 DEF LegTurns
  <2> QED BY <1>0, <2>3, <2>4, <2>5, <2>6, LegGood DEF q
<1>5. CASE RecvInviteOffered(c, m, up)
  <2> DEFINE s == NewSession("responder", "OFFERED", m.from, m.to)
  <2>1. s.role = "responder" /\ s.state = "OFFERED" /\ s.peer = Caller
    BY <1>1 DEF NewSession, Blank
  <2>2. Session(c, i, s) /\ up' = up /\ UNCHANGED lapsed
    BY <1>5 DEF RecvInviteOffered, i
  <2> HIDE DEF s
  <2>3. About(c, i) /\ sess'[c][i] = s
    BY <1>0, <2>2, OneTurn
  <2>4. LegTurns(c, q, m, Silence, sess'[c][i])
    BY <1>0, <2>1, <2>3, SilentFacts DEF LegTurns
  <2> QED BY <1>0, <2>2, <2>3, <2>4, SilentFacts, LegGood DEF q
<1> QED BY <1>3, <1>4, <1>5

\* Whatever a leg receives.
LEMMA LegReceives == ASSUME ForkInv, NEW c \in Leaves, Receive(c) PROVE GoodStep
<1> DEFINE m == Head(down[c])
           i == m.sid
           q == sess[c][i]
<1>0. /\ c \in Device /\ c # Caller /\ m \in Message /\ i \in Sid /\ EndpointInv' /\ Input(c, i, m)
      /\ UNCHANGED <<bound, known, attempts, inbox>> /\ Recv(c, m, up) /\ ToCallee(c, m)
  BY CallerFacts, ReceiveFacts
<1>1. q \in SessionRec /\ (q.state # "NONE" => q.role = "responder" /\ q.peer = Caller)
  BY <1>0, RoleFacts
<1> HIDE DEF m, i, q
<1>2. ~Noise(m) => m.from = Caller /\ m.type \in {"invite", "cancel", "bye"}
                   /\ (m.type = "bye" => m.to = c)
  BY <1>0 DEF ToCallee, FromCaller, ForkInv, OneCallee, Leaves
<1>3. CASE RecvInvite(c, m, up)
  BY <1>3, LegInvited DEF m
<1>4. CASE RecvError(c, m, up)
  <2>1. Noise(m) /\ UNCHANGED <<sess, lapsed>> /\ up' = up
    BY <1>2, <1>4 DEF RecvError, Noise
  <2> QED BY <1>0, <2>1, SilentFacts, NoiseGood
\* It takes a message and does not change its state.
<1>5. ASSUME About(c, i), NEW x, Output(c, i, x), Noise(x), m.type \notin {"invite", "error"},
             sess'[c][i].state = q.state, sess'[c][i].role = q.role, sess'[c][i].peer = q.peer,
             m.type = "cancel" => q.state \notin {"OFFERED", "ALERTING"},
             m.type = "bye" => q.state # "ACTIVE"
      PROVE  GoodStep
  <2>1. m.type \in {"cancel", "bye"} /\ x.type # "invite"
    BY <1>2, <1>5 DEF Noise
  <2>2. LegTurns(c, q, m, x, sess'[c][i])
    BY <1>1, <1>5, <2>1 DEF LegTurns
  <2> QED BY <1>0, <1>5, <2>1, <2>2, LegGood DEF q
<1>6. CASE RecvUnknownSession(c, m, up)
  <2>1. /\ q.state = "NONE" /\ UNCHANGED <<sess, lapsed>> /\ m.type \notin {"invite", "error"}
        /\ Emit(c, up, <<ErrorReply(c, m, "session.unknown-session")>>)
    BY <1>6 DEF RecvUnknownSession, q, i
  <2>2. PICK x : Noise(x) /\ Output(c, i, x)
    BY <1>0, <2>1, ErrorSent DEF i
  <2>3. About(c, i) /\ sess'[c][i] = q
    BY <1>0, <2>1 DEF About, q
  <2> QED BY <1>5, <2>1, <2>2, <2>3
<1>7. CASE RecvEnded(c, m, up)
  <2>1. /\ q.state = "ENDED" /\ UNCHANGED <<sess, lapsed>> /\ m.type \notin {"invite", "error"}
        /\ Emit(c, up, IF m.type = "answer" /\ q.role = "initiator" /\ m.upd = 0
                       THEN <<Msg("bye", c, m.from, i, LateAnswerReason(q), 0)>>
                       ELSE <<>>)
    BY <1>7 DEF RecvEnded, q, i
  <2>2. Output(c, i, Silence)
    BY <1>0, <1>1, <2>1, NothingSent, SilentFacts
  <2>3. About(c, i) /\ sess'[c][i] = q
    BY <1>0, <2>1 DEF About, q
  <2> QED BY <1>5, <2>1, <2>2, <2>3, SilentFacts
<1>8. CASE RecvLive(c, m, up)
  <2> DEFINE s == Noted(c, m)
  <2>1. s \in SessionRec /\ s.state = q.state /\ s.role = q.role /\ s.peer = q.peer
    <3> DEFINE r == [q EXCEPT !.postAnswerSeen = TRUE]
    <3>1. r \in SessionRec /\ r.state = q.state /\ r.role = q.role /\ r.peer = q.peer
      BY <1>1 DEF SessionRec
    <3>2. s = q \/ s = r
      BY DEF Noted, q, i
    <3> HIDE DEF r
    <3> QED BY <1>1, <3>1, <3>2
  <2>2. /\ q.state \notin {"NONE", "ENDED"} /\ m.type \notin {"invite", "error"}
        /\ \/ m.type = "cancel" /\ RecvCancel(c, m, s, up)
           \/ m.type = "bye" /\ RecvBye(c, m, s, up)
    <3>1. s.state \notin {"NONE", "ENDED"} /\ m.type \notin {"invite", "error"}
      BY <1>8 DEF RecvLive
    <3>2. m.type \in {"cancel", "bye"}
      BY <1>2, <3>1 DEF Noise
    <3> QED BY <1>8, <2>1, <3>1, <3>2 DEF RecvLive
  <2> HIDE DEF s
  <2>3. CASE /\ InvalidState(c, m, s, up)
             /\ m.type = "cancel" => q.state \notin {"OFFERED", "ALERTING"}
             /\ m.type = "bye" => q.state # "ACTIVE"
    <3>1. /\ About(c, i) /\ sess'[c][i] = s
          /\ \E x : Noise(x) /\ Output(c, i, x)
      BY <1>0, <2>3, InvalidTurn DEF i
    <3> QED BY <1>5, <2>1, <2>2, <2>3, <3>1
  <2>4. CASE /\ End(c, i, s) \/ EndWithMedia(c, i, s)
             /\ up' = up /\ UNCHANGED lapsed
             /\ \/ m.type = "bye" /\ q.state = "ACTIVE"
                \/ m.type = "cancel" /\ q.state \in {"OFFERED", "ALERTING"}
                \/ m.type = "cancel" /\ q.state = "ACTIVE" /\ m.tag # "session.answered-elsewhere"
    <3> DEFINE r == Finished(s)
    <3>1. r.state = "ENDED" /\ r.role = s.role /\ r.peer = s.peer
      BY <2>1, FinishedTurn
    <3>2. Session(c, i, r) /\ Output(c, i, Silence)
      BY <2>4, SilentFacts DEF End, EndWithMedia
    <3> HIDE DEF r
    <3>3. About(c, i) /\ sess'[c][i] = r
      BY <1>0, <2>4, <3>2, OneTurn
    <3>4. m.type = "bye" => m.to = c
      BY <1>2 DEF Noise
    <3>5. LegTurns(c, q, m, Silence, sess'[c][i])
      BY <1>1, <2>1, <2>2, <2>4, <3>1, <3>3, <3>4, SilentFacts DEF LegTurns
    <3> QED BY <1>0, <3>2, <3>3, <3>5, SilentFacts, LegGood DEF q
  <2>5. CASE m.type = "cancel" /\ RecvCancel(c, m, s, up)
    <3>1. CASE q.state \in {"OFFERED", "ALERTING"}
      <4>1. End(c, i, s) /\ up' = up /\ UNCHANGED lapsed
        BY <2>1, <2>5, <3>1 DEF RecvCancel, i
      <4> QED BY <2>4, <2>5, <3>1, <4>1
    <3>2. CASE q.state = "ACTIVE" /\ Crossed(m, s) /\ q.role = "responder"
      <4>1. EndWithMedia(c, i, s) /\ up' = up /\ UNCHANGED lapsed
        BY <2>1, <2>5, <3>2 DEF RecvCancel, i
      <4> QED BY <2>4, <2>5, <3>2, <4>1 DEF Crossed
    <3>3. CASE /\ q.state \notin {"OFFERED", "ALERTING"}
               /\ ~(q.state = "ACTIVE" /\ Crossed(m, s) /\ q.role = "responder")
      <4>1. InvalidState(c, m, s, up)
        BY <2>1, <2>5, <3>3 DEF RecvCancel
      <4> QED BY <2>3, <2>5, <3>3, <4>1
    <3> QED BY <3>1, <3>2, <3>3
  <2>6. CASE m.type = "bye" /\ RecvBye(c, m, s, up)
    BY <2>1, <2>3, <2>4, <2>6 DEF RecvBye, i
  <2> QED BY <2>2, <2>5, <2>6
<1> QED BY <1>0, <1>3, <1>4, <1>6, <1>7, <1>8 DEF Recv

\* Whatever a device receives.
LEMMA ReceiveGood == ASSUME ForkInv, NEW c \in Device, Receive(c) PROVE GoodStep
  BY CallerReceives, LegReceives, CallerFacts

-----------------------------------------------------------------------------
(* A step of the relay about session i.                                    *)

UpGood(i) ==
  /\ up' \in [Device -> Seq(Message)]
  /\ \A e \in Device : In(up'[e]) \subseteq In(up[e])
  /\ \A e \in Device, j \in Sid : j # i => Of(up'[e], j) = Of(up[e], j)
  /\ \A j \in Sid : Leads(up'[Caller], j)
InboxGood(i) ==
  /\ inbox' \in Seq(Message)
  /\ \A n \in In(inbox') : FromCaller(n)
  /\ \A j \in Sid : Sole(inbox', j) /\ (j # i => Of(inbox', j) = Of(inbox, j))
DownGood(i) ==
  /\ down' \in [Device -> Seq(Message)]
  /\ \A n \in In(down'[Caller]) : ToCaller(n)
  /\ \A e \in Leaves : /\ \A n \in In(down'[e]) : ToCallee(e, n)
                       /\ \A j \in Sid : Sole(down'[e], j)
  /\ \A e \in Device, j \in Sid : j # i => Of(down'[e], j) = Of(down[e], j)
AttemptsGood(i) == \E b \in AttemptRec : attempts' = [attempts EXCEPT ![i] = b]

\* Such a step keeps every session but i as it is.
LEMMA RelayGood ==
  ASSUME ForkInv, NEW i \in Sid, UpGood(i), InboxGood(i), DownGood(i), AttemptsGood(i),
         UNCHANGED <<sess, timers, media, bound, known>>,
         lapsed' \subseteq Sid, \A j \in Sid : j # i => (j \in lapsed' <=> j \in lapsed),
         \A d \in Leaves : Moves(d, View(i, d), View(i, d)')
  PROVE  GoodStep
<1>1. EndpointInv /\ ForkTypes /\ MailSound
  BY DEF ForkInv
<1>2. PICK b \in AttemptRec : attempts' = [attempts EXCEPT ![i] = b]
  BY DEF AttemptsGood
<1>3. EndpointInv'
  BY <1>1, NoSessionInv DEF UpGood
<1>4. ForkTypes'
  BY <1>1, <1>2 DEF ForkTypes, DownGood, InboxGood
<1>5. MailSound' /\ InvitesOnce'
  BY <1>1, CallerFacts DEF MailSound, InvitesOnce, UpGood, InboxGood, DownGood
<1>6. ASSUME NEW j \in Sid, j # i, NEW d \in Leaves PROVE View(j, d)' = View(j, d)
  <2>1. d \in Device /\ Caller \in Device /\ attempts'[j] = attempts[j]
    BY <1>1, <1>2, <1>6, CallerFacts DEF ForkTypes
  <2>2. j \in lapsed' <=> j \in lapsed
    BY <1>6
  <2>3. /\ Of(up'[Caller], j) = Of(up[Caller], j) /\ Of(up'[d], j) = Of(up[d], j)
        /\ Of(down'[Caller], j) = Of(down[Caller], j) /\ Of(down'[d], j) = Of(down[d], j)
        /\ Of(inbox', j) = Of(inbox, j)
    BY <1>6, <2>1 DEF UpGood, InboxGood, DownGood
  <2> QED BY <2>1, <2>2, <2>3 DEF View
<1> QED BY <1>3, <1>4, <1>5, <1>6 DEF GoodStep, Moves

\* Whom the relay reaches.
LEMMA Routes ==
  ASSUME ForkInv
  PROVE  /\ Caller \in bound /\ LegsFor(Caller) = {Caller}
         /\ LegsFor(Callee) = Leaves \cap bound
         /\ \A l \in Leaves : LegsFor(l) = {l} \cap bound /\ l \in known
         /\ Callee \in known
<1>1. OneCallee /\ ForkTypes
  BY DEF ForkInv
<1>2. \A e \in bound : e = Caller \/ (e \in Leaves /\ IdentityOf[e] = Callee)
  BY <1>1, CallerFacts DEF OneCallee, ForkTypes
<1>3. Callee # Caller /\ Callee \notin Leaves /\ IdentityOf[Caller] \notin Leaves \cup {Callee}
  BY <1>1, CallerFacts DEF OneCallee
<1>4. Callee \in known /\ \A l \in Leaves : l \in known
  BY <1>1, CallerFacts DEF OneCallee, ForkTypes
<1>5. LegsFor(Caller) = {Caller} /\ Caller \in bound
  BY <1>1, <1>2, <1>3 DEF LegsFor, ForkTypes
<1>6. LegsFor(Callee) = Leaves \cap bound
  BY <1>2, <1>3, CallerFacts DEF LegsFor
<1>7. \A l \in Leaves : LegsFor(l) = {l} \cap bound
  BY <1>2, <1>3, CallerFacts DEF LegsFor
<1> QED BY <1>4, <1>5, <1>6, <1>7

\* n goes down to D.
LEMMA Posted ==
  ASSUME ForkInv, NEW i \in Sid, NEW D, NEW n, SendDown(down, D, n),
         \A e \in D \cap bound :
            /\ n \in Message /\ n.sid = i
            /\ IF e = Caller THEN ToCaller(n) ELSE ToCallee(e, n)
            /\ n.type = "invite" => ~Some(Of(down[e], i), "invite")
  PROVE  /\ DownGood(i)
         /\ \A e \in Device : IF e \in D \cap bound THEN Puts(Of(down[e], i), Of(down'[e], i), n)
                              ELSE Of(down'[e], i) = Of(down[e], i)
<1>1. ForkTypes /\ MailSound /\ InvitesOnce
  BY DEF ForkInv
<1>2. ASSUME NEW e \in Device, e \in D \cap bound
      PROVE  Pushed(down[e], n, down'[e])
  <2>1. n \in Message /\ down'[e] = Append(down[e], n) /\ down[e] \in Seq(Message)
    BY <1>1, <1>2 DEF SendDown, ForkTypes
  <2> QED BY <2>1, SendQueue
<1>3. \A e \in Device : e \notin D \cap bound => down'[e] = down[e]
  BY DEF SendDown
<1>4. ASSUME NEW e \in Device
      PROVE  /\ down'[e] \in Seq(Message)
             /\ \A k \in In(down'[e]) : k \in In(down[e]) \/ (k = n /\ e \in D \cap bound)
             /\ e \in Leaves => \A j \in Sid : Sole(down'[e], j)
             /\ \A j \in Sid : j # i => Of(down'[e], j) = Of(down[e], j)
             /\ IF e \in D \cap bound THEN Puts(Of(down[e], i), Of(down'[e], i), n)
                ELSE Of(down'[e], i) = Of(down[e], i)
  <2>1. down[e] \in Seq(Message) /\ (e \in Leaves => \A j \in Sid : Sole(down[e], j))
    BY <1>1 DEF ForkTypes, InvitesOnce
  <2>2. CASE e \in D \cap bound
    <3>1. /\ down'[e] \in Seq(Message) /\ In(down'[e]) = In(down[e]) \cup {n}
          /\ \A j \in Sid :
               /\ Sole(down[e], j) /\ (InviteAt(<<n>>, 1, j) => ~Some(Of(down[e], j), "invite"))
                    => Sole(down'[e], j)
               /\ IF n.sid = j THEN Puts(Of(down[e], j), Of(down'[e], j), n)
                               ELSE Of(down'[e], j) = Of(down[e], j)
      BY <1>2, <2>2 DEF Pushed
    <3>2. n.sid = i /\ (n.type = "invite" => ~Some(Of(down[e], i), "invite"))
      BY <2>2
    <3>3. \A j \in Sid : InviteAt(<<n>>, 1, j) => j = i /\ n.type = "invite"
      BY <3>2 DEF InviteAt
    <3> QED BY <2>1, <2>2, <3>1, <3>2, <3>3
  <2>3. CASE e \notin D \cap bound
    BY <1>3, <2>1, <2>3
  <2> QED BY <2>2, <2>3
<1>5. down' \in [Device -> Seq(Message)]
  <2>1. down' = [e \in Device |-> down'[e]]
    BY DEF SendDown
  <2> QED BY <1>4, <2>1
<1>6. DownGood(i)
  BY <1>1, <1>4, <1>5, CallerFacts DEF DownGood, MailSound
<1> QED BY <1>4, <1>6

\* Nothing goes down.
LEMMA NothingPosted ==
  ASSUME ForkInv, NEW i \in Sid, down' = down
  PROVE  DownGood(i)
  BY CallerFacts DEF ForkInv, ForkTypes, MailSound, InvitesOnce, DownGood

\* The inbox stays, grows by a message of the caller or loses invites of i.
LEMMA InboxStays ==
  ASSUME ForkInv, NEW i \in Sid, UNCHANGED inbox
  PROVE  InboxGood(i)
  BY DEF ForkInv, ForkTypes, MailSound, InvitesOnce, InboxGood

\* A message of the caller is held.
LEMMA Queued ==
  ASSUME ForkInv, NEW i \in Sid, NEW m \in Message, m.sid = i, inbox' = Append(inbox, m),
         FromCaller(m), m.type = "invite" => ~Some(Of(inbox, i), "invite")
  PROVE  InboxGood(i) /\ Puts(Of(inbox, i), Of(inbox', i), m)
<1>1. ForkTypes /\ MailSound /\ InvitesOnce
  BY DEF ForkInv
<1>2. Pushed(inbox, m, inbox')
  BY <1>1, SendQueue DEF ForkTypes
<1>3. \A j \in Sid : InviteAt(<<m>>, 1, j) => j = i /\ m.type = "invite"
  BY DEF InviteAt
<1> QED BY <1>1, <1>2, <1>3 DEF Pushed, InboxGood, MailSound, InvitesOnce

\* The invites of i that are held are dropped.
LEMMA Unqueued ==
  ASSUME ForkInv, NEW i \in Sid,
         TakeOut({k \in DOMAIN inbox : inbox[k].type = "invite" /\ inbox[k].sid = i})
  PROVE  /\ InboxGood(i) /\ Of(inbox', i) \subseteq Of(inbox, i) /\ ~Some(Of(inbox', i), "invite")
         /\ \A n \in Of(inbox, i) : n \in Of(inbox', i) \/ n.type = "invite"
<1> DEFINE L == {k \in DOMAIN inbox : inbox[k].type = "invite" /\ inbox[k].sid = i}
           K == DOMAIN inbox \ L
<1>1. ForkTypes /\ MailSound /\ InvitesOnce
  BY DEF ForkInv
<1>2. /\ inbox' \in Seq(Message) /\ In(inbox') = {inbox[k] : k \in K}
      /\ \A j \in Sid : Sole(inbox, j) => Sole(inbox', j)
  <2>1. inbox' = Only(inbox, K) /\ K \in SUBSET DOMAIN inbox /\ inbox \in Seq(Message)
    BY <1>1 DEF TakeOut, ForkTypes
  <2> HIDE DEF K
  <2> QED BY <2>1, OnlyQueue
<1>3. In(inbox') \subseteq In(inbox)
  BY <1>2 DEF In
<1>4. \A n \in In(inbox') : ~(n.type = "invite" /\ n.sid = i)
  BY <1>2
<1>5. \A n \in In(inbox) : n \in In(inbox') \/ (n.type = "invite" /\ n.sid = i)
  BY <1>2 DEF In
<1> QED BY <1>1, <1>2, <1>3, <1>4, <1>5 DEF InboxGood, Of, Some, MailSound, InvitesOnce

-----------------------------------------------------------------------------
(* What the relay receives.                                                *)

\* The message comes off its connection, and is of the kind its sender sends.
LEMMA TakeFacts ==
  ASSUME ForkInv, NEW s \in Device, RelayTakes(s), NEW m, m = Head(up[s])
  PROVE  /\ m \in Message /\ m.sid \in Sid /\ RelayRecv(m, down) /\ UpGood(m.sid)
         /\ UNCHANGED <<sess, timers, media, bound, known, lapsed>> /\ lapsed \subseteq Sid
         /\ Takes(Of(up[s], m.sid), Of(up'[s], m.sid), m)
         /\ \A e \in Device : e # s => Of(up'[e], m.sid) = Of(up[e], m.sid)
         /\ s = Caller => /\ FromCaller(m)
                          /\ m.type = "invite" => /\ ~Some(Of(up'[s], m.sid), "invite")
                                                  /\ Some(Of(up[s], m.sid), "invite")
                          /\ m.type # "invite" /\ ~Noise(m) => ~Some(Of(up[s], m.sid), "invite")
         /\ s # Caller => FromCallee(s, m) /\ (~Noise(m) => m \in Of(up[s], m.sid))
<1>1. /\ MailSound /\ InvitesOnce /\ up \in [Device -> Seq(Message)] /\ lapsed \subseteq Sid
      /\ up[s] # <<>> /\ RelayRecv(m, down) /\ up' = [up EXCEPT ![s] = Tail(@)]
      /\ UNCHANGED <<sess, timers, media>>
  BY DEF ForkInv, EndpointInv, TypeOK, RelayTakes
<1>2. UNCHANGED <<bound, known, lapsed>>
  BY <1>1 DEF RelayRecv, RelayIntroduction, RelayInvite, RelayInviteOffline, RoutePlain,
              RelayCancelQueued, RelayPlain, RelayCancel, RelayAnswer, RelayProgress, RelayReject,
              RelayScreened
<1>3. up'[s] = Tail(up[s]) /\ \A e \in Device : e # s => up'[e] = up[e]
  BY <1>1
<1>4. Popped(up[s], m, up'[s])
  BY <1>1, <1>3, TailQueue
<1>5. /\ m \in In(up[s]) /\ m \in Message /\ up'[s] \in Seq(Message)
      /\ In(up'[s]) \subseteq In(up[s])
      /\ \A j \in Sid : /\ Leads(up[s], j) => Leads(up'[s], j)
                        /\ IF m.sid = j THEN Takes(Of(up[s], j), Of(up'[s], j), m)
                           ELSE Of(up'[s], j) = Of(up[s], j)
      /\ m.type = "invite" /\ Leads(up[s], m.sid) => ~Some(Of(up'[s], m.sid), "invite")
      /\ m.type # "invite" /\ ~Noise(m) /\ Leads(up[s], m.sid)
           => ~Some(Of(up[s], m.sid), "invite")
  BY <1>4 DEF Popped
<1>6. m.sid \in Sid /\ (~Noise(m) => m \in Of(up[s], m.sid))
  BY <1>5 DEF Message, Of
<1>7. UpGood(m.sid)
  <2>1. up' \in [Device -> Seq(Message)]
    BY <1>1, <1>5, <1>3
  <2>2. \A j \in Sid : Leads(up'[Caller], j)
    BY <1>1, <1>3, <1>5, CallerFacts DEF InvitesOnce
  <2> QED BY <1>3, <1>5, <2>1, <2>2 DEF UpGood
<1>8. /\ s = Caller => FromCaller(m) /\ \A j \in Sid : Leads(up[s], j)
      /\ s # Caller => FromCallee(s, m)
  BY <1>1, <1>5, CallerFacts DEF MailSound, InvitesOnce
<1>9. m.type = "invite" => Some(Of(up[s], m.sid), "invite")
  BY <1>6 DEF Noise, Some
<1> QED BY <1>1, <1>2, <1>3, <1>5, <1>6, <1>7, <1>8, <1>9

\* The attempt of session i, if there is one, is that of the call to Callee.
LEMMA AttemptTypeFacts ==
  ASSUME ForkInv, NEW i \in Sid
  PROVE  /\ attempts \in [Sid -> AttemptRec] /\ attempts[i] \in AttemptRec
         /\ UNCHANGED attempts => AttemptsGood(i)
         /\ Held(i) => /\ attempts[i].initiator = Caller /\ attempts[i].identity = Callee
                       /\ attempts[i].legs[Caller] = "none"
         /\ ~Held(i) => attempts[i] = NoAttempt
<1>1. attempts \in [Sid -> AttemptRec]
  BY DEF ForkInv, ForkTypes
<1>2. UNCHANGED attempts => attempts' = [attempts EXCEPT ![i] = attempts[i]]
  BY <1>1
<1>3. PICK d : d \in Leaves
  BY DEF ForkInv, OneCallee
<1>4. AttemptFits(View(i, d))
  BY <1>3 DEF ForkInv, Agrees
<1> QED BY <1>1, <1>2, <1>4 DEF AttemptsGood, AttemptFits, View, Held

\* Noise passes through the relay or waits there; nobody's view changes.
LEMMA RelayNoise ==
  ASSUME ForkInv, NEW s \in Device, RelayTakes(s), NEW m, m = Head(up[s]), Noise(m)
  PROVE  GoodStep
<1> DEFINE i == m.sid
<1>0. /\ m \in Message /\ i \in Sid /\ RelayRecv(m, down) /\ UpGood(i)
      /\ UNCHANGED <<sess, timers, media, bound, known, lapsed>> /\ lapsed \subseteq Sid
      /\ \A e \in Device : Of(up'[e], i) = Of(up[e], i)
  BY TakeFacts DEF Takes
<1>1. RoutePlain(m, down)
  BY <1>0 DEF RelayRecv, RelayIntroduction, RelayInvite, RelayInviteOffline, RelayCancelQueued,
              RelayPlain, RelayCancel, FromLeg, AttemptTypes, RelayAnswer, RelayProgress,
              RelayReject, RelayScreened, Noise
<1>2. UNCHANGED attempts /\ AttemptsGood(i)
  BY <1>0, <1>1, AttemptTypeFacts DEF RoutePlain
<1>3. m.type = "error" /\ m.type # "invite" /\ FromCaller(m) /\ ToCaller(m)
      /\ \A e : ToCallee(e, m)
  BY DEF Noise, FromCaller, ToCaller, ToCallee
<1>4. ASSUME NEW D, NEW n \in Message, n.sid = i, Noise(n), SendDown(down, D, n)
      PROVE  DownGood(i) /\ \A e \in Device : Of(down'[e], i) = Of(down[e], i)
  <2>1. n.type # "invite" /\ ToCaller(n) /\ \A e : ToCallee(e, n)
    BY <1>4 DEF Noise, ToCaller, ToCallee
  <2>2. /\ DownGood(i)
        /\ \A e \in Device : IF e \in D \cap bound THEN Puts(Of(down[e], i), Of(down'[e], i), n)
                             ELSE Of(down'[e], i) = Of(down[e], i)
    BY <1>0, <1>4, <2>1, Posted
  <2> QED BY <1>4, <2>2 DEF Puts
<1>5. /\ DownGood(i) /\ \A e \in Device : Of(down'[e], i) = Of(down[e], i)
      /\ InboxGood(i) /\ Of(inbox', i) = Of(inbox, i)
  <2>1. CASE SendDown(down, LegsFor(m.to), m) /\ UNCHANGED inbox
    BY <1>0, <1>4, <2>1, InboxStays
  <2>2. CASE Enqueue(m, down)
    <3>1. InboxGood(i) /\ Puts(Of(inbox, i), Of(inbox', i), m)
      BY <1>0, <1>3, <2>2, Queued DEF Enqueue
    <3> QED BY <1>0, <2>2, <3>1, NothingPosted DEF Enqueue, Puts
  <2>3. CASE /\ SendDown(down, {m.from}, RelayError(m.from, i, "transport.unknown-recipient"))
             /\ UNCHANGED inbox
    <3> DEFINE n == RelayError(m.from, i, "transport.unknown-recipient")
    <3>1. n \in Message /\ n.sid = i /\ Noise(n)
      BY <1>0, MsgType, RelayAssumption
         DEF RelayError, Message, MessageType, Tag, ErrorReason, Msg, Noise
    <3> HIDE DEF n
    <3> QED BY <1>0, <1>4, <2>3, <3>1, InboxStays DEF n
  <2> QED BY <1>1, <2>1, <2>2, <2>3 DEF RoutePlain
<1>6. \A d \in Leaves : View(i, d)' = View(i, d)
  BY <1>0, <1>2, <1>5, CallerFacts DEF View
<1> HIDE DEF i
<1> QED BY <1>0, <1>2, <1>5, <1>6, RelayGood DEF Moves

\* The relay takes what the caller sent.
LEMMA CallerHeard ==
  ASSUME ForkInv, RelayTakes(Caller), NEW m, m = Head(up[Caller]), ~Noise(m)
  PROVE  GoodStep
<1> DEFINE i == m.sid
           a == attempts[i]
<1>0. /\ m \in Message /\ i \in Sid /\ RelayRecv(m, down) /\ UpGood(i)
      /\ UNCHANGED <<sess, timers, media, bound, known, lapsed>> /\ lapsed \subseteq Sid
      /\ Takes(Of(up[Caller], i), Of(up'[Caller], i), m)
      /\ \A e \in Leaves : Of(up'[e], i) = Of(up[e], i)
      /\ FromCaller(m)
      /\ m.type = "invite" => /\ ~Some(Of(up'[Caller], i), "invite")
                              /\ Some(Of(up[Caller], i), "invite")
      /\ m.type # "invite" => ~Some(Of(up[Caller], i), "invite")
  BY TakeFacts, CallerFacts
<1>1. /\ m.from = Caller /\ m.upd = 0
      /\ (m.type \in {"invite", "cancel"} /\ m.to = Callee) \/ (m.type = "bye" /\ m.to \in Leaves)
  BY <1>0 DEF FromCaller
<1>2. /\ attempts \in [Sid -> AttemptRec] /\ a \in AttemptRec
      /\ UNCHANGED attempts => AttemptsGood(i)
      /\ Held(i) => a.initiator = Caller /\ a.identity = Callee /\ a.legs[Caller] = "none"
      /\ ~Held(i) => a = NoAttempt
  BY <1>0, AttemptTypeFacts
<1>3. /\ LegsFor(Callee) = Leaves \cap bound
      /\ \A l \in Leaves : LegsFor(l) = {l} \cap bound /\ l \in known
      /\ Callee \in known /\ Callee \notin Device
  BY Routes DEF ForkInv, OneCallee
<1>4. Some(Of(up[Caller], i), "invite") =>
        a = NoAttempt /\ Of(inbox, i) = {} /\ \A d \in Leaves : Of(down[d], i) = {}
  <2>1. PICK d : d \in Leaves
    BY DEF ForkInv, OneCallee
  <2>2. \A e \in Leaves : AttemptFits(View(i, e)) /\ LegFits(e, View(i, e))
    BY <1>0 DEF ForkInv, Agrees
  <2>3. \A e \in Leaves : Some(Of(up[Caller], i), "invite") =>
          a = NoAttempt /\ Of(inbox, i) = {} /\ Of(down[e], i) = {}
    BY <2>2 DEF AttemptFits, LegFits, View
  <2> QED BY <2>1, <2>3
<1>5. ASSUME DownGood(i), InboxGood(i), AttemptsGood(i),
             \A d \in Leaves : RelayHears(d, View(i, d), View(i, d)')
      PROVE  GoodStep
  <2> HIDE DEF i
  <2> QED BY <1>0, <1>5, RelayGood DEF Moves
<1> HIDE DEF i
<1>6. ASSUME NEW D \in SUBSET Leaves, \A e \in D : m.to \in {e, Callee}, SendDown(down, D, m)
      PROVE  /\ DownGood(i) /\ Of(down'[Caller], i) = Of(down[Caller], i)
             /\ \A e \in Leaves :
                  Of(down'[e], i) = IF e \in D \cap bound THEN Of(down[e], i) \cup {m}
                                    ELSE Of(down[e], i)
  <2>1. \A e \in D \cap bound :
            /\ m \in Message /\ m.sid = i
            /\ IF e = Caller THEN ToCaller(m) ELSE ToCallee(e, m)
            /\ m.type = "invite" => ~Some(Of(down[e], i), "invite")
    BY <1>0, <1>4, <1>6, CallerFacts DEF ToCallee, Some, i
  <2>2. /\ DownGood(i)
        /\ \A e \in Device : IF e \in D \cap bound THEN Puts(Of(down[e], i), Of(down'[e], i), m)
                             ELSE Of(down'[e], i) = Of(down[e], i)
    BY <1>0, <1>6, <2>1, Posted
  <2> QED BY <1>6, <2>2, CallerFacts DEF Puts
<1>7. CASE RelayInvite(m, down)
  <2> DEFINE D == Leaves \cap bound
             b == Attempt(Caller, Callee, D)
  <2>1. /\ m.type = "invite" /\ m.to = Callee /\ UNCHANGED inbox
        /\ attempts' = [attempts EXCEPT ![i] = b] /\ SendDown(down, D, m)
    BY <1>1, <1>3, <1>7 DEF RelayInvite, i
  <2>2. /\ b \in AttemptRec
        /\ b.initiator = Caller /\ b.identity = Callee /\ b.outcome = "none"
        /\ \A e \in Device : b.legs[e] = IF e \in D THEN "delivered" ELSE "none"
    BY CallerFacts, EmptySeq DEF Attempt, NoAttempt, AttemptRec, LegState, Outcome
  <2> HIDE DEF b
  <2>3. AttemptsGood(i) /\ attempts'[i] = b
    BY <1>0, <1>2, <2>1, <2>2 DEF AttemptsGood
  <2>4. /\ DownGood(i) /\ Of(down'[Caller], i) = Of(down[Caller], i)
        /\ \A e \in Leaves : Of(down'[e], i) = IF e \in D THEN Of(down[e], i) \cup {m}
                                               ELSE Of(down[e], i)
    BY <1>6, <2>1
  <2>5. ASSUME NEW d \in Leaves PROVE RelayHears(d, View(i, d), View(i, d)')
    <3> DEFINE v == View(i, d)
               w == View(i, d)'
    <3>1. /\ Keeps(v, w, {"p", "q", "over", "V", "D"}) /\ Takes(v.U, w.U, m) /\ w.I = v.I
          /\ w.a = b /\ w.E = (IF d \in D THEN v.E \cup {m} ELSE v.E)
          /\ ~Some(w.U, "invite")
      BY <1>0, <2>1, <2>3, <2>4, CallerFacts DEF View, Keeps
    <3>2. /\ m.type = "invite" /\ b.initiator = Caller /\ b.identity = Callee
          /\ b.outcome = "none" /\ b.legs[Caller] = "none"
          /\ b.legs[d] = IF d \in D THEN "delivered" ELSE "none"
      BY <2>1, <2>2, CallerFacts
    <3> HIDE DEF v, w, D
    <3> QED BY <3>1, <3>2 DEF RelayHears, v, w
  <2> QED BY <1>0, <1>5, <2>1, <2>3, <2>4, <2>5, InboxStays
\* It is sent on, or held for the addressee.
<1>8. ASSUME RoutePlain(m, down), m.type \notin {"invite"} \/ LegsFor(m.to) = {},
             m.type = "cancel" => ~Held(i) /\ ~Some(Of(inbox, i), "invite")
      PROVE  GoodStep
  <2>1. UNCHANGED attempts /\ AttemptsGood(i)
    BY <1>2, <1>8 DEF RoutePlain
  <2>2. CASE SendDown(down, LegsFor(m.to), m) /\ UNCHANGED inbox /\ LegsFor(m.to) # {}
    <3>1. LegsFor(m.to) \in SUBSET Leaves /\ \A e \in LegsFor(m.to) : m.to \in {e, Callee}
      BY <1>1, <1>3
    <3>2. /\ DownGood(i) /\ Of(down'[Caller], i) = Of(down[Caller], i)
          /\ \A e \in Leaves : Of(down'[e], i) = IF e \in LegsFor(m.to) \cap bound
                                                 THEN Of(down[e], i) \cup {m}
                                                 ELSE Of(down[e], i)
      BY <1>6, <2>2, <3>1
    <3>3. \A e \in Leaves : m.type = "bye" => (e \in LegsFor(m.to) \cap bound <=> e = m.to)
      BY <1>1, <1>3, <2>2
    <3>4. ASSUME NEW d \in Leaves PROVE RelayHears(d, View(i, d), View(i, d)')
      <4> DEFINE v == View(i, d)
                 w == View(i, d)'
      <4>1. /\ Keeps(v, w, {"p", "q", "over", "V", "D"}) /\ Takes(v.U, w.U, m) /\ w.I = v.I
            /\ w.a = v.a /\ v.a = a /\ (w.E = v.E \cup {m} \/ w.E = v.E)
            /\ m.type = "bye" /\ m.to = d => w.E = v.E \cup {m}
            /\ ~Some(v.U, "invite") /\ v.I = Of(inbox, i)
        <5>1. /\ Of(down'[d], i) = Of(down[d], i) \cup {m} \/ Of(down'[d], i) = Of(down[d], i)
              /\ m.type = "bye" /\ m.to = d => Of(down'[d], i) = Of(down[d], i) \cup {m}
          BY <3>2, <3>3
        <5>2. ~Some(Of(up[Caller], i), "invite") /\ d \in Device
          BY <1>0, <1>1, <1>8, <2>2, CallerFacts
        <5>3. /\ sess' = sess /\ lapsed' = lapsed /\ attempts' = attempts /\ inbox' = inbox
              /\ Takes(Of(up[Caller], i), Of(up'[Caller], i), m) /\ Of(up'[d], i) = Of(up[d], i)
              /\ Of(down'[Caller], i) = Of(down[Caller], i)
          BY <1>0, <2>1, <2>2, <3>2
        <5> QED BY <5>1, <5>2, <5>3 DEF View, Keeps
      <4>2. m.type \in {"cancel", "bye"}
        BY <1>1, <1>8, <2>2
      <4> HIDE DEF v, w, a
      <4> QED BY <1>8, <4>1, <4>2 DEF RelayHears, Held, v, w, a
    <3> QED BY <1>0, <1>5, <2>1, <2>2, <3>2, <3>4, InboxStays
  <2>3. CASE Enqueue(m, down)
    <3>1. m.type = "invite" => ~Some(Of(inbox, i), "invite")
      BY <1>0, <1>4 DEF Some
    <3>2. InboxGood(i) /\ Puts(Of(inbox, i), Of(inbox', i), m)
      BY <1>0, <2>3, <3>1, Queued DEF Enqueue, i
    <3>3. Of(inbox', i) = Of(inbox, i) \cup {m} /\ down' = down
      BY <2>3, <3>2 DEF Puts, Enqueue
    <3>4. ASSUME NEW d \in Leaves PROVE RelayHears(d, View(i, d), View(i, d)')
      BY <1>0, <1>1, <1>8, <2>1, <3>3, CallerFacts DEF RelayHears, View, Keeps, Held
    <3> QED BY <1>0, <1>5, <2>1, <3>2, <3>3, <3>4, NothingPosted
  <2> QED BY <1>1, <1>3, <1>8, <2>2, <2>3 DEF RoutePlain
<1>9. CASE RelayInviteOffline(m, down)
  BY <1>8, <1>9 DEF RelayInviteOffline
\* The invites of session i that the relay holds are those a cancel names.
<1>10. m.type = "cancel" =>
         QueuedInvite(m) = {k \in DOMAIN inbox : inbox[k].type = "invite" /\ inbox[k].sid = i}
  <2>1. \A k \in DOMAIN inbox : inbox[k].type = "invite" => inbox[k].to = Callee
    BY DEF ForkInv, MailSound, In, FromCaller, Noise
  <2> QED BY <1>1, <2>1 DEF QueuedInvite, i
<1>11. CASE RelayCancelQueued(m, down)
  <2>1. /\ m.type = "cancel" /\ ~Held(i) /\ UNCHANGED attempts /\ down' = down
        /\ TakeOut({k \in DOMAIN inbox : inbox[k].type = "invite" /\ inbox[k].sid = i})
    BY <1>10, <1>11 DEF RelayCancelQueued, i
  <2>2. /\ InboxGood(i) /\ Of(inbox', i) \subseteq Of(inbox, i) /\ ~Some(Of(inbox', i), "invite")
        /\ \A n \in Of(inbox, i) : n \in Of(inbox', i) \/ n.type = "invite"
    BY <1>0, <2>1, Unqueued
  <2>3. ASSUME NEW d \in Leaves PROVE RelayHears(d, View(i, d), View(i, d)')
    BY <1>0, <2>1, <2>2, CallerFacts DEF RelayHears, View, Keeps, Held
  <2> QED BY <1>0, <1>2, <1>5, <2>1, <2>2, <2>3, NothingPosted
<1>12. CASE RelayPlain(m, down)
  <2>1. RoutePlain(m, down) /\ m.type \in {"cancel", "bye"}
    BY <1>1, <1>12 DEF RelayPlain
  <2>2. m.type = "cancel" => ~Held(i) /\ QueuedInvite(m) = {}
    BY <1>1, <1>2, <1>12 DEF RelayPlain, AttemptTypes, i
  <2>3. m.type = "cancel" => ~Some(Of(inbox, i), "invite")
    BY <1>10, <2>2 DEF Some, Of, In
  <2> QED BY <1>8, <2>1, <2>2, <2>3
<1>13. CASE RelayCancel(m, down)
  <2> DEFINE D == Outstanding(a)
             legs == [d \in Device |-> IF d \in D THEN "cancelled" ELSE a.legs[d]]
             out == IF a.outcome = "none" THEN "cancelled" ELSE a.outcome
             b == [a EXCEPT !.legs = legs, !.outcome = out]
  <2>1. ~Leg(a, m.to) /\ Held(i) /\ m.type = "cancel" /\ m.to = Callee
    BY <1>1, <1>3, <1>13 DEF RelayCancel, Leg, i
  <2>2. /\ attempts' = [attempts EXCEPT ![i] = b] /\ SendDown(down, D, m) /\ UNCHANGED inbox
    BY <1>13, <2>1 DEF RelayCancel, i
  <2>3. D \in SUBSET Leaves
    BY <1>2, <2>1, CallerFacts DEF Outstanding
  <2>4. /\ b \in AttemptRec /\ b.initiator = a.initiator /\ b.identity = a.identity
        /\ \A e \in Device : b.legs[e] = IF a.legs[e] = "delivered" THEN "cancelled" ELSE a.legs[e]
    BY <1>2 DEF AttemptRec, LegState, Outcome, Outstanding
  <2> HIDE DEF b
  <2>5. AttemptsGood(i) /\ attempts'[i] = b
    BY <1>0, <1>2, <2>2, <2>4 DEF AttemptsGood
  <2>6. /\ DownGood(i) /\ Of(down'[Caller], i) = Of(down[Caller], i)
        /\ \A e \in Leaves : Of(down'[e], i) = IF e \in D \cap bound THEN Of(down[e], i) \cup {m}
                                               ELSE Of(down[e], i)
    BY <1>6, <2>1, <2>2, <2>3
  <2>7. ASSUME NEW d \in Leaves PROVE RelayHears(d, View(i, d), View(i, d)')
    <3> DEFINE v == View(i, d)
               w == View(i, d)'
    <3>1. /\ Keeps(v, w, {"p", "q", "over", "V", "D"}) /\ Takes(v.U, w.U, m) /\ w.I = v.I
          /\ w.a = b /\ v.a = a /\ w.E = (IF d \in D \cap bound THEN v.E \cup {m} ELSE v.E)
      BY <1>0, <2>2, <2>5, <2>6, CallerFacts DEF View, Keeps
    <3>2. /\ a.initiator # Nobody /\ b.initiator = a.initiator /\ b.identity = a.identity
          /\ b.legs[Caller] = a.legs[Caller]
          /\ d \in D <=> a.legs[d] = "delivered"
          /\ b.legs[d] = IF d \in D THEN "cancelled" ELSE a.legs[d]
      BY <1>2, <2>1, <2>4, CallerFacts DEF Held, Outstanding
    <3> HIDE DEF v, w, D, a
    <3> QED BY <2>1, <3>1, <3>2 DEF RelayHears, SameCall, v, w
  <2> QED BY <1>0, <1>5, <2>2, <2>5, <2>6, <2>7, InboxStays
<1>14. ~FromLeg(m) /\ m.type # "introduction"
  BY <1>1, <1>2, <1>3 DEF FromLeg, AttemptTypes, i
<1> QED BY <1>0, <1>7, <1>9, <1>11, <1>12, <1>13, <1>14
        DEF RelayRecv, RelayIntroduction, RelayAnswer, RelayProgress, RelayReject, RelayScreened

-----------------------------------------------------------------------------
(* What the relay is told by the legs.                                     *)

\* The best of the rejects is one of them: the reasons have a rank, and of
\* those that rank first one came first.
LEMMA BestIsOne ==
  ASSUME NEW rejects \in Seq([leg : Device, reason : Tag]), rejects # <<>>
  PROVE  Best(rejects) \in [leg : Device, reason : Tag]
<1> DEFINE K == DOMAIN rejects
           r(n) == Rank(rejects[n].reason)
           First(n) == \A j \in K : r(n) < r(j) \/ (r(n) = r(j) /\ n <= j)
<1>1. K \subseteq Nat /\ K # {} /\ \A n \in K : rejects[n] \in [leg : Device, reason : Tag]
  <2>1. K = 1 .. Len(rejects) /\ Len(rejects) \in Nat /\ Len(rejects) # 0
    BY EmptySeq, LenProperties
  <2>2. PICK n \in Nat : K = 1 .. n /\ n # 0
    BY <2>1
  <2> HIDE DEF K
  <2>3. 1 \in K /\ \A k \in K : k \in Nat
    BY <2>2
  <2>4. \A k \in 1 .. Len(rejects) : rejects[k] \in [leg : Device, reason : Tag]
    BY ElementOfSeq
  <2> QED BY <2>1, <2>3, <2>4
<1>2. \A n \in K : r(n) \in Nat
  BY DEF Rank
<1> HIDE DEF K, r
<1>3. PICK least \in {r(n) : n \in K} : \A k \in {r(n) : n \in K} : least <= k
  <2>1. {r(n) : n \in K} \subseteq Nat /\ {r(n) : n \in K} # {}
    BY <1>1, <1>2
  <2> QED BY <2>1, Least
<1>4. PICK k \in {n \in K : r(n) = least} : \A j \in {n \in K : r(n) = least} : k <= j
  <2>1. {n \in K : r(n) = least} \subseteq Nat /\ {n \in K : r(n) = least} # {}
    BY <1>1, <1>3
  <2> QED BY <2>1, Least
<1>5. First(k)
  <2> SUFFICES ASSUME NEW j \in K PROVE r(k) < r(j) \/ (r(k) = r(j) /\ k <= j)
    OBVIOUS
  <2>1. least <= r(j) /\ r(k) = least
    BY <1>3, <1>4
  <2>2. CASE r(j) = least
    BY <1>4, <2>1, <2>2
  <2>3. CASE r(j) # least
    BY <1>2, <1>4, <2>1, <2>3
  <2> QED BY <2>2, <2>3
<1> DEFINE c == CHOOSE n \in K : First(n)
<1>6. c \in K
  <2> HIDE DEF First
  <2> QED BY <1>4, <1>5
<1>7. Best(rejects) = rejects[c]
  BY DEF Best, K, r
<1> QED BY <1>1, <1>6, <1>7

\* Attempt i becomes a, or a with an outcome of which the caller gets word.
Concluded(i, a) ==
  \E b \in AttemptRec :
    /\ attempts' = [attempts EXCEPT ![i] = b]
    /\ b.initiator = a.initiator /\ b.identity = a.identity /\ b.legs = a.legs
    /\ DownGood(i) /\ \A e \in Leaves : Of(down'[e], i) = Of(down[e], i)
    /\ \/ Of(down'[Caller], i) = Of(down[Caller], i) /\ b.outcome = a.outcome
       \/ \E n : /\ n.type \in {"reject", "error"}
                 /\ Of(down'[Caller], i) = Of(down[Caller], i) \cup {n}

\* That is what the check for completion leaves.
LEMMA Concluding ==
  ASSUME ForkInv, NEW i \in Sid, NEW a \in AttemptRec, a.initiator = Caller,
         CheckComplete(i, a, down)
  PROVE  Concluded(i, a)
<1>1. \A out \in Outcome :
        LET b == [a EXCEPT !.outcome = out] IN
        /\ b \in AttemptRec /\ b.outcome = out
        /\ b.initiator = a.initiator /\ b.identity = a.identity /\ b.legs = a.legs
  BY DEF AttemptRec
<1>2. CASE /\ attempts' = [attempts EXCEPT ![i] = [a EXCEPT !.outcome = a.outcome]]
           /\ down' = down
  <2>1. a.outcome \in Outcome /\ DownGood(i)
    BY <1>2, NothingPosted DEF AttemptRec
  <2> QED BY <1>1, <1>2, <2>1 DEF Concluded
<1>3. ASSUME NEW out \in {"no-response", "rejected"}, NEW n \in Message,
             n.type \in {"reject", "error"}, ~Noise(n), n.sid = i, n.upd = 0,
             attempts' = [attempts EXCEPT ![i] = [a EXCEPT !.outcome = out]],
             SendDown(down, {Caller}, n)
      PROVE  Concluded(i, a)
  <2>1. ToCaller(n) /\ n.type # "invite" /\ out \in Outcome /\ Caller \in bound
    BY <1>3, Routes DEF ToCaller, Outcome
  <2>2. /\ DownGood(i)
        /\ \A e \in Device :
             IF e \in {Caller} \cap bound THEN Puts(Of(down[e], i), Of(down'[e], i), n)
             ELSE Of(down'[e], i) = Of(down[e], i)
    BY <1>3, <2>1, Posted
  <2>3. /\ Of(down'[Caller], i) = Of(down[Caller], i) \cup {n}
        /\ \A e \in Leaves : Of(down'[e], i) = Of(down[e], i)
    <3>1. Puts(Of(down[Caller], i), Of(down'[Caller], i), n)
      BY <2>1, <2>2, CallerFacts
    <3>2. \A e \in Leaves : Of(down'[e], i) = Of(down[e], i)
      BY <2>2, CallerFacts
    <3>3. ~Noise(n)
      BY <1>3
    <3> QED BY <3>1, <3>2, <3>3 DEF Puts
  <2> DEFINE b == [a EXCEPT !.outcome = out]
  <2>4. /\ b \in AttemptRec
        /\ b.initiator = a.initiator /\ b.identity = a.identity /\ b.legs = a.legs
    BY <1>1, <2>1
  <2>5. attempts' = [attempts EXCEPT ![i] = b]
    BY <1>3
  <2> HIDE DEF b
  <2>6. \E k : /\ k.type \in {"reject", "error"}
                /\ Of(down'[Caller], i) = Of(down[Caller], i) \cup {k}
    <3>1. n.type \in {"reject", "error"} /\ Of(down'[Caller], i) = Of(down[Caller], i) \cup {n}
      BY <1>3, <2>3
    <3> WITNESS n
    <3> QED BY <3>1
  <2>7. DownGood(i) /\ \A e \in Leaves : Of(down'[e], i) = Of(down[e], i)
    BY <2>2, <2>3
  <2> QED BY <2>4, <2>5, <2>6, <2>7, Zenon DEF Concluded
<1>4. CASE /\ attempts' = [attempts EXCEPT ![i] = [a EXCEPT !.outcome = "no-response"]]
           /\ SendDown(down, {Caller}, RelayError(Caller, i, "transport.no-response"))
  <2> DEFINE n == RelayError(Caller, i, "transport.no-response")
  <2>1. n \in Message /\ n.type = "error" /\ ~Noise(n) /\ n.sid = i /\ n.upd = 0
    BY MsgType, CallerFacts, RelayAssumption
       DEF RelayError, MessageType, Tag, ErrorReason, Msg, Noise
  <2> HIDE DEF n
  <2> QED BY <1>3, <1>4, <2>1 DEF n
<1>5. CASE /\ a.rejects # <<>>
           /\ attempts' = [attempts EXCEPT ![i] = [a EXCEPT !.outcome = "rejected"]]
           /\ SendDown(down, {Caller}, Msg("reject", Best(a.rejects).leg, Caller, i,
                                           Best(a.rejects).reason, 0))
  <2> DEFINE n == Msg("reject", Best(a.rejects).leg, Caller, i, Best(a.rejects).reason, 0)
  <2>1. Best(a.rejects) \in [leg : Device, reason : Tag]
    BY <1>5, BestIsOne DEF AttemptRec
  <2>2. n \in Message /\ n.type = "reject" /\ ~Noise(n) /\ n.sid = i /\ n.upd = 0
    BY <2>1, MsgType, CallerFacts DEF MessageType, Msg, Noise
  <2> HIDE DEF n
  <2> QED BY <1>3, <1>5, <2>2 DEF n
<1> QED BY <1>2, <1>4, <1>5 DEF CheckComplete

\* The relay takes what a leg sent.
LEMMA LegHeard ==
  ASSUME ForkInv, NEW s \in Leaves, RelayTakes(s), NEW m, m = Head(up[s]), ~Noise(m)
  PROVE  GoodStep
<1> DEFINE i == m.sid
           a == attempts[i]
           b == attempts'[i]
<1>0. /\ s \in Device /\ s # Caller
      /\ m \in Message /\ i \in Sid /\ RelayRecv(m, down) /\ UpGood(i)
      /\ UNCHANGED <<sess, timers, media, bound, known, lapsed>> /\ lapsed \subseteq Sid
      /\ Takes(Of(up[s], i), Of(up'[s], i), m)
      /\ \A e \in Device : e # s => Of(up'[e], i) = Of(up[e], i)
      /\ FromCallee(s, m) /\ m \in Of(up[s], i)
  BY TakeFacts, CallerFacts
<1>1. /\ m.from = s /\ m.to = Caller /\ m.upd = 0
      /\ m.type \in {"progress", "answer", "reject", "bye"} /\ ToCaller(m)
  BY <1>0 DEF FromCallee, ToCaller
<1>2. /\ attempts \in [Sid -> AttemptRec] /\ a \in AttemptRec
      /\ UNCHANGED attempts => AttemptsGood(i)
      /\ Held(i) => a.initiator = Caller /\ a.identity = Callee /\ a.legs[Caller] = "none"
      /\ ~Held(i) => a = NoAttempt
  BY <1>0, AttemptTypeFacts
<1>3. LegsFor(Caller) = {Caller} /\ Caller \in bound
  BY Routes
<1>4. sess[Caller][i].state # "NONE" /\ ~Some(Of(up[Caller], i), "invite")
  <2>1. LegFits(s, View(i, s))
    BY <1>0 DEF ForkInv, Agrees
  <2> QED BY <1>0, <2>1 DEF LegFits, View
<1> DEFINE Same == /\ Held(i) /\ b.initiator = a.initiator /\ b.identity = a.identity
                   /\ b.legs[Caller] = a.legs[Caller]
           Sent == Of(down'[Caller], i) = Of(down[Caller], i) \cup {m}
           Unsaid == Of(down'[Caller], i) = Of(down[Caller], i)
           Word == \E n : /\ n.type \in {"reject", "error"}
                          /\ Of(down'[Caller], i) = Of(down[Caller], i) \cup {n}
           Told(d) ==
             \/ /\ Sent /\ (b = a \/ Same)
                /\ b.legs[d] = a.legs[d] \/ (a.legs[d] = "delivered" /\ b.legs[d] = "answered")
                /\ m.type = "answer" \/ b.outcome = a.outcome
                /\ s = d /\ m.type \in {"answer", "reject"} => b.legs[d] # "delivered"
             \/ /\ m.type = "reject" /\ Same /\ ((Unsaid /\ b.outcome = a.outcome) \/ Word)
                /\ b.legs[d] = IF s = d THEN "rejected" ELSE a.legs[d]
             \/ /\ m.type # "answer" /\ Same /\ Unsaid
                /\ b.legs[d] = a.legs[d] /\ b.outcome = a.outcome
                /\ s = d => a.legs[d] # "delivered"
<1>5. ASSUME DownGood(i), AttemptsGood(i), UNCHANGED inbox,
             \A e \in Leaves : Of(down'[e], i) = Of(down[e], i),
             \A d \in Leaves : Told(d)
      PROVE  GoodStep
  <2>1. ASSUME NEW d \in Leaves PROVE RelayIsTold(d, View(i, d), View(i, d)')
    <3> DEFINE v == View(i, d)
               w == View(i, d)'
    <3>1. /\ Keeps(v, w, {"p", "q", "over", "U", "I", "E"}) /\ v.a = a /\ w.a = b
          /\ v.p.state # "NONE" /\ ~Some(v.U, "invite")
          /\ (m.from = d /\ Takes(v.V, w.V, m)) \/ (m.from # d /\ w.V = v.V)
          /\ v.D = Of(down[Caller], i) /\ w.D = Of(down'[Caller], i)
      <4>1. d \in Device /\ Of(up'[Caller], i) = Of(up[Caller], i)
        BY <1>0, CallerFacts
      <4>2. \/ s = d /\ Takes(Of(up[d], i), Of(up'[d], i), m)
            \/ s # d /\ Of(up'[d], i) = Of(up[d], i)
        BY <1>0, <4>1
      <4> HIDE DEF Told
      <4> QED BY <1>0, <1>1, <1>4, <1>5, <4>1, <4>2 DEF View, Keeps
    <3>2. Told(d)
      BY <1>5
    <3> HIDE DEF v, w, a, b, i
    <3> QED BY <1>1, <3>1, <3>2 DEF RelayIsTold, SameCall, Concludes, Held, v, w, a, b
  <2> HIDE DEF i, Told
  <2> QED BY <1>0, <1>5, <2>1, RelayGood, InboxStays DEF Moves
<1> HIDE DEF i
<1>6. ASSUME SendDown(down, {Caller}, m)
      PROVE  DownGood(i) /\ Sent /\ \A e \in Leaves : Of(down'[e], i) = Of(down[e], i)
  <2>1. m.type # "invite" /\ m.sid = i
    BY <1>1 DEF i
  <2>2. /\ DownGood(i)
        /\ \A e \in Device :
             IF e \in {Caller} \cap bound THEN Puts(Of(down[e], i), Of(down'[e], i), m)
             ELSE Of(down'[e], i) = Of(down[e], i)
    BY <1>0, <1>1, <1>6, <2>1, Posted
  <2> QED BY <1>3, <2>2, CallerFacts DEF Puts
<1>7. FromLeg(m) => /\ Held(i) /\ a.legs[s] # "none" /\ a.initiator = Caller
                    /\ m.type \in {"progress", "answer", "reject"}
  BY <1>0, <1>1, <1>2 DEF FromLeg, AttemptTypes, Leg, i
\* A record r that is a but for the leg s and the outcome.
<1> DEFINE Near(r) ==
             /\ r \in AttemptRec /\ r.initiator = a.initiator /\ r.identity = a.identity
             /\ \A d \in Device : d # s => r.legs[d] = a.legs[d]
<1>8. ASSUME NEW r, Near(r), Held(i), attempts' = [attempts EXCEPT ![i] = r]
      PROVE  AttemptsGood(i) /\ b = r /\ Same
  <2>1. b = r /\ AttemptsGood(i)
    BY <1>0, <1>2, <1>8 DEF AttemptsGood
  <2> HIDE DEF b
  <2> QED BY <1>0, <1>8, <2>1, CallerFacts
<1>9. CASE RelayPlain(m, down)
  <2>1. /\ SendDown(down, {Caller}, m) /\ UNCHANGED inbox /\ UNCHANGED attempts
    BY <1>1, <1>3, <1>9 DEF RelayPlain, RoutePlain
  <2>2. m.type \in {"answer", "reject"} => a.legs[s] # "delivered"
    BY <1>0, <1>1, <1>2, <1>9 DEF RelayPlain, NoAttempt, Leg, AttemptTypes, i
  <2>3. b = a
    BY <2>1
  <2>4. \A d \in Leaves : Told(d)
    BY <1>6, <2>1, <2>2, <2>3
  <2> HIDE DEF Told
  <2> QED BY <1>2, <1>5, <1>6, <2>1, <2>4
<1>10. CASE RelayAnswer(m, down)
  <2> DEFINE live == Heard(m).legs[m.from] = "delivered"
             h == Heard(m)
             r == [h EXCEPT !.legs[m.from] = IF live THEN "answered" ELSE @,
                            !.outcome = IF live /\ @ = "none" THEN "answered" ELSE @]
  <2>1. /\ m.type = "answer" /\ Held(i) /\ a.initiator = Caller /\ UNCHANGED inbox
        /\ attempts' = [attempts EXCEPT ![i] = r] /\ SendDown(down, {Caller}, m)
    <3>1. h.initiator = a.initiator
      BY <1>2 DEF Heard, AttemptRec, i
    <3> QED BY <1>7, <1>10, <3>1 DEF RelayAnswer, i
  <2>2. Near(r) /\ r.legs[s] = IF a.legs[s] = "delivered" THEN "answered" ELSE a.legs[s]
    <3> DEFINE l == IF a.legs[s] = "delivered" THEN "answered" ELSE a.legs[s]
               out == IF live /\ h.outcome = "none" THEN "answered" ELSE h.outcome
               f == [h EXCEPT !.legs[s] = l, !.outcome = out]
    <3>1. /\ h \in AttemptRec /\ h.initiator = a.initiator /\ h.identity = a.identity
          /\ h.legs = a.legs /\ m.from = s /\ m.sid = i
      BY <1>0, <1>1, <1>2 DEF AttemptRec, Heard, i
    <3>2. l \in LegState /\ out \in Outcome
      BY <1>0, <3>1 DEF AttemptRec, LegState, Outcome
    <3>3. r = f
      BY <3>1
    <3> HIDE DEF h, l, out, a, live
    <3>4. /\ f \in AttemptRec /\ f.initiator = a.initiator /\ f.identity = a.identity
          /\ \A d \in Device : d # s => f.legs[d] = a.legs[d]
          /\ f.legs[s] = l
      BY <1>0, <3>1, <3>2 DEF AttemptRec
    <3> HIDE DEF f, r
    <3> QED BY <3>3, <3>4 DEF l
  <2> HIDE DEF r, Near
  <2>3. AttemptsGood(i) /\ b = r /\ Same
    BY <1>8, <2>1, <2>2
  <2>4. \A d \in Leaves : Told(d)
    BY <1>6, <2>1, <2>2, <2>3, CallerFacts DEF Near
  <2> HIDE DEF Told
  <2> QED BY <1>5, <1>6, <2>1, <2>3, <2>4
<1>11. CASE RelayProgress(m, down)
  <2> DEFINE r == Heard(m)
  <2>1. /\ m.type = "progress" /\ Held(i) /\ UNCHANGED inbox
        /\ attempts' = [attempts EXCEPT ![i] = r] /\ SendDown(down, {Caller}, m)
    BY <1>7, <1>11 DEF RelayProgress, i
  <2>2. Near(r) /\ r.legs = a.legs /\ r.outcome = a.outcome
    BY <1>0, <1>1, <1>2 DEF AttemptRec, Heard, i
  <2> HIDE DEF r, Near
  <2>3. AttemptsGood(i) /\ b = r /\ Same
    BY <1>8, <2>1, <2>2
  <2>4. \A d \in Leaves : Told(d)
    BY <1>6, <2>1, <2>2, <2>3
  <2> HIDE DEF Told
  <2> QED BY <1>5, <1>6, <2>1, <2>3, <2>4
<1>12. CASE RelayReject(m, down)
  <2> DEFINE r == [Heard(m) EXCEPT !.legs[m.from] = "rejected",
                                   !.rejects = Append(@, [leg |-> m.from, reason |-> m.tag])]
  <2>1. m.type = "reject" /\ Held(i) /\ UNCHANGED inbox /\ CheckComplete(i, r, down)
    BY <1>7, <1>12 DEF RelayReject, i
  <2>2. Near(r) /\ r.legs[s] = "rejected" /\ r.outcome = a.outcome /\ r.initiator = Caller
    <3>1. [leg |-> m.from, reason |-> m.tag] \in [leg : Device, reason : Tag]
      BY <1>0, <1>1 DEF Message
    <3>2. Append(a.rejects, [leg |-> m.from, reason |-> m.tag])
            \in Seq([leg : Device, reason : Tag])
      BY <1>2, <3>1, AppendProperties DEF AttemptRec
    <3>3. a.initiator = Caller
      BY <1>2, <2>1
    <3> QED BY <1>0, <1>1, <1>2, <3>2, <3>3 DEF AttemptRec, Heard, LegState, i
  <2> HIDE DEF r
  <2>3. Concluded(i, r)
    BY <1>0, <2>1, <2>2, Concluding
  <2>4. PICK k \in AttemptRec :
          /\ attempts' = [attempts EXCEPT ![i] = k]
          /\ k.initiator = r.initiator /\ k.identity = r.identity /\ k.legs = r.legs
          /\ DownGood(i) /\ \A e \in Leaves : Of(down'[e], i) = Of(down[e], i)
          /\ (Unsaid /\ k.outcome = r.outcome) \/ Word
    BY <2>3 DEF Concluded
  <2>5. Near(k)
    BY <2>2, <2>4
  <2> HIDE DEF Near
  <2>6. AttemptsGood(i) /\ b = k /\ Same
    BY <1>8, <2>1, <2>4, <2>5
  <2>7. \A d \in Leaves : Told(d)
    BY <2>1, <2>2, <2>4, <2>6, CallerFacts DEF Near
  <2> HIDE DEF Told
  <2> QED BY <1>5, <2>1, <2>4, <2>6, <2>7
<1>13. CASE RelayScreened(m, down)
  <2> DEFINE r == Heard(m)
  <2>1. /\ m.type # "answer" /\ Held(i) /\ UNCHANGED inbox /\ a.legs[s] # "delivered"
        /\ attempts' = [attempts EXCEPT ![i] = r] /\ down' = down
    BY <1>1, <1>7, <1>13 DEF RelayScreened, Terminal, i
  <2>2. Near(r) /\ r.legs = a.legs /\ r.outcome = a.outcome
    BY <1>0, <1>1, <1>2 DEF AttemptRec, Heard, i
  <2> HIDE DEF r, Near
  <2>3. AttemptsGood(i) /\ b = r /\ Same
    BY <1>8, <2>1, <2>2
  <2>4. \A d \in Leaves : Told(d)
    BY <2>1, <2>2, <2>3
  <2> HIDE DEF Told
  <2> QED BY <1>0, <1>5, <2>1, <2>3, <2>4, NothingPosted
<1> QED BY <1>0, <1>1, <1>9, <1>10, <1>11, <1>12, <1>13
        DEF RelayRecv, RelayIntroduction, RelayInvite, RelayInviteOffline, RelayCancelQueued,
            RelayCancel

-----------------------------------------------------------------------------
(* The clock and the connections.                                          *)

\* What waits at the devices' ends stays there.
LEMMA UpStays ==
  ASSUME ForkInv, NEW i \in Sid, UNCHANGED up
  PROVE  UpGood(i)
  BY DEF ForkInv, EndpointInv, TypeOK, InvitesOnce, UpGood

\* An invite expires, in the inbox or at the legs that have said nothing.
LEMMA ExpiresGood == ASSUME ForkInv, NEW i \in Sid, InviteExpires(i) PROVE GoodStep
<1> DEFINE a == attempts[i]
           silent == Outstanding(a) \ a.heard
           legs == [d \in Device |-> IF d \in silent THEN "expired" ELSE a.legs[d]]
           r == [a EXCEPT !.legs = legs]
<1>1. /\ UNCHANGED <<sess, timers, media, up, bound, known>> /\ sess[Caller][i].state # "NONE"
      /\ lapsed' = lapsed \cup {i} /\ lapsed \subseteq Sid
      /\ TakeOut({k \in DOMAIN inbox : inbox[k].type = "invite" /\ inbox[k].sid = i})
      /\ IF Held(i) /\ silent # {} THEN CheckComplete(i, r, down)
         ELSE UNCHANGED attempts /\ down' = down
  BY DEF InviteExpires, Advance, endpointVars, ForkInv, EndpointInv, TypeOK
<1>2. /\ InboxGood(i) /\ Of(inbox', i) \subseteq Of(inbox, i) /\ ~Some(Of(inbox', i), "invite")
      /\ \A n \in Of(inbox, i) : n \in Of(inbox', i) \/ n.type = "invite"
  BY <1>1, Unqueued
<1>3. /\ attempts \in [Sid -> AttemptRec] /\ a \in AttemptRec
      /\ UNCHANGED attempts => AttemptsGood(i)
      /\ Held(i) => a.initiator = Caller /\ a.identity = Callee /\ a.legs[Caller] = "none"
  BY AttemptTypeFacts
<1>4. /\ r \in AttemptRec /\ r.initiator = a.initiator /\ r.identity = a.identity
      /\ r.outcome = a.outcome
      /\ \A d \in Device : r.legs[d] \in {a.legs[d], "expired"}
      /\ \A d \in Device : r.legs[d] # a.legs[d] => a.legs[d] = "delivered"
  BY <1>3 DEF AttemptRec, LegState, Outstanding
<1> HIDE DEF r, silent, a
<1>5. ASSUME NEW d \in Leaves PROVE View(i, d)'.over
  <2>1. (i \in lapsed') = TRUE
    BY <1>1
  <2> QED BY <2>1, Zenon DEF View
<1>6. CASE UNCHANGED attempts /\ down' = down
  <2>1. ASSUME NEW d \in Leaves PROVE TimePasses(d, View(i, d), View(i, d)')
    <3> DEFINE v == View(i, d)
               w == View(i, d)'
    <3>1. /\ Keeps(v, w, {"p", "q", "U", "V", "E"}) /\ v.p.state # "NONE"
          /\ w.a = v.a /\ v.I = Of(inbox, i) /\ w.I = Of(inbox', i) /\ w.D = v.D
      BY <1>1, <1>6, CallerFacts DEF View, Keeps
    <3>2. w.over
      BY <1>5
    <3> HIDE DEF v, w
    <3> QED BY <1>2, <3>1, <3>2 DEF TimePasses, v, w
  <2>2. DownGood(i) /\ UpGood(i) /\ AttemptsGood(i)
    BY <1>1, <1>3, <1>6, NothingPosted, UpStays
  <2> QED BY <1>1, <1>2, <2>1, <2>2, RelayGood DEF Moves
<1>7. CASE Held(i) /\ CheckComplete(i, r, down)
  <2>1. Concluded(i, r)
    BY <1>3, <1>4, <1>7, Concluding
  <2>2. PICK b \in AttemptRec :
          /\ attempts' = [attempts EXCEPT ![i] = b]
          /\ b.initiator = r.initiator /\ b.identity = r.identity /\ b.legs = r.legs
          /\ DownGood(i) /\ \A e \in Leaves : Of(down'[e], i) = Of(down[e], i)
          /\ \/ Of(down'[Caller], i) = Of(down[Caller], i) /\ b.outcome = r.outcome
             \/ \E n : /\ n.type \in {"reject", "error"}
                       /\ Of(down'[Caller], i) = Of(down[Caller], i) \cup {n}
    BY <2>1 DEF Concluded
  <2>3. attempts'[i] = b /\ AttemptsGood(i) /\ UpGood(i)
    BY <1>1, <1>3, <2>2, UpStays DEF AttemptsGood
  <2>4. ASSUME NEW d \in Leaves PROVE TimePasses(d, View(i, d), View(i, d)')
    <3> DEFINE v == View(i, d)
               w == View(i, d)'
    <3>1. /\ Keeps(v, w, {"p", "q", "U", "V", "E"}) /\ v.p.state # "NONE"
          /\ v.a = a /\ w.a = b /\ v.I = Of(inbox, i) /\ w.I = Of(inbox', i)
          /\ v.D = Of(down[Caller], i) /\ w.D = Of(down'[Caller], i)
      BY <1>1, <2>2, <2>3, CallerFacts DEF View, Keeps, a
    <3>2. /\ a.initiator # Nobody /\ b.initiator = a.initiator /\ b.identity = a.identity
          /\ b.legs[Caller] = a.legs[Caller] /\ b.legs[d] \in {a.legs[d], "expired"}
      BY <1>3, <1>4, <1>7, <2>2, CallerFacts DEF Held, a
    <3>3. Concludes(v, w)
      BY <1>4, <2>2, <3>1 DEF Concludes
    <3>4. w.over
      BY <1>5
    <3> HIDE DEF v, w
    <3> QED BY <1>2, <3>1, <3>2, <3>3, <3>4 DEF TimePasses, SameCall, v, w
  <2> QED BY <1>1, <1>2, <2>2, <2>3, <2>4, RelayGood DEF Moves
<1> QED BY <1>1, <1>6, <1>7

\* The relay forgets an attempt nobody speaks of any more.
LEMMA ForgetGood == ASSUME ForkInv, NEW i \in Sid, Forget(i) PROVE GoodStep
<1>1. /\ UNCHANGED <<sess, timers, media, up, bound, known, inbox, lapsed>> /\ down' = down
      /\ attempts' = [attempts EXCEPT ![i] = NoAttempt] /\ lapsed \subseteq Sid
      /\ \A d \in Device : up[d] = <<>> /\ down[d] = <<>>
      /\ sess[Caller][i].state \in {"NONE", "ACTIVE", "ENDED"}
  BY CallerFacts DEF Forget, ForgetAttempt, endpointVars, ForkInv, EndpointInv, TypeOK
<1>2. UpGood(i) /\ DownGood(i) /\ InboxGood(i)
  BY <1>1, UpStays, NothingPosted, InboxStays
<1>3. AttemptsGood(i) /\ attempts'[i] = NoAttempt
  <2>1. NoAttempt \in AttemptRec
    BY EmptySeq DEF NoAttempt, AttemptRec, LegState, Outcome
  <2> QED BY <1>1, <2>1, AttemptTypeFacts DEF AttemptsGood
<1>4. Of(<<>>, i) = {}
  BY DEF Of, In
<1>5. ASSUME NEW d \in Leaves PROVE TimePasses(d, View(i, d), View(i, d)')
  BY <1>1, <1>3, <1>4, CallerFacts DEF TimePasses, View, Keeps, Inviting
<1> QED BY <1>1, <1>2, <1>3, <1>5, RelayGood DEF Moves

\* A leg loses its connection while nothing is in transit on it.
LEMMA DisconnectGood == ASSUME ForkInv, NEW x \in Device, Disconnect(x) PROVE GoodStep
<1>1. /\ UNCHANGED <<sess, timers, media, up, known, attempts, inbox, lapsed>>
      /\ bound' = bound \ {x} /\ x # Caller
      /\ down[x] = <<>> /\ down' = [down EXCEPT ![x] = <<>>]
  BY ForkAssumption DEF Disconnect, Unbind, endpointVars
<1>2. EndpointInv /\ ForkTypes /\ MailSound /\ InvitesOnce
  BY DEF ForkInv
<1>3. UNCHANGED down
  BY <1>1, <1>2 DEF ForkTypes
<1>4. EndpointInv'
  <2>1. up \in [Device -> Seq(Message)]
    BY <1>2 DEF EndpointInv, TypeOK
  <2> QED BY <1>1, <1>2, <2>1, NoSessionInv DEF EndpointInv, TypeOK
<1>5. ForkTypes' /\ MailSound' /\ InvitesOnce'
  BY <1>1, <1>2, <1>3 DEF ForkTypes, MailSound, InvitesOnce
<1>6. \A j \in Sid, d \in Leaves : View(j, d)' = View(j, d)
  BY <1>1, <1>3 DEF View
<1> QED BY <1>4, <1>5, <1>6 DEF GoodStep, Moves

\* A leg x connects.  It gets what was held for it or for all legs, then the
\* invites of the attempts it joins.
LEMMA ConnectGood == ASSUME ForkInv, NEW x \in Device, Connect(x) PROVE GoodStep
<1> DEFINE q == Only(inbox, HeldFor(x))
           S == Joins(x) \ Invited(q)
           to == {x, Callee}
           inv(i) == Msg("invite", Caller, Callee, i, "none", 0)
<1>0. /\ EndpointInv /\ ForkTypes /\ MailSound /\ InvitesOnce /\ Callee \notin Device
      /\ x \in Leaves /\ x # Caller /\ IdentityOf[x] = Callee
      /\ Bind(x, down) /\ UNCHANGED <<sess, timers, media, up, lapsed>>
  BY CallerFacts DEF ForkInv, OneCallee, ForkTypes, Connect, Bind, endpointVars
<1>1. /\ q \in Seq(Message) /\ In(q) = {n \in In(inbox) : n.to \in to}
      /\ inbox' \in Seq(Message) /\ In(inbox') = {n \in In(inbox) : n.to \notin to}
      /\ \A i \in Sid : Sole(q, i) /\ Sole(inbox', i)
  <2> DEFINE K == HeldFor(x)
             L == DOMAIN inbox \ K
  <2>1. K \in SUBSET DOMAIN inbox /\ L \in SUBSET DOMAIN inbox /\ inbox \in Seq(Message)
    BY <1>0 DEF HeldFor, ForkTypes
  <2>2. \A k \in DOMAIN inbox : k \in K <=> inbox[k].to \in to
    BY <1>0 DEF HeldFor
  <2>3. inbox' = Only(inbox, L)
    BY <1>0 DEF Bind, TakeOut
  <2> HIDE DEF K, L, to
  <2>4. /\ Only(inbox, K) \in Seq(Message) /\ In(Only(inbox, K)) = {inbox[k] : k \in K}
        /\ \A i \in Sid : Sole(inbox, i) => Sole(Only(inbox, K), i)
    BY <2>1, OnlyQueue
  <2>5. /\ Only(inbox, L) \in Seq(Message) /\ In(Only(inbox, L)) = {inbox[k] : k \in L}
        /\ \A i \in Sid : Sole(inbox, i) => Sole(Only(inbox, L), i)
    BY <2>1, OnlyQueue
  <2>6. {inbox[k] : k \in K} = {n \in In(inbox) : n.to \in to}
    BY <2>1, <2>2 DEF In
  <2>7. {inbox[k] : k \in L} = {n \in In(inbox) : n.to \notin to}
    BY <2>2 DEF In, L
  <2> QED BY <1>0, <2>3, <2>4, <2>5, <2>6, <2>7 DEF InvitesOnce, K
<1>2. \A n \in In(inbox) : n \in Message /\ FromCaller(n)
  BY <1>0 DEF ForkTypes, MailSound, In
<1>3. \A i \in Sid : i \in Invited(q) <=> Some(Of(inbox, i), "invite")
  <2>1. \A i \in Sid : i \in Invited(q) <=> \E n \in In(q) : n.type = "invite" /\ n.sid = i
    BY DEF Invited, In
  <2> HIDE DEF q
  <2>2. \A n \in In(inbox) : n.type = "invite" => n.to \in to /\ ~Noise(n)
    BY <1>2 DEF FromCaller, Noise
  <2> QED BY <1>1, <2>1, <2>2 DEF Some, Of
<1> HIDE DEF q
<1>4. \A i \in Sid : /\ AttemptFits(View(i, x)) /\ LegFits(x, View(i, x))
                     /\ attempts[i] \in AttemptRec
  BY <1>0 DEF ForkInv, Agrees, ForkTypes
<1>5. \A i \in Sid :
        /\ Held(i) => /\ attempts[i].initiator = Caller /\ attempts[i].identity = Callee
                      /\ attempts[i].legs[Caller] = "none" /\ ~Some(Of(inbox, i), "invite")
        /\ ~Held(i) => attempts[i] = NoAttempt
        /\ Some(Of(inbox, i), "invite") => ~Some(Of(down[x], i), "invite")
        /\ Held(i) /\ attempts[i].legs[x] = "none" => ~Some(Of(down[x], i), "invite")
  BY <1>4 DEF AttemptFits, LegFits, View, Held
<1>6. \A i \in S : /\ i \in Sid /\ Held(i) /\ i \notin Invited(q) /\ attempts[i].legs[x] = "none"
                   /\ attempts[i].outcome = "none"
  BY DEF Joins
<1>7. PICK w \in JoinInvites(S) : down' = [down EXCEPT ![x] = @ \o q \o w]
  BY <1>0 DEF Bind, q
<1> HIDE DEF S
<1>8. /\ w \in Seq(Message) /\ In(w) = {inv(i) : i \in S} /\ \A i \in Sid : Sole(w, i)
  <2>1. /\ S \in SUBSET Sid
        /\ \A i \in S : attempts[i].initiator = Caller /\ attempts[i].identity = Callee
    BY <1>5, <1>6
  <2>2. /\ w \in Seq(Message) /\ \A i \in Sid : Sole(w, i)
        /\ In(w) = {Msg("invite", attempts[i].initiator, attempts[i].identity, i, "none", 0)
                      : i \in S}
    BY <2>1, CallerFacts, JoinQueue
  <2>3. {Msg("invite", attempts[i].initiator, attempts[i].identity, i, "none", 0) : i \in S}
          = {inv(i) : i \in S}
    BY <2>1
  <2> QED BY <2>2, <2>3
<1>9. \A i \in S : /\ inv(i).type = "invite" /\ inv(i).sid = i /\ ~Noise(inv(i))
                   /\ ToCallee(x, inv(i))
  BY DEF Msg, Noise, ToCallee, FromCaller
<1>10. \A i \in Sid : /\ \A n \in Of(w, i) : n.type = "invite"
                      /\ Some(Of(w, i), "invite") <=> i \in S
  <2> HIDE DEF inv
  <2> QED BY <1>8, <1>9 DEF Of, Some
<1> HIDE DEF inv
<1>11. /\ down' \in [Device -> Seq(Message)] /\ \A e \in Device : e # x => down'[e] = down[e]
       /\ In(down'[x]) = In(down[x]) \cup In(q) \cup In(w)
       /\ \A i \in Sid : /\ Of(down'[x], i) = Of(down[x], i) \cup Of(q, i) \cup Of(w, i)
                         /\ Sole(down'[x], i)
  <2> DEFINE r == down[x] \o q
  <2>1. down \in [Device -> Seq(Message)] /\ down'[x] = r \o w
    BY <1>0, <1>7 DEF ForkTypes
  <2>2. Joined(down[x], q, r)
    BY <1>1, <2>1, ConcatQueue
  <2>3. /\ r \in Seq(Message) /\ In(r) = In(down[x]) \cup In(q)
        /\ \A i \in Sid : /\ Of(r, i) = Of(down[x], i) \cup Of(q, i)
                          /\ Sole(down[x], i) /\ ~Some(Of(q, i), "invite") => Sole(r, i)
                          /\ Sole(q, i) /\ ~Some(Of(down[x], i), "invite") => Sole(r, i)
    BY <2>2 DEF Joined
  <2> HIDE DEF r
  <2>4. Joined(r, w, down'[x])
    BY <1>8, <2>1, <2>3, ConcatQueue
  <2>5. /\ down'[x] \in Seq(Message) /\ In(down'[x]) = In(r) \cup In(w)
        /\ \A i \in Sid : /\ Of(down'[x], i) = Of(r, i) \cup Of(w, i)
                          /\ Sole(r, i) /\ ~Some(Of(w, i), "invite") => Sole(down'[x], i)
                          /\ Sole(w, i) /\ ~Some(Of(r, i), "invite") => Sole(down'[x], i)
    BY <2>4 DEF Joined
  <2>6. ASSUME NEW i \in Sid PROVE Sole(down'[x], i)
    <3>1. Some(Of(q, i), "invite") => Some(Of(inbox, i), "invite")
      BY <1>1 DEF Some, Of
    <3>2. Sole(down[x], i) /\ Sole(q, i) /\ Sole(w, i)
      BY <1>0, <1>1, <1>8 DEF InvitesOnce
    <3>3. CASE i \in S
      <4>1. ~Some(Of(q, i), "invite") /\ ~Some(Of(down[x], i), "invite")
        BY <1>3, <1>5, <1>6, <3>1, <3>3
      <4>2. ~Some(Of(r, i), "invite")
        BY <2>3, <4>1 DEF Some
      <4> QED BY <2>5, <3>2, <4>2
    <3>4. CASE i \notin S
      BY <1>5, <1>10, <2>3, <2>5, <3>1, <3>2, <3>4
    <3> QED BY <3>3, <3>4
  <2>7. \A e \in Device : e # x => down'[e] = down[e]
    BY <1>7
  <2>8. down' \in [Device -> Seq(Message)]
    BY <1>7, <2>1, <2>5
  <2> QED BY <2>3, <2>5, <2>6, <2>7, <2>8
<1>12. \A i \in Sid :
         attempts'[i] = IF i \in Invited(q) THEN Attempt(Caller, Callee, {x})
                        ELSE IF i \in S THEN [attempts[i] EXCEPT !.legs[x] = "delivered"]
                        ELSE attempts[i]
  <2>1. ASSUME NEW i \in Invited(q)
        PROVE  InviteIn(q, i).from = Caller /\ InviteIn(q, i).to = Callee
    <3> DEFINE P(k) == q[k].type = "invite" /\ q[k].sid = i
               k == CHOOSE k \in DOMAIN q : P(k)
    <3>1. \E n \in DOMAIN q : P(n)
      BY DEF Invited
    <3>2. k \in DOMAIN q /\ P(k)
      <4> HIDE DEF P
      <4> QED BY <3>1
    <3>3. InviteIn(q, i) = q[k]
      BY DEF InviteIn
    <3> HIDE DEF k
    <3>4. q[k] \in In(q) /\ FromCaller(q[k]) /\ ~Noise(q[k]) /\ q[k].type = "invite"
      BY <1>1, <1>2, <3>2 DEF In, Noise
    <3> QED BY <3>3, <3>4 DEF FromCaller
  <2>2. \A i \in Invited(q) : i \in Sid /\ ~Held(i)
    BY <1>3, <1>5 DEF Invited
  <2>3. attempts' = [i \in Sid |->
          CASE i \in Invited(q) /\ ~Held(i) ->
                 Attempt(InviteIn(q, i).from, InviteIn(q, i).to, {x})
            [] i \in S \/ (i \in Invited(q) /\ Held(i)) ->
                 [attempts[i] EXCEPT !.legs[x] = "delivered"]
            [] OTHER -> attempts[i]]
    BY <1>0 DEF Bind, q, S
  <2>4. ASSUME NEW i \in Invited(q) PROVE attempts'[i] = Attempt(Caller, Callee, {x})
    <3>1. i \in Sid /\ ~Held(i) /\ i \notin S
      BY <1>6, <2>2
    <3>2. attempts'[i] = Attempt(InviteIn(q, i).from, InviteIn(q, i).to, {x})
      BY <2>3, <3>1
    <3> QED BY <2>1, <3>2
  <2>5. ASSUME NEW i \in Sid, i \notin Invited(q)
        PROVE  attempts'[i] = IF i \in S THEN [attempts[i] EXCEPT !.legs[x] = "delivered"]
                              ELSE attempts[i]
    BY <2>3, <2>5
  <2> QED BY <2>4, <2>5
<1>13. /\ attempts' \in [Sid -> AttemptRec]
       /\ \A i \in Sid : i \in Invited(q) \/ i \in S =>
            LET b == attempts'[i] IN
            /\ b.initiator = Caller /\ b.identity = Callee /\ b.outcome = "none"
            /\ b.legs[x] = "delivered"
            /\ \A d \in Device : d # x => b.legs[d] = attempts[i].legs[d]
  <2>1. ASSUME NEW i \in Sid, i \in Invited(q)
        PROVE  /\ attempts'[i] \in AttemptRec
               /\ LET b == attempts'[i] IN
                  /\ b.initiator = Caller /\ b.identity = Callee /\ b.outcome = "none"
                  /\ b.legs[x] = "delivered"
                  /\ \A d \in Device : d # x => b.legs[d] = attempts[i].legs[d]
    <3> DEFINE r == Attempt(Caller, Callee, {x})
    <3>1. /\ r \in AttemptRec
          /\ r.initiator = Caller /\ r.identity = Callee /\ r.outcome = "none"
          /\ r.legs[x] = "delivered" /\ \A d \in Device : d # x => r.legs[d] = NoAttempt.legs[d]
      BY CallerFacts, EmptySeq DEF Attempt, NoAttempt, AttemptRec, LegState, Outcome
    <3>2. attempts'[i] = r /\ attempts[i] = NoAttempt
      BY <1>3, <1>5, <1>12, <2>1
    <3> HIDE DEF r
    <3> QED BY <3>1, <3>2
  <2>2. ASSUME NEW i \in Sid, i \in S
        PROVE  /\ attempts'[i] \in AttemptRec
               /\ LET b == attempts'[i] IN
                  /\ b.initiator = Caller /\ b.identity = Callee /\ b.outcome = "none"
                  /\ b.legs[x] = "delivered"
                  /\ \A d \in Device : d # x => b.legs[d] = attempts[i].legs[d]
    <3> DEFINE r == [attempts[i] EXCEPT !.legs[x] = "delivered"]
    <3>1. /\ r \in AttemptRec
          /\ r.initiator = attempts[i].initiator /\ r.identity = attempts[i].identity
          /\ r.outcome = attempts[i].outcome /\ r.legs[x] = "delivered"
          /\ \A d \in Device : d # x => r.legs[d] = attempts[i].legs[d]
      BY <1>0, <1>4 DEF AttemptRec, LegState
    <3>2. attempts'[i] = r /\ i \notin Invited(q)
      BY <1>6, <1>12, <2>2
    <3>3. /\ attempts[i].initiator = Caller /\ attempts[i].identity = Callee
          /\ attempts[i].outcome = "none"
      BY <1>5, <1>6, <2>2
    <3> HIDE DEF r
    <3> QED BY <3>1, <3>2, <3>3
  <2>3. ASSUME NEW i \in Sid, i \notin Invited(q), i \notin S
        PROVE  attempts'[i] \in AttemptRec
    BY <1>4, <1>12, <2>3
  <2>4. \A i \in Sid : attempts'[i] \in AttemptRec
    BY <2>1, <2>2, <2>3
  <2>5. attempts' = [i \in Sid |-> attempts'[i]]
    BY <1>0 DEF Bind
  <2>6. attempts' \in [Sid -> AttemptRec]
    BY <2>4, <2>5
  <2> QED BY <2>1, <2>2, <2>6
<1>14. ForkTypes' /\ EndpointInv'
  <2>1. bound' = bound \cup {x} /\ known' = known \cup {x, IdentityOf[x]}
    BY <1>0 DEF Bind
  <2>2. known' = known
    BY <1>0, <2>1, CallerFacts DEF ForkTypes
  <2>3. ForkTypes'
    BY <1>0, <1>1, <1>11, <1>13, <2>1, <2>2 DEF ForkTypes
  <2>4. up \in [Device -> Seq(Message)] /\ lapsed \subseteq Sid
    BY <1>0 DEF EndpointInv, TypeOK
  <2> QED BY <1>0, <2>3, <2>4, NoSessionInv
<1>15. MailSound' /\ InvitesOnce'
  <2>1. \A n \in In(down'[x]) : ToCallee(x, n)
    <3>1. \A n \in In(down[x]) : ToCallee(x, n)
      BY <1>0 DEF MailSound
    <3>2. \A n \in In(q) : ToCallee(x, n)
      BY <1>1, <1>2 DEF ToCallee
    <3>3. \A n \in In(w) : ToCallee(x, n)
      BY <1>8, <1>9
    <3> QED BY <1>11, <3>1, <3>2, <3>3
  <2>2. MailSound'
    BY <1>0, <1>1, <1>11, <2>1, CallerFacts DEF MailSound
  <2>3. InvitesOnce'
    BY <1>0, <1>1, <1>11, CallerFacts DEF InvitesOnce
  <2> QED BY <2>2, <2>3
<1>16. ASSUME NEW i \in Sid, NEW d \in Leaves PROVE LegConnects(d, x, View(i, d), View(i, d)')
  <2> DEFINE v == View(i, d)
             W == View(i, d)'
  <2>1. /\ Keeps(v, W, {"p", "q", "over", "U", "V", "D"})
        /\ v.a = attempts[i] /\ W.a = attempts'[i]
        /\ v.I = Of(inbox, i) /\ W.I = Of(inbox', i)
        /\ v.E = Of(down[d], i) /\ W.E = Of(down'[d], i)
    BY <1>0, <1>11, CallerFacts DEF View, Keeps
  <2>2. /\ Of(inbox', i) = {n \in Of(inbox, i) : n.to \notin to}
        /\ Of(q, i) = {n \in Of(inbox, i) : n.to \in to}
    <3> HIDE DEF to
    <3> QED BY <1>1 DEF Of
  <2>3. W.I \subseteq v.I
    BY <2>1, <2>2
  <2>4. IF d = x THEN /\ v.E \subseteq W.E /\ \A n \in v.I : n \in W.I \/ n \in W.E
                      /\ \A n \in W.E : n \in v.E \/ n \in v.I \/ n.type = "invite"
                 ELSE W.E = v.E /\ \A n \in v.I : n \in W.I \/ (n.type = "bye" => n.to # d)
    <3>1. CASE d = x
      <4>1. W.E = v.E \cup Of(q, i) \cup Of(w, i)
        BY <1>11, <2>1, <3>1
      <4> HIDE DEF v, W
      <4> QED BY <1>10, <2>1, <2>2, <3>1, <4>1
    <3>2. CASE d # x
      <4>1. W.E = v.E /\ d # Callee
        BY <1>0, <1>11, <2>1, <3>2, CallerFacts
      <4> HIDE DEF v, W
      <4> QED BY <2>1, <2>2, <3>2, <4>1
    <3> QED BY <3>1, <3>2
  <2>5. /\ Some(v.I, "invite") <=> i \in Invited(q)
        /\ i \in Invited(q) => ~Some(W.I, "invite")
    <3>1. \A n \in Of(inbox, i) : n.type = "invite" => n.to = Callee
      BY <1>2 DEF Of, FromCaller
    <3> HIDE DEF v, W
    <3> QED BY <1>3, <2>1, <2>2, <3>1 DEF Some
  <2>6. CASE i \notin Invited(q) /\ i \notin S
    <3>1. W.a = v.a /\ ~Some(v.I, "invite")
      BY <1>12, <2>1, <2>5, <2>6
    <3>2. Some(W.E, "invite") => Some(v.E, "invite")
      <4>1. ~Some(Of(w, i), "invite") /\ ~Some(Of(q, i), "invite")
        <5>1. ~Some(Of(inbox, i), "invite")
          BY <1>3, <2>6
        <5> QED BY <1>10, <2>2, <2>6, <5>1 DEF Some
      <4>2. W.E = v.E \/ W.E = v.E \cup Of(q, i) \cup Of(w, i)
        BY <1>11, <2>1, CallerFacts
      <4> HIDE DEF v, W
      <4> QED BY <4>1, <4>2 DEF Some
    <3> HIDE DEF v, W
    <3> QED BY <2>1, <2>3, <2>4, <3>1, <3>2 DEF LegConnects, v, W
  <2>7. CASE i \in Invited(q) \/ i \in S
    <3>1. /\ W.a.initiator = Caller /\ W.a.identity = Callee /\ W.a.outcome = "none"
          /\ W.a.legs[x] = "delivered" /\ \A e \in Device : e # x => W.a.legs[e] = v.a.legs[e]
      BY <1>13, <2>1, <2>7
    <3>2. \/ /\ v.a.initiator = Caller /\ v.a.identity = Callee /\ v.a.outcome = "none"
             /\ v.a.legs[x] = "none"
          \/ Some(v.I, "invite") /\ ~Some(W.I, "invite")
      BY <1>5, <1>6, <2>1, <2>5, <2>7
    <3>3. v.a.legs[Caller] = "none"
      BY <1>5, <2>1, CallerFacts DEF NoAttempt
    <3>4. d = x => Some(W.E, "invite")
      <4>1. Some(Of(q, i), "invite") \/ Some(Of(w, i), "invite")
        <5>1. \A n \in Of(inbox, i) : n.type = "invite" => n.to = Callee
          BY <1>2 DEF Of, FromCaller
        <5> QED BY <1>3, <1>10, <2>2, <2>7, <5>1 DEF Some
      <4>2. d = x => W.E = v.E \cup Of(q, i) \cup Of(w, i)
        BY <1>11, <2>1
      <4> HIDE DEF v, W
      <4> QED BY <4>1, <4>2 DEF Some
    <3>5. Caller # Nobody /\ Caller \in Device /\ x # Caller /\ d \in Device
      BY <1>0, CallerFacts, PartyAssumption
    <3> HIDE DEF v, W
    <3> QED BY <2>1, <2>3, <2>4, <3>1, <3>2, <3>3, <3>4, <3>5 DEF LegConnects, SameCall, v, W
  <2> QED BY <2>6, <2>7
<1> QED BY <1>0, <1>14, <1>15, <1>16 DEF GoodStep, Moves

-----------------------------------------------------------------------------
(* The theorems.                                                           *)

\* Every step keeps the invariant.
LEMMA StepGood == ASSUME ForkInv, ForkNext PROVE GoodStep
<1>1. ASSUME NEW i \in Sid, Call(i) \/ InviteExpires(i) \/ Forget(i) PROVE GoodStep
  BY <1>1, CallGood, ExpiresGood, ForgetGood
<1>2. ASSUME NEW d \in Device, RelayTakes(d) PROVE GoodStep
  BY <1>2, RelayNoise, CallerHeard, LegHeard, CallerFacts
<1>3. ASSUME NEW d \in Device, Receive(d) \/ Connect(d) \/ Disconnect(d) PROVE GoodStep
  BY <1>3, ReceiveGood, ConnectGood, DisconnectGood
<1>4. ASSUME NEW d \in Device, NEW i \in Sid, DecideLeg(d, i) \/ UserStep(d, i) \/ TimerStep(d, i)
      PROVE  GoodStep
  BY <1>4, LocalGood
<1> QED BY <1>1, <1>2, <1>3, <1>4 DEF ForkNext

\* A step of nobody changes nothing.
LEMMA StillGood == ASSUME ForkInv, UNCHANGED forkVars PROVE GoodStep
<1>1. EndpointInv' /\ ForkTypes' /\ MailSound' /\ InvitesOnce'
  BY DEF ForkInv, forkVars, EndpointInv, TypeOK, TimersOf, Running, ForkTypes, MailSound,
         InvitesOnce
<1>2. \A i \in Sid, d \in Leaves : View(i, d)' = View(i, d)
  BY DEF forkVars, View
<1> QED BY <1>1, <1>2 DEF GoodStep, Moves

\* Nobody has called yet.
LEMMA ForkInitInv == ASSUME OneCallee, ForkInit PROVE ForkInv /\ TalkInv
<1>1. EndpointInv
  BY EndpointInitInv DEF ForkInit
<1>2. ForkTypes
  <2>1. <<>> \in Seq(Message) /\ NoAttempt \in AttemptRec
    BY EmptySeq DEF NoAttempt, AttemptRec, LegState, Outcome
  <2> QED BY <2>1, ForkAssumption DEF ForkInit, ForkTypes
<1>3. In(<<>>) = {} /\ \A i : Of(<<>>, i) = {} /\ Sole(<<>>, i) /\ Leads(<<>>, i)
  BY DEF In, Of, Sole, Leads
<1>4. \A d \in Device : up[d] = <<>> /\ down[d] = <<>>
  BY DEF ForkInit, Init
<1>5. MailSound /\ InvitesOnce
  BY <1>3, <1>4, CallerFacts DEF MailSound, InvitesOnce, ForkInit
<1>6. ASSUME NEW i \in Sid, NEW d \in Leaves
      PROVE  Agrees(d, View(i, d)) /\ Talks(d, View(i, d))
  <2> DEFINE v == View(i, d)
  <2>1. /\ v.p.state = "NONE" /\ v.q.state = "NONE" /\ v.a = NoAttempt
        /\ v.U = {} /\ v.V = {} /\ v.I = {} /\ v.D = {} /\ v.E = {}
    BY <1>3, <1>4, CallerFacts DEF View, ForkInit, Init, Blank
  <2>2. NoAttempt.initiator = Nobody /\ NoAttempt.legs[d] = "none"
    BY CallerFacts DEF NoAttempt
  <2> HIDE DEF v
  <2> QED BY <2>1, <2>2 DEF Agrees, CallerFits, AttemptFits, Waits, LegFits, Talks, Answers,
                            Leaving, Some, Inviting, v
<1> QED BY <1>1, <1>2, <1>5, <1>6 DEF ForkInv, TalkInv

\* Whatever leg is called, and however the call goes at it, what the caller, the
\* leg and the relay have on record of it and what is on its way between them
\* fit together.
THEOREM ForkInvariant == OneCallee => (ForkSpec => []ForkInv)
<1> SUFFICES ASSUME OneCallee PROVE ForkSpec => []ForkInv
  OBVIOUS
<1>1. ForkInit => ForkInv
  BY ForkInitInv
<1>2. ForkInv /\ [ForkNext]_forkVars => ForkInv'
  BY StepGood, StillGood, GoodStepInv
<1> QED BY <1>1, <1>2, PTL DEF ForkSpec

\* At rest nothing is on its way between caller, relay and leg.
LEMMA AtRest ==
  ASSUME ~InTransit, NEW i \in Sid, NEW d \in Leaves
  PROVE  LET v == View(i, d) IN v.U = {} /\ v.V = {} /\ v.I = {} /\ v.D = {} /\ v.E = {}
<1>1. Of(<<>>, i) = {}
  BY DEF Of, In
<1>2. up[Caller] = <<>> /\ down[Caller] = <<>> /\ up[d] = <<>> /\ down[d] = <<>> /\ inbox = <<>>
  BY CallerFacts DEF InTransit
<1> QED BY <1>1, <1>2 DEF View

\* At rest the relay counts only on legs that can still answer, and a leg it has
\* noted to have rejected is out of the call.
THEOREM LegRecordsAgree == OneCallee => (ForkSpec => []LegRecordsAgreeAtRest)
<1> SUFFICES ASSUME OneCallee PROVE ForkSpec => []LegRecordsAgreeAtRest
  OBVIOUS
<1>1. ASSUME ForkInv PROVE LegRecordsAgreeAtRest
  <2> SUFFICES ASSUME ~InTransit, NEW i \in Sid, NEW d \in Leaves
               PROVE  /\ attempts[i].legs[d] = "delivered" =>
                           sess[d][i].state \in {"OFFERED", "ALERTING"}
                      /\ attempts[i].legs[d] = "rejected" => sess[d][i].state = "ENDED"
    BY DEF LegRecordsAgreeAtRest
  <2>1. LegFits(d, View(i, d))
    BY <1>1 DEF ForkInv, Agrees
  <2> QED BY <2>1, AtRest DEF LegFits, View, Some
<1> QED BY <1>1, ForkInvariant, PTL

\* At rest a caller that still waits waits for an open attempt of the relay, or
\* for its own timer because the invite expired before anybody got it.
THEOREM NobodyWaitsInVain == OneCallee => (ForkSpec => []WaitsForSomebody)
<1> SUFFICES ASSUME OneCallee PROVE ForkSpec => []WaitsForSomebody
  OBVIOUS
<1>1. ASSUME ForkInv PROVE WaitsForSomebody
  <2> SUFFICES ASSUME ~InTransit, NEW i \in Sid, sess[Caller][i].state \in Inviting
               PROVE  (Held(i) /\ attempts[i].outcome = "none") \/ (i \in lapsed /\ ~Held(i))
    BY DEF WaitsForSomebody
  <2>1. PICK d : d \in Leaves
    BY <1>1 DEF ForkInv, OneCallee
  <2>2. Waits(View(i, d))
    BY <1>1, <2>1 DEF ForkInv, Agrees
  <2>3. View(i, d).over => i \in lapsed
    BY Zenon DEF View
  <2> QED BY <2>1, <2>2, <2>3, AtRest DEF Waits, View, Some, Held
<1> QED BY <1>1, ForkInvariant, PTL

\* Where the legs do not hang up, at rest exactly the leg the caller talks to
\* is in the call.
THEOREM OneLegActive ==
  OneCallee /\ MayHangUp \cap Leaves = {} => (ForkSpec => []OneLegActiveAtRest)
<1> SUFFICES ASSUME OneCallee, MayHangUp \cap Leaves = {}
             PROVE  ForkSpec => []OneLegActiveAtRest
  OBVIOUS
<1>1. ForkInit => ForkInv /\ TalkInv
  BY ForkInitInv
<1>2. ForkInv /\ TalkInv /\ [ForkNext]_forkVars => ForkInv' /\ TalkInv'
  BY StepGood, StillGood, GoodStepInv
<1>3. ASSUME TalkInv PROVE OneLegActiveAtRest
  <2> SUFFICES ASSUME ~InTransit, NEW i \in Sid, NEW d \in Leaves
               PROVE  sess[d][i].state = "ACTIVE" <=>
                        sess[Caller][i].state = "ACTIVE" /\ sess[Caller][i].peer = d
    BY DEF OneLegActiveAtRest
  <2>1. Talks(d, View(i, d))
    BY <1>3 DEF TalkInv
  <2> QED BY <2>1, AtRest DEF Talks, Answers, Leaving, View, Some
<1> QED BY <1>1, <1>2, <1>3, PTL DEF ForkSpec
=============================================================================
