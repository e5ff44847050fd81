------------------------------ MODULE CallProofs ------------------------------
(***************************************************************************)
(* Proofs about DirectCall: two devices agree on every call, on every      *)
(* update and on the outcome of glare once nothing is in transit.          *)
(*                                                                         *)
(* The argument is about one session at a time: its record at the device   *)
(* that places the call, its record at the other, and the messages about   *)
(* it on the two connections, of which only the kinds and their order      *)
(* matter.                                                                 *)
(***************************************************************************)
EXTENDS DirectCall, EndpointProofs

-----------------------------------------------------------------------------
(* What is on a connection.                                                *)

\* The kind of a message: a cancel tells whether the call was answered on
\* another device, an answer or a reject is a reply when it is about an update.
KindOf(m) ==
  CASE m.type = "cancel" /\ m.tag = "session.answered-elsewhere" -> "elsewhere"
    [] m.type = "cancel" /\ m.tag # "session.answered-elsewhere" -> "withdraw"
    [] m.type \in {"answer", "reject"} /\ m.upd # 0 -> "reply"
    [] OTHER -> m.type
Kind == MessageType \cup {"elsewhere", "withdraw", "reply"}

\* The update that an update or a reply is about.
AboutOf(m) == IF KindOf(m) \in {"update", "reply"} THEN m.upd ELSE 0
AnyUpdate == UpdateId \cup {0}

Is(m, i, k, u) == m.sid = i /\ KindOf(m) = k /\ AboutOf(m) = u

\* Connection s carries a message of session i and kind k, about update u; at
\* most one; all of these before any of another kind; nothing of session i.
Has(s, i, k, u) == \E n \in DOMAIN s : Is(s[n], i, k, u)
Once(s, i, k, u) == \A n, l \in DOMAIN s : Is(s[n], i, k, u) /\ Is(s[l], i, k, u) => n = l
Before(s, i, k, u, b, v) == \A n, l \in DOMAIN s : Is(s[n], i, k, u) /\ Is(s[l], i, b, v) => n < l
Idle(s, i) == \A k \in Kind, u \in AnyUpdate : ~Has(s, i, k, u)
Carries(s, i, K) == \E k \in K : Has(s, i, k, 0)

Talk == {"update", "reply", "info"}
\* Of session i, connection s carries no talk.
NoTalk(s, i) == \A k \in Talk, u \in AnyUpdate : ~Has(s, i, k, u)
\* The answer precedes a bye and all talk.
AnswerFirst(s, i) ==
  /\ Before(s, i, "answer", 0, "bye", 0)
  /\ \A k \in Talk, u \in AnyUpdate : Before(s, i, "answer", 0, k, u)

\* Connection E carries, of session i, what C does, in that order; no more.
Less(i, C, E) ==
  \A k \in Kind, u \in AnyUpdate :
    /\ Has(E, i, k, u) => Has(C, i, k, u)
    /\ Once(C, i, k, u) => Once(E, i, k, u)
    /\ \A b \in Kind, v \in AnyUpdate :
         Before(C, i, k, u, b, v) => Before(E, i, k, u, b, v)

Same(i, C, E) ==
  Less(i, C, E) /\ \A k \in Kind, u \in AnyUpdate : Has(C, i, k, u) => Has(E, i, k, u)

\* The oldest message of C, one of session i and kind k about u, has been taken.
Taken(i, C, E, k, u) ==
  /\ k \in Kind /\ u \in AnyUpdate
  /\ Less(i, C, E)
  /\ Has(C, i, k, u)
  /\ Once(C, i, k, u) => ~Has(E, i, k, u)
  /\ \A b \in Kind, v \in AnyUpdate :
       b # k \/ v # u => /\ Has(C, i, b, v) => Has(E, i, b, v)
                         /\ Before(C, i, b, v, k, u) => ~Has(C, i, b, v)

\* One message has been added: of session i and kind k about u.
Sent(i, C, E, k, u) ==
  /\ k \in Kind /\ u \in AnyUpdate
  /\ Has(E, i, k, u)
  /\ ~Has(C, i, k, u) => Once(E, i, k, u)
  /\ \A b \in Kind, v \in AnyUpdate :
       /\ Has(C, i, b, v) => Has(E, i, b, v)
       /\ ~Has(C, i, b, v) /\ (b # k \/ v # u) => Before(E, i, k, u, b, v)
       /\ b # k \/ v # u =>
            /\ Has(E, i, b, v) => Has(C, i, b, v)
            /\ Once(C, i, b, v) => Once(E, i, b, v)
            /\ ~Has(C, i, k, u) => Before(E, i, b, v, k, u)
            /\ \A c \in Kind, w \in AnyUpdate :
                 Before(C, i, b, v, c, w) => Before(E, i, b, v, c, w)

\* The same for a step that may leave the connection alone: k is then "nothing".
Takes(i, C, E, k, u) == IF k = "nothing" THEN Same(i, C, E) ELSE Taken(i, C, E, k, u)
Sends(i, C, E, k, u) == IF k = "nothing" THEN Same(i, C, E) ELSE Sent(i, C, E, k, u)

\* Every message has a kind.
LEMMA KindType ==
  ASSUME NEW m \in Message PROVE KindOf(m) \in Kind /\ AboutOf(m) \in AnyUpdate
  BY DEF KindOf, Kind, AboutOf, AnyUpdate, Message, MessageType

\* Taking the oldest message and adding a newest one are just that.
LEMMA TailTaken ==
  ASSUME NEW C \in Seq(Message), C # <<>>, NEW i \in Sid
  PROVE  /\ Head(C).sid = i => Taken(i, C, Tail(C), KindOf(Head(C)), AboutOf(Head(C)))
         /\ Head(C).sid # i => Same(i, C, Tail(C))
<1> DEFINE m == Head(C)
           E == Tail(C)
<1>1. /\ m \in Message /\ m = C[1] /\ E \in Seq(Message)
      /\ DOMAIN C = 1 .. Len(C) /\ Len(C) \in Nat \ {0}
      /\ DOMAIN E = 1 .. Len(C) - 1
      /\ \A n \in 1 .. Len(C) - 1 : E[n] = C[n + 1]
  BY HeadTailProperties, EmptySeq, LenProperties
<1>2. KindOf(m) \in Kind /\ AboutOf(m) \in AnyUpdate
  BY <1>1, KindType
<1> HIDE DEF m, E
<1>3. Less(i, C, E)
  <2>1. \A n \in DOMAIN E : n \in Int /\ n + 1 \in DOMAIN C /\ E[n] = C[n + 1]
    BY <1>1
  <2>2. ASSUME NEW k, NEW u, Has(E, i, k, u) PROVE Has(C, i, k, u)
    BY <2>1, <2>2 DEF Has
  <2>3. ASSUME NEW k, NEW u, Once(C, i, k, u) PROVE Once(E, i, k, u)
    <3> SUFFICES ASSUME NEW n \in DOMAIN E, NEW l \in DOMAIN E,
                        Is(E[n], i, k, u), Is(E[l], i, k, u)
                 PROVE  n = l
      BY DEF Once
    <3>1. n + 1 = l + 1
      BY <2>1, <2>3 DEF Once
    <3> QED BY <2>1, <3>1
  <2>4. ASSUME NEW k, NEW u, NEW b, NEW v, Before(C, i, k, u, b, v)
        PROVE  Before(E, i, k, u, b, v)
    <3> SUFFICES ASSUME NEW n \in DOMAIN E, NEW l \in DOMAIN E,
                        Is(E[n], i, k, u), Is(E[l], i, b, v)
                 PROVE  n < l
      BY DEF Before
    <3>1. n + 1 < l + 1
      BY <2>1, <2>4 DEF Before
    <3> QED BY <2>1, <3>1
  <2> QED BY <2>2, <2>3, <2>4 DEF Less
<1>4. ASSUME NEW b \in Kind, NEW v \in AnyUpdate, Has(C, i, b, v), ~Is(m, i, b, v)
      PROVE  Has(E, i, b, v)
  <2>1. PICK n \in 1 .. Len(C) : Is(C[n], i, b, v)
    BY <1>1, <1>4 DEF Has
  <2>2. n # 1 /\ n - 1 \in 1 .. Len(C) - 1 /\ E[n - 1] = C[n]
    BY <1>1, <1>4, <2>1
  <2> QED BY <1>1, <2>1, <2>2 DEF Has
<1>5. ASSUME m.sid # i PROVE Same(i, C, E)
  BY <1>3, <1>4, <1>5 DEF Same, Is
<1>6. ASSUME m.sid = i PROVE Taken(i, C, E, KindOf(m), AboutOf(m))
  <2> DEFINE k == KindOf(m)
             u == AboutOf(m)
  <2>1. Is(m, i, k, u)
    BY <1>6 DEF Is
  <2>2. \A b, v : b # k \/ v # u => ~Is(m, i, b, v)
    BY DEF Is
  <2> HIDE DEF k, u
  <2>3. Has(C, i, k, u)
    BY <1>1, <2>1 DEF Has
  <2>4. Once(C, i, k, u) => ~Has(E, i, k, u)
    BY <1>1, <2>1 DEF Has, Once
  <2>5. ASSUME NEW b \in Kind, NEW v \in AnyUpdate, Before(C, i, b, v, k, u)
        PROVE  ~Has(C, i, b, v)
    BY <1>1, <2>1, <2>5 DEF Has, Before
  <2>6. k \in Kind /\ u \in AnyUpdate
    BY <1>2 DEF k, u
  <2> QED BY <1>3, <1>4, <2>2, <2>3, <2>4, <2>5, <2>6 DEF Taken, k, u
<1> QED BY <1>5, <1>6 DEF m, E

\* A connection to which messages w have been added, at most one of session i.
LEMMA ConcatSent ==
  ASSUME NEW C \in Seq(Message), NEW w \in Seq(Message), NEW E, E = C \o w, NEW i \in Sid
  PROVE  /\ E \in Seq(Message)
         /\ \A l \in DOMAIN E : (l \in DOMAIN C /\ E[l] = C[l]) \/ \E n \in DOMAIN w : E[l] = w[n]
         /\ (\A n \in DOMAIN w : w[n].sid # i) => Same(i, C, E)
         /\ \A n \in DOMAIN w :
              w[n].sid = i /\ (\A l \in DOMAIN w : w[l].sid = i => l = n) =>
                Sent(i, C, E, KindOf(w[n]), AboutOf(w[n]))
<1>1. /\ E \in Seq(Message)
      /\ DOMAIN C = 1 .. Len(C) /\ Len(C) \in Nat
      /\ DOMAIN w = 1 .. Len(w) /\ Len(w) \in Nat
      /\ DOMAIN E = 1 .. Len(C) + Len(w)
      /\ \A l \in 1 .. Len(C) : E[l] = C[l]
      /\ \A n \in 1 .. Len(w) : E[Len(C) + n] = w[n]
  BY ConcatProperties, LenProperties
<1>2. PICK c \in Nat : c = Len(C)
  BY <1>1
<1>3. /\ \A l \in DOMAIN C : l \in DOMAIN E /\ E[l] = C[l] /\ l \in Int /\ l <= c
      /\ \A l \in DOMAIN E :
           \/ l \in DOMAIN C /\ E[l] = C[l] /\ l \in Int /\ l <= c
           \/ l - c \in DOMAIN w /\ E[l] = w[l - c] /\ l \in Int /\ c < l
      /\ \A n \in DOMAIN w : c + n \in DOMAIN E /\ E[c + n] = w[n]
  <2>1. ASSUME NEW l \in DOMAIN E, l \notin DOMAIN C
        PROVE  l - c \in DOMAIN w /\ E[l] = w[l - c] /\ l \in Int /\ c < l
    <3>1. l \in Int /\ c < l /\ l - c \in 1 .. Len(w)
      BY <1>1, <1>2, <2>1
    <3>2. E[c + (l - c)] = w[l - c]
      BY <1>1, <1>2, <3>1
    <3>3. c + (l - c) = l
      BY <3>1
    <3> QED BY <1>1, <3>1, <3>2, <3>3
  <2>2. \A l \in DOMAIN C : l \in DOMAIN E /\ E[l] = C[l] /\ l \in Int /\ l <= c
    BY <1>1, <1>2
  <2>3. \A n \in DOMAIN w : c + n \in DOMAIN E /\ E[c + n] = w[n]
    BY <1>1, <1>2
  <2> QED BY <2>1, <2>2, <2>3
<1>4. \A b, v : Has(C, i, b, v) => Has(E, i, b, v)
  BY <1>3 DEF Has
<1>5. ASSUME NEW b, NEW v, \A n \in DOMAIN w : ~Is(w[n], i, b, v)
      PROVE  \A l \in DOMAIN E :
               Is(E[l], i, b, v) => l \in DOMAIN C /\ E[l] = C[l] /\ l \in Int /\ l <= c
  BY <1>3, <1>5
<1>6. ASSUME NEW b, NEW v, \A n \in DOMAIN w : ~Is(w[n], i, b, v)
      PROVE  /\ Has(E, i, b, v) => Has(C, i, b, v)
             /\ Once(C, i, b, v) => Once(E, i, b, v)
             /\ \A g, h : Before(C, i, b, v, g, h) => Before(E, i, b, v, g, h)
  <2>1. \A l \in DOMAIN E : Is(E[l], i, b, v) => l \in DOMAIN C /\ E[l] = C[l] /\ l \in Int /\ l <= c
    BY <1>5, <1>6
  <2>2. Has(E, i, b, v) => Has(C, i, b, v)
    BY <2>1 DEF Has
  <2>3. Once(C, i, b, v) => Once(E, i, b, v)
    BY <2>1 DEF Once
  <2>4. ASSUME NEW g, NEW h, Before(C, i, b, v, g, h) PROVE Before(E, i, b, v, g, h)
    <3> SUFFICES ASSUME NEW n \in DOMAIN E, NEW l \in DOMAIN E, Is(E[n], i, b, v), Is(E[l], i, g, h)
                 PROVE  n < l
      BY DEF Before
    <3>1. n \in DOMAIN C /\ E[n] = C[n] /\ n \in Int /\ n <= c
      BY <2>1
    <3>2. CASE l \in DOMAIN C /\ E[l] = C[l]
      BY <2>4, <3>1, <3>2 DEF Before
    <3>3. CASE l \in Int /\ c < l
      BY <3>1, <3>3
    <3> QED BY <1>3, <3>2, <3>3
  <2> QED BY <2>2, <2>3, <2>4
<1>7. ASSUME \A n \in DOMAIN w : w[n].sid # i PROVE Same(i, C, E)
  BY <1>4, <1>6, <1>7 DEF Same, Less, Is
<1>8. ASSUME NEW n \in DOMAIN w, w[n].sid = i, \A l \in DOMAIN w : w[l].sid = i => l = n
      PROVE  Sent(i, C, E, KindOf(w[n]), AboutOf(w[n]))
  <2>0. PICK k, u : k = KindOf(w[n]) /\ u = AboutOf(w[n])
    OBVIOUS
  <2>1. k \in Kind /\ u \in AnyUpdate /\ Is(w[n], i, k, u)
    <3>1. w[n] \in Message
      BY <1>1
    <3> QED BY <1>8, <2>0, <3>1, KindType DEF Is
  <2>2. \A b, v : b # k \/ v # u => \A l \in DOMAIN w : ~Is(w[l], i, b, v)
    BY <1>8, <2>0 DEF Is
  <2>3. \A l \in DOMAIN w : Is(w[l], i, k, u) => l = n
    BY <1>8 DEF Is
  <2>4. Has(E, i, k, u)
    BY <1>3, <2>1 DEF Has
  <2>5. ASSUME ~Has(C, i, k, u)
        PROVE  \A l \in DOMAIN E : Is(E[l], i, k, u) => l = c + n /\ l \in Int /\ c < l
    <3> SUFFICES ASSUME NEW l \in DOMAIN E, Is(E[l], i, k, u) PROVE l = c + n /\ l \in Int /\ c < l
      OBVIOUS
    <3>1. l - c \in DOMAIN w /\ E[l] = w[l - c] /\ l \in Int /\ c < l
      BY <1>3, <2>5 DEF Has
    <3>2. l - c = n
      BY <2>3, <3>1
    <3> QED BY <3>1, <3>2
  <2>6. ~Has(C, i, k, u) => Once(E, i, k, u)
    BY <2>5 DEF Once
  <2>7. ASSUME NEW b, NEW v, ~Has(C, i, b, v), b # k \/ v # u PROVE Before(E, i, k, u, b, v)
    <3>1. ~Has(E, i, b, v)
      BY <1>6, <2>2, <2>7
    <3> QED BY <3>1 DEF Has, Before
  <2>8. ASSUME NEW b, NEW v, b # k \/ v # u, ~Has(C, i, k, u) PROVE Before(E, i, b, v, k, u)
    <3> SUFFICES ASSUME NEW h \in DOMAIN E, NEW l \in DOMAIN E, Is(E[h], i, b, v), Is(E[l], i, k, u)
                 PROVE  h < l
      BY DEF Before
    <3>1. h \in Int /\ h <= c
      BY <1>5, <2>2, <2>8
    <3>2. l \in Int /\ c < l
      BY <2>5, <2>8
    <3> QED BY <3>1, <3>2
  <2>9. ASSUME NEW b, NEW v, b # k \/ v # u
        PROVE  /\ Has(E, i, b, v) => Has(C, i, b, v)
               /\ Once(C, i, b, v) => Once(E, i, b, v)
               /\ \A g, h : Before(C, i, b, v, g, h) => Before(E, i, b, v, g, h)
    BY <1>6, <2>2, <2>9
  <2> QED BY <1>4, <2>0, <2>1, <2>4, <2>6, <2>7, <2>8, <2>9 DEF Sent
<1>9. \A l \in DOMAIN E : (l \in DOMAIN C /\ E[l] = C[l]) \/ \E n \in DOMAIN w : E[l] = w[n]
  BY <1>3
<1> QED BY <1>1, <1>7, <1>8, <1>9

\* A connection to which one message has been added.
LEMMA AppendSent ==
  ASSUME NEW C \in Seq(Message), NEW m \in Message, NEW E \in Seq(Message), E = C \o <<m>>,
         NEW i \in Sid
  PROVE  /\ m.sid = i => Sent(i, C, E, KindOf(m), AboutOf(m))
         /\ m.sid # i => Same(i, C, E)
<1>0. <<m>> \in Seq(Message)
  OBVIOUS
<1>1. PICK w \in Seq(Message) : w = <<m>>
  BY <1>0, Zenon
<1>2. DOMAIN w = {1} /\ w[1] = m
  BY <1>1
<1>3. E = C \o w
  BY <1>1
<1>4. /\ (\A n \in DOMAIN w : w[n].sid # i) => Same(i, C, E)
      /\ \A n \in DOMAIN w :
           w[n].sid = i /\ (\A l \in DOMAIN w : w[l].sid = i => l = n) =>
             Sent(i, C, E, KindOf(w[n]), AboutOf(w[n]))
  BY <1>3, ConcatSent
<1> QED BY <1>2, <1>4

-----------------------------------------------------------------------------
(* The invariant of one session: p is its record at the device a that may  *)
(* place it, whose connection is C; q, at the other device b, with D.      *)

\* Before b has heard of the call: the invite is on its way, ahead of all else.
Unheard(i, p, C, D) ==
  /\ Idle(D, i)
  /\ IF p.state = "NONE" THEN Idle(C, i)
     ELSE /\ Has(C, i, "invite", 0) /\ Once(C, i, "invite", 0)
          /\ \A k \in Kind \ {"invite"}, u \in AnyUpdate : Before(C, i, "invite", 0, k, u)
          /\ p.state \in Inviting \/ (p.state = "ENDED" /\ Has(C, i, "withdraw", 0))

\* While b decides: a waits, or has withdrawn.
Undecided(i, p, C, D) ==
  /\ NoTalk(D, i) /\ ~Carries(D, i, {"answer", "reject", "bye"})
  /\ p.state \in Inviting \/ (p.state = "ENDED" /\ Has(C, i, "withdraw", 0))

\* While b is in the call: so is a, or the answer is on its way to a, or a is
\* over and word of it on its way to b.
Answered(i, p, C, D) ==
  /\ ~Carries(D, i, {"reject", "bye"})
  /\ \/ p.state = "ACTIVE"
     \/ p.state \in Inviting /\ Has(D, i, "answer", 0)
     \/ p.state = "ENDED" /\ Carries(C, i, {"withdraw", "bye"})

\* Once b is over: so is a, or word of it is on its way to a.
Over(i, p, C, D) ==
  \/ p.state = "ENDED"
  \/ p.state = "ACTIVE" /\ Has(D, i, "bye", 0)
  \/ p.state \in Inviting /\ Has(D, i, "reject", 0)
  \/ p.state \in Inviting /\ Has(D, i, "answer", 0) /\ Has(D, i, "bye", 0)

\* Of session i, connection s carries nothing but what ends an attempt.
Unspoken(s, i) ==
  \A k \in Kind \ {"invite", "withdraw", "bye", "error"}, u \in AnyUpdate : ~Has(s, i, k, u)

\* What a's record says of what a has sent.
CallerSide(i, p, q, C) ==
  /\ p.state # "NONE" => p.role = "initiator"
  /\ p.state = "ACTIVE" => p.wasActive = TRUE
  /\ q.state # "NONE" => ~Has(C, i, "invite", 0)
  /\ Has(C, i, "withdraw", 0) => p.state = "ENDED" /\ p.wasActive = FALSE
  /\ Has(C, i, "bye", 0) => p.state = "ENDED"
  /\ p.wasActive = FALSE => Unspoken(C, i) /\ (q.state # "ENDED" => q.postAnswerSeen = FALSE)

\* What b's record says of what b has sent.
CalleeSide(i, a, p, q, D) ==
  /\ q.state # "NONE" => q.role = "responder" /\ q.peer = a
  /\ ~Has(D, i, "invite", 0)
  /\ p.state = "ACTIVE" => ~Carries(D, i, {"answer", "reject"})
  /\ p.state # "ACTIVE" => AnswerFirst(D, i)
  /\ Once(D, i, "answer", 0)
  /\ Has(D, i, "reject", 0) => NoTalk(D, i) /\ ~Carries(D, i, {"answer", "bye"})

\* Where a stands, by the state b is in.
Standing(i, p, q, C, D) ==
  /\ q.state = "NONE" => Unheard(i, p, C, D)
  /\ q.state \in {"OFFERED", "ALERTING"} => Undecided(i, p, C, D)
  /\ q.state = "ACTIVE" => Answered(i, p, C, D)
  /\ q.state = "ENDED" => Over(i, p, C, D)

CallAgrees(i, a, b, p, q, C, D) ==
  /\ Standing(i, p, q, C, D)
  /\ p.state = "ACTIVE" => p.peer = b
  /\ CallerSide(i, p, q, C)
  /\ CalleeSide(i, a, p, q, D)

-----------------------------------------------------------------------------
(* Updates.  Of either end x, which sends on S: o is its pending update, w *)
(* that of the other end, which sends on T.  An end that is over has none; *)
(* o or w is then what it had when it ended.                               *)

Pending == {NoUpdate} \cup [id : UpdateId, dir : {"outbound", "inbound"}]

\* An update is sent once and answered once, after its arrival.
SentOnce(i, x, o, w, S, T, used) ==
  \A u \in UpdateId :
    /\ Has(S, i, "update", u) \/ o = Outbound(u) => u \in used /\ UpdateOwner[u] = x
    /\ Has(T, i, "reply", u) => u \in used /\ w # Inbound(u)
    /\ Has(S, i, "update", u) => ~Has(T, i, "reply", u) /\ w # Inbound(u)
    /\ Once(S, i, "update", u)
    /\ w = Inbound(u) => o = Outbound(u)

\* x's update is the last it has sent, and what it has sent before and given up
\* will be refused: the other end has a smaller one outstanding, until it has
\* seen that one answered.
GivenUpLoses(i, o, w, S, T) ==
  \A u, v \in UpdateId :
    /\ o = Outbound(u) /\ Has(S, i, "update", u) /\ v # u => Before(S, i, "update", v, "update", u)
    /\ Has(S, i, "update", v) /\ o # Outbound(v) =>
         \E z \in UpdateId : w = Outbound(z) /\ z < v /\ Before(S, i, "update", v, "reply", z)
    /\ w = Inbound(u) /\ Has(T, i, "update", v) => u < v

Half(i, x, o, w, S, T, used) == SentOnce(i, x, o, w, S, T, used) /\ GivenUpLoses(i, o, w, S, T)

\* An update that is waited for is on its way, with the other end, or answered.
Awaited(i, o, w, S, T) ==
  \A u \in UpdateId :
    o = Outbound(u) => Has(S, i, "update", u) \/ w = Inbound(u) \/ Has(T, i, "reply", u)

UpdatesAgree(i, a, b, p, q, C, D, used) ==
  /\ \E o, w \in Pending :
       /\ p.state # "ENDED" => o = p.outstanding
       /\ q.state # "ENDED" => w = q.outstanding
       /\ Half(i, a, o, w, C, D, used)
       /\ Half(i, b, w, o, D, C, used)
  /\ p.state # "ENDED" /\ q.state = "ACTIVE" =>
       /\ Awaited(i, p.outstanding, q.outstanding, C, D)
       /\ Awaited(i, q.outstanding, p.outstanding, D, C)

-----------------------------------------------------------------------------
(* The invariant of all.                                                   *)

TwoDevices == \E a, b \in Device : a # b /\ Device = {a, b}

Peer(d) == CHOOSE e \in Device : e # d

CallOf(i) ==
  LET a == Owner[i]
      b == Peer(a)
  IN  /\ CallAgrees(i, a, b, sess[a][i], sess[b][i], up[a], up[b])
      /\ UpdatesAgree(i, a, b, sess[a][i], sess[b][i], up[a], up[b], drawn)

\* A message x sends, whose sessions are S, is its own and one the handlers send.
Honest(x, m, S) ==
  /\ m.from = x
  /\ m.tag \notin {"transport.no-response", "session.update-pending"}
  /\ m.type = "invite" => Owner[m.sid] = x /\ m.to = S[m.sid].inviteTo
  /\ m.type = "update" => m.upd # 0
  /\ m.type = "cancel" /\ m.tag = "session.glare" =>
       \E j \in Sid : j < m.sid /\ Owner[j] # x /\ S[j].role = "responder"

AllHonest == \A x \in Device : \A n \in DOMAIN up[x] : Honest(x, up[x][n], sess[x])

\* Of two attempts in opposite directions one has met the other.
GlareSettles ==
  \A i, j \in Sid :
    LET a == Owner[i]
        b == Owner[j]
    IN  a # b /\ sess[a][i].state \in Inviting /\ sess[b][j].state \in Inviting =>
          sess[b][i].state \in {"NONE", "ENDED"} \/ sess[a][j].state \in {"NONE", "ENDED"}

\* Whoever has heard of a call was meant by it.
Meant ==
  \A i \in Sid : \A b \in Device \ {Owner[i]} :
    sess[b][i].state # "NONE" => Reaches([to |-> sess[Owner[i]][i].inviteTo], b)

CallsInv ==
  /\ EndpointInv
  /\ TwoDevices
  /\ drawn \subseteq UpdateId
  /\ \A i \in Sid : CallOf(i)
  /\ AllHonest
  /\ Meant
-----------------------------------------------------------------------------
(* What one step of a device does to one of its sessions, the invariant      *)
(* given: its record s becomes t as a message of kind k about u is taken and *)
(* one of kind r about v is sent.                                            *)

Kept(s, t) ==
  /\ t.role = s.role /\ t.peer = s.peer /\ t.inviteTo = s.inviteTo
  /\ t.wasActive = s.wasActive
Remains(s, t) == Kept(s, t) /\ t.state = s.state /\ t.outstanding = s.outstanding

Rests(s, t, k, r) == k = "nothing" /\ r = "nothing" /\ t = s

Places(s, t, k, r) ==
  /\ k = "nothing" /\ r = "invite"
  /\ s.state = "NONE"
  /\ t.state = "INVITING" /\ t.role = "initiator" /\ t.wasActive = FALSE
  /\ t.outstanding = NoUpdate

Withdraws(s, t, k, r) ==
  /\ k \in {"nothing", "progress"} /\ r = "withdraw"
  /\ s.state \in Inviting
  /\ t.state = "ENDED" /\ Kept(s, t)

HangsUp(s, t, k, r) ==
  /\ k = "nothing" /\ r = "bye"
  /\ s.state = "ACTIVE"
  /\ t.state = "ENDED" /\ Kept(s, t)

TurnsDown(s, t, k, r) ==
  /\ k = "nothing" /\ r = "reject"
  /\ s.state \in {"OFFERED", "ALERTING"}
  /\ t.state = "ENDED" /\ Kept(s, t)

Alerts(s, t, k, r) ==
  /\ k = "nothing" /\ r = "progress"
  /\ s.state = "OFFERED"
  /\ t.state = "ALERTING" /\ Kept(s, t)
  /\ t.outstanding = s.outstanding /\ t.postAnswerSeen = s.postAnswerSeen

Accepts(s, t, k, r) ==
  /\ k = "nothing" /\ r = "answer"
  /\ s.state = "ALERTING"
  /\ t.state = "ACTIVE"
  /\ t.role = s.role /\ t.peer = s.peer /\ t.inviteTo = s.inviteTo
  /\ t.outstanding = s.outstanding /\ t.postAnswerSeen = s.postAnswerSeen

\* The invite of the other party e: offered, or turned down at once.
Invited(e, s, t, k, r) ==
  /\ k = "invite"
  /\ s.state = "NONE"
  /\ t.role = "responder" /\ t.peer = e /\ t.outstanding = NoUpdate
  /\ t.postAnswerSeen = FALSE
  /\ \/ r = "nothing" /\ t.state = "OFFERED"
     \/ r = "reject" /\ t.state = "ENDED"

Progresses(s, t, k, r) ==
  /\ k = "progress" /\ r = "nothing"
  /\ s.state \in Inviting
  /\ t.state = "PROCEEDING" /\ Kept(s, t) /\ t.outstanding = s.outstanding

Establishes(e, s, t, k, r) ==
  /\ k = "answer" /\ r \in {"nothing", "elsewhere"}
  /\ s.state \in Inviting
  /\ t.state = "ACTIVE" /\ t.peer = e /\ t.wasActive = TRUE
  /\ t.role = s.role /\ t.inviteTo = s.inviteTo /\ t.outstanding = s.outstanding

EndedByPeer(s, t, k, r) ==
  /\ r = "nothing"
  /\ \/ k = "reject" /\ s.state \in Inviting
     \/ k = "bye" /\ s.state = "ACTIVE"
     \/ k = "withdraw" /\ s.role = "responder" /\ s.state \in {"OFFERED", "ALERTING", "ACTIVE"}
  /\ t.state = "ENDED" /\ Kept(s, t)

\* A message for a session that is over, or an error about any: a late answer
\* is ended with bye, all else dropped.
Ignores(s, t, k, r) ==
  /\ t = s
  /\ s.state # "NONE"
  /\ k \in Kind \ {"invite"}
  /\ \/ r = "nothing" /\ (k = "error" \/ s.state = "ENDED")
     \/ r = "bye" /\ k = "answer" /\ s.role = "initiator" /\ s.state = "ENDED"

\* A message out of place: the sender is told.
Objects(s, t, k, r) ==
  /\ r = "error" /\ k \in Kind \ ({"invite"} \cup Talk)
  /\ s.state \notin {"NONE", "ENDED"}
  /\ s.role = "initiator" => k \notin {"answer", "reject", "bye"}
  /\ s.role = "responder" => k # "withdraw" /\ (k = "bye" => s.state # "ACTIVE")
  /\ Remains(s, t)
  /\ t.postAnswerSeen = s.postAnswerSeen \/ k \notin {"bye", "withdraw", "error"}

Informs(s, t, k, r) ==
  /\ s.state = "ACTIVE" /\ Remains(s, t)
  /\ \/ k = "nothing" /\ r = "info" /\ t = s
     \/ k = "info" /\ r = "nothing"

\* Renegotiation, inside an active session.
Offers(x, s, t, k, r, v, used, used2) ==
  /\ k = "nothing" /\ r = "update"
  /\ v \in UpdateId \ used /\ v \in used2 /\ UpdateOwner[v] = x
  /\ s.outstanding = NoUpdate /\ t.outstanding = Outbound(v)
  /\ t.postAnswerSeen = s.postAnswerSeen

Settles(s, t, k, r, v) ==
  /\ k = "nothing" /\ r = "reply" /\ v \in UpdateId
  /\ s.outstanding = Inbound(v) /\ t.outstanding = NoUpdate
  /\ t.postAnswerSeen = s.postAnswerSeen

Yields(s, t, k, u, r) ==
  /\ k = "update" /\ r = "nothing" /\ u \in UpdateId
  /\ s.outstanding = NoUpdate \/ (Renegotiating(s) /\ ~(s.outstanding.id < u))
  /\ t.outstanding = Inbound(u)

Refuses(s, t, k, u, r, v) ==
  /\ k = "update" /\ r = "reply" /\ v = u /\ u \in UpdateId
  /\ Renegotiating(s) /\ s.outstanding.id < u
  /\ t.outstanding = s.outstanding

Learns(s, t, k, u, r) ==
  /\ k = "reply" /\ r = "nothing" /\ u \in UpdateId
  /\ t.outstanding = IF s.outstanding = Outbound(u) THEN NoUpdate ELSE s.outstanding

Renegotiates(x, s, t, k, u, r, v, used, used2) ==
  /\ s.state = "ACTIVE" /\ t.state = "ACTIVE" /\ Kept(s, t)
  /\ \/ Offers(x, s, t, k, r, v, used, used2)
     \/ Settles(s, t, k, r, v)
     \/ Yields(s, t, k, u, r)
     \/ Refuses(s, t, k, u, r, v)
     \/ Learns(s, t, k, u, r)

\* At device x; e is the other one, and own the one that may place the call.
Turn(own, x, e, s, t, k, u, r, v, used, used2) ==
  /\ k \in Kind \cup {"nothing"} /\ u \in AnyUpdate /\ (k \notin {"update", "reply"} => u = 0)
  /\ r \in Kind \cup {"nothing"} /\ v \in AnyUpdate /\ (r \notin {"update", "reply"} => v = 0)
  /\ \/ Rests(s, t, k, r)
     \/ x = own /\ Places(s, t, k, r)
     \/ Withdraws(s, t, k, r)
     \/ HangsUp(s, t, k, r)
     \/ TurnsDown(s, t, k, r)
     \/ Alerts(s, t, k, r)
     \/ Accepts(s, t, k, r)
     \/ Invited(e, s, t, k, r)
     \/ Progresses(s, t, k, r)
     \/ Establishes(e, s, t, k, r)
     \/ EndedByPeer(s, t, k, r)
     \/ Ignores(s, t, k, r)
     \/ Objects(s, t, k, r)
     \/ Informs(s, t, k, r)
     \/ Renegotiates(x, s, t, k, u, r, v, used, used2)
-----------------------------------------------------------------------------
(* The call, at the side that placed it.                                   *)

\* The caller places the call: nobody has heard of it before.
LEMMA CallerPlaces ==
  ASSUME NEW i, NEW a, NEW b, NEW p, NEW q, NEW C, NEW D, NEW t, NEW E, NEW F, Coherent(p),
         CallAgrees(i, a, b, p, q, C, D), q \in SessionRec, q.state \notin Inviting,
         Places(p, t, "nothing", "invite"), Sent(i, C, E, "invite", 0), Same(i, D, F)
  PROVE  CallAgrees(i, a, b, t, q, E, F)
<1>0. "invite" \in Kind /\ 0 \in AnyUpdate
  BY DEF Kind, MessageType, AnyUpdate
<1>1. q.state = "NONE" /\ Idle(C, i) /\ Idle(D, i)
  <2>1. q.state \in {"NONE", "INVITING", "PROCEEDING", "OFFERED", "ALERTING", "ACTIVE", "ENDED"}
    BY DEF SessionRec
  <2>2. q.state \notin {"OFFERED", "ALERTING", "ACTIVE", "ENDED"}
    BY DEF CallAgrees, Standing, Undecided, Answered, Over, Places, Inviting
  <2> QED BY <2>1, <2>2 DEF CallAgrees, Standing, Unheard, Places, Inviting
<1>2. Idle(F, i)
  BY <1>1 DEF Idle, Same, Less
<1>3. \A k \in Kind \ {"invite"}, u \in AnyUpdate : ~Has(E, i, k, u) /\ Before(E, i, "invite", 0, k, u)
  BY <1>0, <1>1 DEF Idle, Sent
<1>4. Has(E, i, "invite", 0) /\ Once(E, i, "invite", 0)
  BY <1>0, <1>1 DEF Idle, Sent
<1>5. Unheard(i, t, E, F)
  BY <1>2, <1>3, <1>4 DEF Unheard, Places, Inviting
<1>6. CallerSide(i, t, q, E)
  <2>1. p.wasActive = FALSE /\ q.postAnswerSeen = FALSE
    BY <1>1 DEF Coherent, Places, CallAgrees, CallerSide
  <2> QED BY <1>0, <1>1, <1>3, <2>1 DEF CallerSide, Unspoken, Places, Kind, MessageType
<1>7. CalleeSide(i, a, t, q, F)
  BY <1>0, <1>1, <1>2 DEF CalleeSide, Places, Idle, Kind, MessageType, CallAgrees, Same, Less, AnswerFirst,
     NoTalk, Carries, Talk
<1> QED
  BY <1>1, <1>5, <1>6, <1>7 DEF CallAgrees, Standing, Places

\* What is not on a connection comes before anything.
LEMMA AbsentBefore ==
  ASSUME NEW s, NEW i, NEW k, NEW u, ~Has(s, i, k, u)
  PROVE  \A b, v : Before(s, i, k, u, b, v)
  BY DEF Has, Before

\* The callee's side is not disturbed by what the caller takes.
LEMMA CalleeSideKept ==
  ASSUME NEW i, NEW a, NEW p, NEW q, NEW D, NEW t, NEW F,
         CalleeSide(i, a, p, q, D), Less(i, D, F),
         t.state = "ACTIVE" => p.state = "ACTIVE" \/ ~Carries(F, i, {"answer", "reject"})
  PROVE  CalleeSide(i, a, t, q, F)
<1>0. /\ {"invite", "answer", "reject", "bye"} \subseteq Kind /\ Talk \subseteq Kind
      /\ 0 \in AnyUpdate
  BY DEF Kind, MessageType, AnyUpdate, Talk
<1>1. AnswerFirst(D, i)
  <2>1. CASE p.state = "ACTIVE"
    BY <2>1, AbsentBefore DEF CalleeSide, Carries, AnswerFirst
  <2> QED BY <2>1 DEF CalleeSide
<1>2. AnswerFirst(F, i)
  BY <1>0, <1>1 DEF AnswerFirst, Less
<1>3. ~Has(F, i, "invite", 0) /\ Once(F, i, "answer", 0)
  BY <1>0 DEF CalleeSide, Less
<1>4. t.state = "ACTIVE" => ~Carries(F, i, {"answer", "reject"})
  BY <1>0 DEF CalleeSide, Less, Carries
<1>5. Has(F, i, "reject", 0) => NoTalk(F, i) /\ ~Carries(F, i, {"answer", "bye"})
  BY <1>0 DEF CalleeSide, Less, Carries, NoTalk
<1> QED
  BY <1>2, <1>3, <1>4, <1>5 DEF CalleeSide

\* The caller's side, when it sends nothing that its record does not say.
LEMMA CallerSideSent ==
  ASSUME NEW i, NEW p, NEW q, NEW C, NEW t, NEW E, NEW r, NEW v,
         CallerSide(i, p, q, C), Sends(i, C, E, r, v),
         p.state # "NONE", t.role = p.role, r # "invite",
         t.state = "ACTIVE" => t.wasActive = TRUE,
         p.state = "ENDED" => t.state = "ENDED" /\ t.wasActive = p.wasActive,
         r = "withdraw" => t.state = "ENDED" /\ t.wasActive = FALSE,
         r = "bye" => t.state = "ENDED",
         t.wasActive = FALSE => p.wasActive = FALSE /\ r \in {"nothing", "withdraw", "bye", "error"}
  PROVE  CallerSide(i, t, q, E)
<1>0. {"invite", "withdraw", "bye"} \subseteq Kind /\ 0 \in AnyUpdate
  BY DEF Kind, MessageType, AnyUpdate
<1>1. \A k \in Kind, u \in AnyUpdate : k # r /\ Has(E, i, k, u) => Has(C, i, k, u)
  BY DEF Sends, Sent, Same, Less
<1>2. /\ q.state # "NONE" => ~Has(E, i, "invite", 0)
      /\ Has(E, i, "withdraw", 0) => t.state = "ENDED" /\ t.wasActive = FALSE
      /\ Has(E, i, "bye", 0) => t.state = "ENDED"
  BY <1>0, <1>1 DEF CallerSide
<1>3. ASSUME t.wasActive = FALSE PROVE Unspoken(E, i)
  <2>1. Unspoken(C, i) /\ r \in {"nothing", "withdraw", "bye", "error"}
    BY <1>3, Zenon DEF CallerSide
  <2> QED BY <1>1, <2>1 DEF Unspoken, Kind, MessageType
<1>4. t.wasActive = FALSE /\ q.state # "ENDED" => q.postAnswerSeen = FALSE
  BY DEF CallerSide
<1>5. t.state # "NONE" => t.role = "initiator"
  BY DEF CallerSide
<1> QED
  BY <1>2, <1>3, <1>4, <1>5 DEF CallerSide

\* The call at its caller, before and after a step.
CallerSteps(i, a, b, p, q, C, D, t, k, u, r, v, E, F) ==
  /\ CallAgrees(i, a, b, p, q, C, D)
  /\ Coherent(p) /\ q \in SessionRec /\ q.state \notin Inviting
  /\ u \in AnyUpdate /\ (k \notin {"update", "reply"} => u = 0)
  /\ v \in AnyUpdate /\ (r \notin {"update", "reply"} => v = 0)
  /\ Takes(i, D, F, k, u)
  /\ Sends(i, C, E, r, v)

\* Taking a message leaves no more on the connection.
LEMMA TakesLess ==
  ASSUME NEW i, NEW C, NEW E, NEW k, NEW u, Takes(i, C, E, k, u) PROVE Less(i, C, E)
  BY DEF Takes, Taken, Same

\* As long as b has not heard of the call, nothing comes from b.
LEMMA UnheardKept ==
  ASSUME NEW i, NEW p, NEW C, NEW D, NEW t, NEW E, NEW F, NEW k, NEW u, NEW r, NEW v,
         Unheard(i, p, C, D), p.state # "NONE", Takes(i, D, F, k, u), Sends(i, C, E, r, v),
         r # "invite", r = "withdraw" => v = 0,
         k = "nothing" =>
           \/ t.state \in Inviting
           \/ t.state = "ENDED" /\ (r = "withdraw" \/ Has(C, i, "withdraw", 0))
  PROVE  k = "nothing" /\ Unheard(i, t, E, F)
<1>0. {"invite", "withdraw"} \subseteq Kind /\ 0 \in AnyUpdate
  BY DEF Kind, MessageType, AnyUpdate
<1>1. k = "nothing" /\ Same(i, D, F)
  BY DEF Takes, Taken, Unheard, Idle
<1>2. Idle(F, i)
  BY <1>1 DEF Same, Less, Unheard, Idle
<1>3. Has(E, i, "invite", 0) /\ Once(E, i, "invite", 0)
  BY <1>0 DEF Unheard, Sends, Sent, Same, Less
<1>4. \A b \in Kind \ {"invite"}, w \in AnyUpdate : Before(E, i, "invite", 0, b, w)
  BY <1>0 DEF Unheard, Sends, Sent, Same, Less
<1>5. r = "withdraw" \/ Has(C, i, "withdraw", 0) => Has(E, i, "withdraw", 0)
  BY <1>0 DEF Sends, Sent, Same
<1> QED
  BY <1>1, <1>2, <1>3, <1>4, <1>5 DEF Unheard, Inviting

\* The attempt is withdrawn.
LEMMA CallerWithdraws ==
  ASSUME NEW i, NEW a, NEW b, NEW p, NEW q, NEW C, NEW D, NEW t, NEW k, NEW u, NEW r, NEW v,
         NEW E, NEW F, CallerSteps(i, a, b, p, q, C, D, t, k, u, r, v, E, F), Withdraws(p, t, k, r)
  PROVE  CallAgrees(i, a, b, t, q, E, F)
<1>0. /\ {"invite", "withdraw", "progress", "answer", "bye", "reject"} \cup Talk \subseteq Kind
      /\ 0 \in AnyUpdate
  BY DEF Kind, MessageType, AnyUpdate, Talk
<1>1. /\ CallerSide(i, p, q, C) /\ CalleeSide(i, a, p, q, D) /\ Less(i, D, F)
      /\ p.state \in Inviting /\ p.state # "NONE" /\ p.state # "ENDED" /\ p.state # "ACTIVE"
      /\ t.state = "ENDED" /\ t.role = p.role
      /\ r = "withdraw" /\ v = 0 /\ Sends(i, C, E, r, v)
  BY TakesLess DEF CallerSteps, CallAgrees, Withdraws, Kept, Inviting
<1>2. t.wasActive = FALSE /\ p.wasActive = FALSE
  BY <1>1, Zenon DEF CallerSteps, Coherent, Withdraws, Kept
<1>3. CallerSide(i, t, q, E)
  BY <1>1, <1>2, CallerSideSent
<1>4. CalleeSide(i, a, t, q, F)
  BY <1>1, CalleeSideKept
<1>5. Has(E, i, "withdraw", 0)
  BY <1>1 DEF Sends, Sent
<1>6. Standing(i, t, q, E, F)
  <2>1. q.state = "NONE" => Unheard(i, t, E, F)
    BY <1>1, UnheardKept DEF CallerSteps, CallAgrees, Standing
  <2>2. q.state \in {"OFFERED", "ALERTING"} => Undecided(i, t, E, F)
    BY <1>0, <1>1, <1>5 DEF CallerSteps, CallAgrees, Standing, Undecided, Carries, NoTalk, Less
  <2>3. q.state = "ACTIVE" => Answered(i, t, E, F)
    BY <1>0, <1>1, <1>5 DEF CallerSteps, CallAgrees, Standing, Answered, Carries, Less
  <2> QED BY <1>1, <2>1, <2>2, <2>3 DEF Standing, Over
<1> QED
  BY <1>1, <1>3, <1>4, <1>6 DEF CallAgrees

\* The established call is hung up.
LEMMA CallerHangsUp ==
  ASSUME NEW i, NEW a, NEW b, NEW p, NEW q, NEW C, NEW D, NEW t, NEW k, NEW u, NEW r, NEW v,
         NEW E, NEW F, CallerSteps(i, a, b, p, q, C, D, t, k, u, r, v, E, F), HangsUp(p, t, k, r)
  PROVE  CallAgrees(i, a, b, t, q, E, F)
<1>0. /\ {"invite", "withdraw", "progress", "answer", "bye", "reject"} \cup Talk \subseteq Kind
      /\ 0 \in AnyUpdate
  BY DEF Kind, MessageType, AnyUpdate, Talk
<1>1. /\ CallerSide(i, p, q, C) /\ CalleeSide(i, a, p, q, D) /\ Less(i, D, F)
      /\ p.state = "ACTIVE" /\ t.state = "ENDED" /\ t.role = p.role /\ t.wasActive = p.wasActive
      /\ r = "bye" /\ v = 0 /\ Sends(i, C, E, r, v)
  BY TakesLess DEF CallerSteps, CallAgrees, HangsUp, Kept
<1>2. CallerSide(i, t, q, E)
  BY <1>1, CallerSideSent
<1>3. CalleeSide(i, a, t, q, F)
  BY <1>1, CalleeSideKept
<1>4. Has(E, i, "bye", 0)
  BY <1>1 DEF Sends, Sent
<1>5. q.state \notin {"NONE", "OFFERED", "ALERTING"}
  BY <1>1 DEF CallerSteps, CallAgrees, Standing, CallerSide, Unheard, Undecided, Inviting
<1>6. q.state = "ACTIVE" => Answered(i, t, E, F)
  BY <1>0, <1>1, <1>4 DEF CallerSteps, CallAgrees, Standing, Answered, Carries, Less
<1> QED
  BY <1>1, <1>2, <1>3, <1>5, <1>6 DEF CallAgrees, Standing, Over

\* The peer ends the call, or turns it down.
LEMMA CallerIsEnded ==
  ASSUME NEW i, NEW a, NEW b, NEW p, NEW q, NEW C, NEW D, NEW t, NEW k, NEW u, NEW r, NEW v,
         NEW E, NEW F, CallerSteps(i, a, b, p, q, C, D, t, k, u, r, v, E, F),
         EndedByPeer(p, t, k, r)
  PROVE  CallAgrees(i, a, b, t, q, E, F)
<1>0. {"reject", "bye"} \subseteq Kind /\ 0 \in AnyUpdate
  BY DEF Kind, MessageType, AnyUpdate
<1>1. /\ CallerSide(i, p, q, C) /\ CalleeSide(i, a, p, q, D) /\ Less(i, D, F)
      /\ p.state \in {"INVITING", "PROCEEDING", "ACTIVE"}
      /\ k \in {"reject", "bye"} /\ u = 0
      /\ t.state = "ENDED" /\ t.role = p.role /\ t.wasActive = p.wasActive
      /\ r = "nothing" /\ Sends(i, C, E, r, v)
  BY TakesLess DEF CallerSteps, CallAgrees, EndedByPeer, Kept, Inviting, CallerSide
<1>2. CallerSide(i, t, q, E)
  BY <1>1, CallerSideSent
<1>3. CalleeSide(i, a, t, q, F)
  BY <1>1, CalleeSideKept
<1>4. Has(D, i, "reject", 0) \/ Has(D, i, "bye", 0)
  BY <1>1 DEF CallerSteps, Takes, Taken
<1>5. q.state \notin {"NONE", "OFFERED", "ALERTING", "ACTIVE"}
  BY <1>0, <1>4 DEF CallerSteps, CallAgrees, Standing, Unheard, Undecided, Answered, Idle, Carries
<1> QED
  BY <1>1, <1>2, <1>3, <1>5 DEF CallAgrees, Standing, Over

\* The answer establishes the call.
LEMMA CallerIsAnswered ==
  ASSUME NEW i, NEW a, NEW b, NEW p, NEW q, NEW C, NEW D, NEW t, NEW k, NEW u, NEW r, NEW v,
         NEW E, NEW F, CallerSteps(i, a, b, p, q, C, D, t, k, u, r, v, E, F),
         Establishes(b, p, t, k, r)
  PROVE  CallAgrees(i, a, b, t, q, E, F)
<1>0. {"answer", "reject", "bye"} \subseteq Kind /\ 0 \in AnyUpdate
  BY DEF Kind, MessageType, AnyUpdate
<1>1. /\ CallerSide(i, p, q, C) /\ CalleeSide(i, a, p, q, D) /\ Less(i, D, F)
      /\ p.state \in {"INVITING", "PROCEEDING"}
      /\ k = "answer" /\ u = 0 /\ Taken(i, D, F, "answer", 0)
      /\ t.state = "ACTIVE" /\ t.role = p.role /\ t.peer = b /\ t.wasActive = TRUE
      /\ r \in {"nothing", "elsewhere"} /\ Sends(i, C, E, r, v)
  BY TakesLess DEF CallerSteps, CallAgrees, Establishes, Inviting, CallerSide, Takes
<1>2. CallerSide(i, t, q, E)
  BY <1>1, CallerSideSent
<1>3. Has(D, i, "answer", 0) /\ ~Has(F, i, "answer", 0) /\ ~Has(D, i, "reject", 0)
  BY <1>1 DEF Taken, CalleeSide, Carries
<1>4. ~Carries(F, i, {"answer", "reject"})
  BY <1>0, <1>1, <1>3 DEF Carries, Less
<1>5. CalleeSide(i, a, t, q, F)
  BY <1>1, <1>4, CalleeSideKept
<1>6. q.state \notin {"NONE", "OFFERED", "ALERTING"}
  BY <1>0, <1>3 DEF CallerSteps, CallAgrees, Standing, Unheard, Undecided, Idle, Carries
<1>7. q.state = "ACTIVE" => Answered(i, t, E, F)
  BY <1>0, <1>1 DEF CallerSteps, CallAgrees, Standing, Answered, Carries, Less
<1>8. q.state = "ENDED" => Over(i, t, E, F)
  BY <1>0, <1>1, <1>3 DEF CallerSteps, CallAgrees, Standing, Over, Taken
<1> QED
  BY <1>1, <1>2, <1>5, <1>6, <1>7, <1>8 DEF CallAgrees, Standing

\* A step that leaves the caller where it stands.
LEMMA CallerStays ==
  ASSUME NEW i, NEW a, NEW b, NEW p, NEW q, NEW C, NEW D, NEW t, NEW k, NEW u, NEW r, NEW v,
         NEW E, NEW F, CallerSteps(i, a, b, p, q, C, D, t, k, u, r, v, E, F), p.state # "NONE",
         Kept(p, t), t.state = p.state \/ (p.state \in Inviting /\ t.state \in Inviting),
         k \in {"answer", "reject", "bye"} => p.state = "ENDED",
         r \in {"nothing", "error", "bye"} \/ (p.state = "ACTIVE" /\ r \in Talk),
         r = "bye" => p.state = "ENDED"
  PROVE  CallAgrees(i, a, b, t, q, E, F)
<1>0. {"invite", "answer", "reject", "bye", "withdraw"} \cup Talk \subseteq Kind /\ 0 \in AnyUpdate
  BY DEF Kind, MessageType, AnyUpdate, Talk
<1>1. /\ CallerSide(i, p, q, C) /\ CalleeSide(i, a, p, q, D) /\ Less(i, D, F)
      /\ t.role = p.role /\ t.wasActive = p.wasActive /\ t.peer = p.peer
      /\ t.state = "ACTIVE" <=> p.state = "ACTIVE"
      /\ t.state = "ENDED" <=> p.state = "ENDED"
      /\ t.state \in Inviting <=> p.state \in Inviting
      /\ r # "invite" /\ r # "withdraw" /\ Sends(i, C, E, r, v)
  BY TakesLess DEF CallerSteps, CallAgrees, Kept, Inviting, Talk
<1>2. CallerSide(i, t, q, E)
  <2>1. t.state = "ACTIVE" => t.wasActive = TRUE
    BY <1>1 DEF CallerSide
  <2>2. ASSUME t.wasActive = FALSE
        PROVE  p.wasActive = FALSE /\ r \in {"nothing", "withdraw", "bye", "error"}
    BY <1>1, <2>1, <2>2
  <2> QED BY <1>1, <2>1, <2>2, CallerSideSent
<1>3. CalleeSide(i, a, t, q, F)
  BY <1>1, CalleeSideKept
<1>4. \A n \in {"withdraw", "bye"} : Has(C, i, n, 0) => Has(E, i, n, 0)
  BY <1>0, <1>1 DEF Sends, Sent, Same
<1>5. ASSUME p.state # "ENDED", NEW n \in {"answer", "reject", "bye"}, Has(D, i, n, 0)
      PROVE  Has(F, i, n, 0)
  <2>1. n \in Kind /\ k # n
    BY <1>0, <1>5
  <2>2. CASE k = "nothing"
    BY <1>0, <1>5, <2>1, <2>2 DEF CallerSteps, Takes, Same
  <2>3. CASE k # "nothing"
    BY <1>0, <1>5, <2>1, <2>3 DEF CallerSteps, Takes, Taken
  <2> QED BY <2>2, <2>3
<1>6. q.state = "NONE" => Unheard(i, t, E, F)
  <2> SUFFICES ASSUME q.state = "NONE" PROVE Unheard(i, t, E, F)
    OBVIOUS
  <2>1. Unheard(i, p, C, D)
    BY DEF CallerSteps, CallAgrees, Standing
  <2>2. t.state \in Inviting \/ (t.state = "ENDED" /\ Has(C, i, "withdraw", 0))
    BY <1>1, <2>1 DEF Unheard
  <2> QED BY <1>1, <2>1, <2>2, UnheardKept DEF CallerSteps
<1>7. q.state \in {"OFFERED", "ALERTING"} => Undecided(i, t, E, F)
  BY <1>0, <1>1, <1>4 DEF CallerSteps, CallAgrees, Standing, Undecided, Carries, NoTalk, Less
<1>8. q.state = "ACTIVE" => Answered(i, t, E, F)
  BY <1>0, <1>1, <1>4, <1>5 DEF CallerSteps, CallAgrees, Standing, Answered, Carries, Less, Inviting
<1>9. q.state = "ENDED" => Over(i, t, E, F)
  <2> SUFFICES ASSUME q.state = "ENDED" PROVE Over(i, t, E, F)
    OBVIOUS
  <2>1. Over(i, p, C, D)
    BY DEF CallerSteps, CallAgrees, Standing
  <2>2. CASE p.state = "ENDED"
    BY <1>1, <2>2 DEF Over
  <2>3. CASE p.state # "ENDED"
    <3>1. \A n \in {"answer", "reject", "bye"} : Has(D, i, n, 0) => Has(F, i, n, 0)
      BY <1>5, <2>3
    <3> QED BY <1>1, <2>1, <2>3, <3>1 DEF Over
  <2> QED BY <2>2, <2>3
<1> QED
  BY <1>1, <1>2, <1>3, <1>6, <1>7, <1>8, <1>9 DEF CallerSteps, CallAgrees, Standing

\* Whatever the caller does, the two agree.
LEMMA CallerTurn ==
  ASSUME NEW i, NEW a, NEW b, NEW p, NEW q, NEW C, NEW D, NEW t, NEW k, NEW u, NEW r, NEW v,
         NEW E, NEW F, NEW used, NEW used2,
         CallerSteps(i, a, b, p, q, C, D, t, k, u, r, v, E, F),
         Turn(a, a, b, p, t, k, u, r, v, used, used2)
  PROVE  CallAgrees(i, a, b, t, q, E, F)
<1>0. {"invite", "withdraw", "bye"} \subseteq Kind /\ 0 \in AnyUpdate
  BY DEF Kind, MessageType, AnyUpdate
<1>1. p.role = "initiator" \/ p.state = "NONE"
  BY DEF CallerSteps, CallAgrees, CallerSide
<1>2. p.state \notin {"OFFERED", "ALERTING"}
  BY <1>1 DEF CallerSteps, Coherent
<1>3. k # "invite"
  BY DEF CallerSteps, CallAgrees, CalleeSide, Takes, Taken
<1>4. CASE Rests(p, t, k, r)
  <2>1. CASE p.state = "NONE"
    <3>1. q.state \notin {"OFFERED", "ALERTING", "ACTIVE", "ENDED"}
      BY <2>1 DEF CallerSteps, CallAgrees, Standing, Undecided, Answered, Over, Inviting
    <3>2. q.state = "NONE"
      BY <3>1 DEF CallerSteps, SessionRec, Inviting
    <3>3. Idle(C, i) /\ Idle(D, i)
      BY <2>1, <3>2 DEF CallerSteps, CallAgrees, Standing, Unheard
    <3>4. Idle(E, i) /\ Idle(F, i)
      BY <1>4, <3>3 DEF CallerSteps, Rests, Takes, Sends, Same, Less, Idle
    <3>5. CallerSide(i, p, q, E)
      <4>1. CallerSide(i, p, q, C) /\ Unspoken(E, i)
        BY <3>4 DEF CallerSteps, CallAgrees, Idle, Unspoken
      <4>2. \A n \in {"invite", "withdraw", "bye"} : ~Has(E, i, n, 0)
        BY <1>0, <3>4 DEF Idle
      <4> QED BY <4>1, <4>2, Zenon DEF CallerSide
    <3>6. CalleeSide(i, a, p, q, F)
      BY <1>4, TakesLess, CalleeSideKept, <2>1 DEF CallerSteps, CallAgrees
    <3> QED BY <1>4, <2>1, <3>2, <3>4, <3>5, <3>6 DEF Rests, CallAgrees, Standing, Unheard
  <2>2. CASE p.state # "NONE"
    BY <1>4, <2>2, CallerStays DEF Rests, Kept
  <2> QED BY <2>1, <2>2
<1>5. CASE Places(p, t, k, r)
  BY <1>5, CallerPlaces DEF CallerSteps, Takes, Sends, Places
<1>6. CASE Withdraws(p, t, k, r)
  BY <1>6, CallerWithdraws
<1>7. CASE HangsUp(p, t, k, r)
  BY <1>7, CallerHangsUp
<1>8. CASE Establishes(b, p, t, k, r)
  BY <1>8, CallerIsAnswered
<1>9. CASE EndedByPeer(p, t, k, r)
  BY <1>9, CallerIsEnded
<1>10. CASE Progresses(p, t, k, r)
  BY <1>10, CallerStays DEF Progresses, Inviting
<1>11. CASE Ignores(p, t, k, r)
  BY <1>11, CallerStays DEF Ignores, Kept
<1>12. CASE Objects(p, t, k, r)
  BY <1>1, <1>12, CallerStays DEF Objects, Remains
<1>13. CASE Informs(p, t, k, r)
  BY <1>13, CallerStays DEF Informs, Remains, Talk
<1>14. CASE Renegotiates(a, p, t, k, u, r, v, used, used2)
  BY <1>14, CallerStays DEF Renegotiates, Offers, Settles, Yields, Refuses, Learns, Talk
<1> QED
  BY <1>2, <1>3, <1>4, <1>5, <1>6, <1>7, <1>8, <1>9, <1>10, <1>11, <1>12, <1>13, <1>14
  DEF Turn, TurnsDown, Alerts, Accepts, Invited
-----------------------------------------------------------------------------
(* The call, at the other side.                                            *)

\* The caller's side is not disturbed by what the callee takes.
LEMMA CallerSideKept ==
  ASSUME NEW i, NEW p, NEW q, NEW C, NEW t, NEW E, CallerSide(i, p, q, C), Less(i, C, E),
         t.state # "NONE" => ~Has(E, i, "invite", 0),
         p.wasActive = FALSE /\ t.state # "ENDED" => t.postAnswerSeen = FALSE
  PROVE  CallerSide(i, p, t, E)
<1>0. {"invite", "withdraw", "bye"} \subseteq Kind /\ 0 \in AnyUpdate
  BY DEF Kind, MessageType, AnyUpdate
<1>1. /\ Has(E, i, "withdraw", 0) => Has(C, i, "withdraw", 0)
      /\ Has(E, i, "bye", 0) => Has(C, i, "bye", 0)
      /\ Unspoken(C, i) => Unspoken(E, i)
  BY <1>0 DEF Less, Unspoken
<1> QED BY <1>1, Zenon DEF CallerSide

\* The callee's side, by what it sends.
LEMMA CalleeSideSent ==
  ASSUME NEW i, NEW a, NEW p, NEW q, NEW D, NEW t, NEW F, NEW r, NEW v,
         CalleeSide(i, a, p, q, D), Sends(i, D, F, r, v), r # "invite",
         t.state # "NONE" => t.role = "responder" /\ t.peer = a,
         r \in {"answer", "reject"} =>
           /\ p.state # "ACTIVE" /\ v = 0
           /\ NoTalk(D, i) /\ ~Carries(D, i, {"answer", "reject", "bye"}),
         r \in {"bye"} \cup Talk => ~Has(D, i, "reject", 0)
  PROVE  CalleeSide(i, a, p, t, F)
<1>0. {"invite", "answer", "reject", "bye"} \cup Talk \subseteq Kind /\ 0 \in AnyUpdate
  BY DEF Kind, MessageType, AnyUpdate, Talk
<1>1. \A n \in Kind, w \in AnyUpdate : n # r /\ Has(F, i, n, w) => Has(D, i, n, w)
  BY DEF Sends, Sent, Same, Less
<1>2. ~Has(F, i, "invite", 0)
  BY <1>0, <1>1 DEF CalleeSide
<1>3. p.state = "ACTIVE" => ~Carries(F, i, {"answer", "reject"})
  BY <1>0, <1>1 DEF CalleeSide, Carries
<1>4. p.state # "ACTIVE" => AnswerFirst(F, i)
  <2>1. CASE r = "answer"
    <3>1. \A n \in {"bye"} \cup Talk, w \in AnyUpdate : ~Has(D, i, n, w) \/ (n = "bye" /\ w # 0)
      BY <1>0, <2>1 DEF NoTalk, Carries
    <3>2. \A n \in {"bye"} \cup Talk, w \in AnyUpdate :
             ~Has(D, i, n, w) => Before(F, i, "answer", 0, n, w)
      BY <1>0, <2>1 DEF Sends, Sent, Talk
    <3> QED BY <1>0, <3>1, <3>2 DEF AnswerFirst, Talk
  <2>2. CASE r # "answer"
    <3>1. \A n \in Kind, w \in AnyUpdate :
            Before(D, i, "answer", 0, n, w) => Before(F, i, "answer", 0, n, w)
      BY <1>0, <2>2 DEF Sends, Sent, Same, Less
    <3> QED BY <1>0, <3>1 DEF CalleeSide, AnswerFirst
  <2> QED BY <2>1, <2>2
<1>5. Once(F, i, "answer", 0)
  BY <1>0 DEF CalleeSide, Sends, Sent, Same, Less, Carries
<1>6. Has(F, i, "reject", 0) => NoTalk(F, i) /\ ~Carries(F, i, {"answer", "bye"})
  <2> SUFFICES ASSUME Has(F, i, "reject", 0)
               PROVE  NoTalk(F, i) /\ ~Carries(F, i, {"answer", "bye"})
    OBVIOUS
  <2>1. NoTalk(D, i) /\ ~Carries(D, i, {"answer", "bye"})
    <3>1. CASE r = "reject"
      BY <3>1 DEF Carries
    <3>2. CASE r # "reject"
      BY <1>0, <1>1, <3>2 DEF CalleeSide
    <3> QED BY <3>1, <3>2
  <2>2. r \notin {"bye"} \cup Talk
    <3>1. CASE r = "reject"
      BY <3>1 DEF Talk
    <3>2. CASE r # "reject"
      BY <1>0, <1>1, <3>2
    <3> QED BY <3>1, <3>2
  <2>3. r # "answer"
    BY <1>0, <1>1 DEF Carries
  <2>4. NoTalk(F, i)
    BY <1>0, <1>1, <2>1, <2>2 DEF NoTalk
  <2>5. ~Carries(F, i, {"answer", "bye"})
    BY <1>0, <1>1, <2>1, <2>2, <2>3 DEF Carries
  <2> QED BY <2>4, <2>5
<1> QED
  BY <1>2, <1>3, <1>4, <1>5, <1>6 DEF CalleeSide

\* The call at its callee, before and after a step.
CalleeSteps(i, a, b, p, q, C, D, t, k, u, r, v, E, F) ==
  /\ CallAgrees(i, a, b, p, q, C, D)
  /\ Coherent(p) /\ Coherent(q) /\ q \in SessionRec
  /\ u \in AnyUpdate /\ (k \notin {"update", "reply"} => u = 0)
  /\ v \in AnyUpdate /\ (r \notin {"update", "reply"} => v = 0)
  /\ Takes(i, C, E, k, u)
  /\ Sends(i, D, F, r, v)

\* The invite arrives.
LEMMA CalleeIsInvited ==
  ASSUME NEW i, NEW a, NEW b, NEW p, NEW q, NEW C, NEW D, NEW t, NEW k, NEW u, NEW r, NEW v,
         NEW E, NEW F, CalleeSteps(i, a, b, p, q, C, D, t, k, u, r, v, E, F),
         Invited(a, q, t, k, r)
  PROVE  CallAgrees(i, a, b, p, t, E, F)
<1>0. {"invite", "withdraw", "reject", "answer", "bye"} \cup Talk \subseteq Kind /\ 0 \in AnyUpdate
  BY DEF Kind, MessageType, AnyUpdate, Talk
<1>1. /\ CallerSide(i, p, q, C) /\ CalleeSide(i, a, p, q, D) /\ Less(i, C, E)
      /\ q.state = "NONE" /\ k = "invite" /\ u = 0 /\ Taken(i, C, E, "invite", 0)
      /\ t.role = "responder" /\ t.peer = a /\ t.postAnswerSeen = FALSE
      /\ r \in {"nothing", "reject"} /\ v = 0 /\ Sends(i, D, F, r, v)
  BY TakesLess DEF CalleeSteps, CallAgrees, Invited, Takes
<1>2. Idle(D, i) /\ Unheard(i, p, C, D)
  BY <1>1 DEF CalleeSteps, CallAgrees, Standing, Unheard
<1>3. /\ ~Has(E, i, "invite", 0)
      /\ p.state \in Inviting \/ (p.state = "ENDED" /\ Has(C, i, "withdraw", 0))
  BY <1>0, <1>1, <1>2 DEF Unheard, Idle, Taken
<1>4. Has(C, i, "withdraw", 0) => Has(E, i, "withdraw", 0)
  BY <1>0, <1>1 DEF Taken
<1>5. CallerSide(i, p, t, E)
  BY <1>1, <1>3, CallerSideKept
<1>6. NoTalk(D, i) /\ ~Carries(D, i, {"answer", "reject", "bye"})
  BY <1>0, <1>2 DEF Idle, NoTalk, Carries
<1>7. CalleeSide(i, a, p, t, F)
  <2>1. p.state # "ACTIVE"
    BY <1>3 DEF Inviting
  <2>2. r \notin {"bye"} \cup Talk
    BY <1>1 DEF Talk
  <2> QED BY <1>1, <1>6, <2>1, <2>2, CalleeSideSent
<1>8. CASE r = "nothing" /\ t.state = "OFFERED"
  <2>1. NoTalk(F, i) /\ ~Carries(F, i, {"answer", "reject", "bye"})
    BY <1>0, <1>1, <1>6, <1>8 DEF Sends, Same, Less, NoTalk, Carries
  <2> QED BY <1>3, <1>4, <1>5, <1>7, <1>8, <2>1 DEF CallAgrees, Standing, Undecided, Inviting
<1>9. CASE r = "reject" /\ t.state = "ENDED"
  <2>1. Has(F, i, "reject", 0)
    BY <1>1, <1>9 DEF Sends, Sent
  <2> QED BY <1>3, <1>5, <1>7, <1>9, <2>1 DEF CallAgrees, Standing, Over, Inviting
<1> QED
  BY <1>8, <1>9 DEF Invited

\* The callee turns the call down.
LEMMA CalleeTurnsDown ==
  ASSUME NEW i, NEW a, NEW b, NEW p, NEW q, NEW C, NEW D, NEW t, NEW k, NEW u, NEW r, NEW v,
         NEW E, NEW F, CalleeSteps(i, a, b, p, q, C, D, t, k, u, r, v, E, F), TurnsDown(q, t, k, r)
  PROVE  CallAgrees(i, a, b, p, t, E, F)
<1>1. /\ CallerSide(i, p, q, C) /\ CalleeSide(i, a, p, q, D) /\ Less(i, C, E)
      /\ q.state \in {"OFFERED", "ALERTING"} /\ k = "nothing"
      /\ t.state = "ENDED" /\ t.role = q.role /\ t.peer = q.peer
      /\ r = "reject" /\ v = 0 /\ Sends(i, D, F, r, v)
  BY TakesLess DEF CalleeSteps, CallAgrees, TurnsDown, Kept
<1>2. Undecided(i, p, C, D)
  BY <1>1 DEF CalleeSteps, CallAgrees, Standing
<1>3. CallerSide(i, p, t, E)
  <2>1. ~Has(E, i, "invite", 0)
    BY <1>1 DEF CallerSide, Less, Kind, MessageType, AnyUpdate
  <2> QED BY <1>1, <2>1, CallerSideKept
<1>4. CalleeSide(i, a, p, t, F)
  <2>1. p.state # "ACTIVE" /\ t.role = "responder" /\ t.peer = a
    BY <1>1, <1>2 DEF Undecided, Inviting, CalleeSide
  <2> QED BY <1>1, <1>2, <2>1, CalleeSideSent DEF Undecided, Talk
<1>5. Has(F, i, "reject", 0)
  BY <1>1 DEF Sends, Sent
<1> QED
  BY <1>1, <1>2, <1>3, <1>4, <1>5 DEF CallAgrees, Standing, Over, Undecided, Inviting

\* The callee answers.
LEMMA CalleeAccepts ==
  ASSUME NEW i, NEW a, NEW b, NEW p, NEW q, NEW C, NEW D, NEW t, NEW k, NEW u, NEW r, NEW v,
         NEW E, NEW F, CalleeSteps(i, a, b, p, q, C, D, t, k, u, r, v, E, F), Accepts(q, t, k, r)
  PROVE  CallAgrees(i, a, b, p, t, E, F)
<1>0. {"invite", "withdraw", "reject", "answer", "bye"} \subseteq Kind /\ 0 \in AnyUpdate
  BY DEF Kind, MessageType, AnyUpdate
<1>1. /\ CallerSide(i, p, q, C) /\ CalleeSide(i, a, p, q, D) /\ Less(i, C, E)
      /\ q.state = "ALERTING" /\ k = "nothing" /\ Same(i, C, E)
      /\ t.state = "ACTIVE" /\ t.role = q.role /\ t.peer = q.peer
      /\ t.postAnswerSeen = q.postAnswerSeen
      /\ r = "answer" /\ v = 0 /\ Sends(i, D, F, r, v)
  BY TakesLess DEF CalleeSteps, CallAgrees, Accepts, Takes
<1>2. Undecided(i, p, C, D)
  BY <1>1 DEF CalleeSteps, CallAgrees, Standing
<1>3. CallerSide(i, p, t, E)
  <2>1. ~Has(E, i, "invite", 0)
    BY <1>0, <1>1 DEF CallerSide, Less
  <2>2. p.wasActive = FALSE => t.postAnswerSeen = FALSE
    BY <1>1, Zenon DEF CallerSide
  <2> QED BY <1>1, <2>1, <2>2, CallerSideKept
<1>4. CalleeSide(i, a, p, t, F)
  <2>1. p.state # "ACTIVE" /\ t.role = "responder" /\ t.peer = a
    BY <1>1, <1>2 DEF Undecided, Inviting, CalleeSide
  <2> QED BY <1>1, <1>2, <2>1, CalleeSideSent DEF Undecided, Talk
<1>5. Has(F, i, "answer", 0) /\ ~Carries(F, i, {"reject", "bye"})
  BY <1>0, <1>1, <1>2 DEF Sends, Sent, Undecided, Carries
<1>6. Has(C, i, "withdraw", 0) => Has(E, i, "withdraw", 0)
  BY <1>0, <1>1 DEF Same
<1>7. Answered(i, p, E, F)
  BY <1>2, <1>5, <1>6 DEF Answered, Undecided, Carries, Inviting
<1> QED
  BY <1>1, <1>2, <1>3, <1>4, <1>7 DEF CallAgrees, Standing, Undecided, Inviting

\* The callee hangs up.
LEMMA CalleeHangsUp ==
  ASSUME NEW i, NEW a, NEW b, NEW p, NEW q, NEW C, NEW D, NEW t, NEW k, NEW u, NEW r, NEW v,
         NEW E, NEW F, CalleeSteps(i, a, b, p, q, C, D, t, k, u, r, v, E, F), HangsUp(q, t, k, r)
  PROVE  CallAgrees(i, a, b, p, t, E, F)
<1>0. {"invite", "withdraw", "reject", "answer", "bye"} \subseteq Kind /\ 0 \in AnyUpdate
  BY DEF Kind, MessageType, AnyUpdate
<1>1. /\ CallerSide(i, p, q, C) /\ CalleeSide(i, a, p, q, D) /\ Less(i, C, E)
      /\ q.state = "ACTIVE" /\ k = "nothing"
      /\ t.state = "ENDED" /\ t.role = q.role /\ t.peer = q.peer
      /\ r = "bye" /\ v = 0 /\ Sends(i, D, F, r, v)
  BY TakesLess DEF CalleeSteps, CallAgrees, HangsUp, Kept
<1>2. Answered(i, p, C, D)
  BY <1>1 DEF CalleeSteps, CallAgrees, Standing
<1>3. CallerSide(i, p, t, E)
  <2>1. ~Has(E, i, "invite", 0)
    BY <1>0, <1>1 DEF CallerSide, Less
  <2> QED BY <1>1, <2>1, CallerSideKept
<1>4. CalleeSide(i, a, p, t, F)
  <2>1. ~Has(D, i, "reject", 0) /\ t.role = "responder" /\ t.peer = a
    BY <1>1, <1>2 DEF Answered, Carries, CalleeSide
  <2> QED BY <1>1, <2>1, CalleeSideSent
<1>5. Has(F, i, "bye", 0) /\ (Has(D, i, "answer", 0) => Has(F, i, "answer", 0))
  BY <1>0, <1>1 DEF Sends, Sent
<1>6. Over(i, p, E, F)
  BY <1>2, <1>5 DEF Over, Answered
<1> QED
  BY <1>1, <1>3, <1>4, <1>6 DEF CalleeSteps, CallAgrees, Standing

\* The caller withdraws, or ends the call.
LEMMA CalleeIsEnded ==
  ASSUME NEW i, NEW a, NEW b, NEW p, NEW q, NEW C, NEW D, NEW t, NEW k, NEW u, NEW r, NEW v,
         NEW E, NEW F, CalleeSteps(i, a, b, p, q, C, D, t, k, u, r, v, E, F),
         EndedByPeer(q, t, k, r), k # "reject"
  PROVE  CallAgrees(i, a, b, p, t, E, F)
<1>0. {"invite", "withdraw", "bye"} \subseteq Kind /\ 0 \in AnyUpdate
  BY DEF Kind, MessageType, AnyUpdate
<1>1. /\ CallerSide(i, p, q, C) /\ CalleeSide(i, a, p, q, D) /\ Less(i, C, E)
      /\ q.state \in {"OFFERED", "ALERTING", "ACTIVE"} /\ k \in {"withdraw", "bye"} /\ u = 0
      /\ t.state = "ENDED" /\ t.role = q.role /\ t.peer = q.peer
      /\ r = "nothing" /\ Sends(i, D, F, r, v)
  BY TakesLess DEF CalleeSteps, CallAgrees, EndedByPeer, Kept
<1>2. p.state = "ENDED"
  BY <1>1 DEF CalleeSteps, Takes, Taken, CallerSide
<1>3. CallerSide(i, p, t, E)
  <2>1. ~Has(E, i, "invite", 0)
    BY <1>0, <1>1 DEF CallerSide, Less
  <2> QED BY <1>1, <2>1, CallerSideKept
<1>4. CalleeSide(i, a, p, t, F)
  <2>1. t.role = "responder" /\ t.peer = a
    BY <1>1 DEF CalleeSide
  <2>2. r \notin {"bye"} \cup Talk
    BY <1>1 DEF Talk
  <2> QED BY <1>1, <2>1, <2>2, CalleeSideSent
<1> QED
  BY <1>1, <1>2, <1>3, <1>4 DEF CallAgrees, Standing, Over

\* A step that leaves the callee where it stands.
LEMMA CalleeStays ==
  ASSUME NEW i, NEW a, NEW b, NEW p, NEW q, NEW C, NEW D, NEW t, NEW k, NEW u, NEW r, NEW v,
         NEW E, NEW F, CalleeSteps(i, a, b, p, q, C, D, t, k, u, r, v, E, F), q.state # "NONE",
         Kept(q, t), t.state = q.state \/ (q.state = "OFFERED" /\ t.state = "ALERTING"),
         k # "invite", k = "withdraw" => q.state = "ENDED", k = "bye" => q.state # "ACTIVE",
         r \in {"nothing", "error", "progress"} \/ (q.state = "ACTIVE" /\ r \in Talk),
         t.postAnswerSeen = q.postAnswerSeen \/ k \notin {"nothing", "withdraw", "bye", "error"}
  PROVE  CallAgrees(i, a, b, p, t, E, F)
<1>0. {"invite", "withdraw", "reject", "answer", "bye"} \cup Talk \subseteq Kind /\ 0 \in AnyUpdate
  BY DEF Kind, MessageType, AnyUpdate, Talk
<1>1. /\ CallerSide(i, p, q, C) /\ CalleeSide(i, a, p, q, D) /\ Less(i, C, E)
      /\ t.role = q.role /\ t.peer = q.peer /\ t.state # "NONE"
      /\ t.state = "ACTIVE" <=> q.state = "ACTIVE"
      /\ t.state = "ENDED" <=> q.state = "ENDED"
      /\ t.state \in {"OFFERED", "ALERTING"} <=> q.state \in {"OFFERED", "ALERTING"}
      /\ r \notin {"invite", "answer", "reject", "bye"} /\ Sends(i, D, F, r, v)
  BY TakesLess DEF CalleeSteps, CallAgrees, Kept, Talk
<1>2. CallerSide(i, p, t, E)
  <2>1. ~Has(E, i, "invite", 0)
    BY <1>0, <1>1 DEF CallerSide, Less
  <2>2. ASSUME p.wasActive = FALSE, t.state # "ENDED" PROVE t.postAnswerSeen = FALSE
    <3>1. Unspoken(C, i) /\ q.postAnswerSeen = FALSE
      BY <1>1, <2>2, Zenon DEF CallerSide
    <3>2. k \in {"nothing", "withdraw", "bye", "error"}
      BY <3>1 DEF CalleeSteps, Takes, Taken, Unspoken
    <3> QED BY <3>1, <3>2
  <2> QED BY <1>1, <2>1, <2>2, CallerSideKept
<1>3. q.state = "ACTIVE" => ~Has(D, i, "reject", 0)
  BY DEF CalleeSteps, CallAgrees, Standing, Answered, Carries
<1>4. CalleeSide(i, a, p, t, F)
  <2>1. t.role = "responder" /\ t.peer = a
    BY <1>1 DEF CalleeSide
  <2>2. r \in {"bye"} \cup Talk => ~Has(D, i, "reject", 0)
    BY <1>1, <1>3 DEF Talk
  <2> QED BY <1>1, <2>1, <2>2, CalleeSideSent
<1>5. \A n \in {"answer", "reject", "bye"} : Has(D, i, n, 0) <=> Has(F, i, n, 0)
  BY <1>0, <1>1 DEF Sends, Sent, Same, Less
<1>6. CASE q.state \in {"OFFERED", "ALERTING"}
  <2>1. Undecided(i, p, C, D)
    BY <1>6 DEF CalleeSteps, CallAgrees, Standing
  <2>2. Has(C, i, "withdraw", 0) => Has(E, i, "withdraw", 0)
    BY <1>0, <1>6 DEF CalleeSteps, Takes, Taken, Same
  <2>3. NoTalk(F, i)
    <3>1. r \notin Talk
      BY <1>6 DEF Talk
    <3> QED BY <1>0, <1>1, <2>1, <3>1 DEF Undecided, NoTalk, Sends, Sent, Same, Less
  <2>4. Undecided(i, p, E, F)
    BY <1>5, <2>1, <2>2, <2>3 DEF Undecided, Carries
  <2> QED BY <1>1, <1>2, <1>4, <1>6, <2>4 DEF CalleeSteps, CallAgrees, Standing
<1>7. CASE q.state = "ACTIVE"
  <2>1. Answered(i, p, C, D)
    BY <1>7 DEF CalleeSteps, CallAgrees, Standing
  <2>2. \A n \in {"withdraw", "bye"} : Has(C, i, n, 0) => Has(E, i, n, 0)
    BY <1>0, <1>7 DEF CalleeSteps, Takes, Taken, Same
  <2>3. Answered(i, p, E, F)
    BY <1>5, <2>1, <2>2 DEF Answered, Carries
  <2> QED BY <1>1, <1>2, <1>4, <1>7, <2>3 DEF CalleeSteps, CallAgrees, Standing
<1>8. CASE q.state = "ENDED"
  <2>1. Over(i, p, C, D)
    BY <1>8 DEF CalleeSteps, CallAgrees, Standing
  <2>2. Over(i, p, E, F)
    BY <1>5, <2>1 DEF Over
  <2> QED BY <1>1, <1>2, <1>4, <1>8, <2>2 DEF CalleeSteps, CallAgrees, Standing
<1>9. q.state \in {"OFFERED", "ALERTING", "ACTIVE", "ENDED"}
  <2>1. q.role = "responder"
    BY <1>1 DEF CalleeSide
  <2> QED BY <2>1 DEF CalleeSteps, Coherent, SessionRec, Inviting
<1> QED
  BY <1>6, <1>7, <1>8, <1>9

\* Whatever the callee does, the two agree.
LEMMA CalleeTurn ==
  ASSUME NEW i, NEW a, NEW b, NEW p, NEW q, NEW C, NEW D, NEW t, NEW k, NEW u, NEW r, NEW v,
         NEW E, NEW F, NEW used, NEW used2, a # b,
         CalleeSteps(i, a, b, p, q, C, D, t, k, u, r, v, E, F),
         Turn(a, b, a, q, t, k, u, r, v, used, used2)
  PROVE  CallAgrees(i, a, b, p, t, E, F)
<1>1. q.state # "NONE" => q.role = "responder"
  BY DEF CalleeSteps, CallAgrees, CalleeSide
<1>2. q.state \notin Inviting
  BY <1>1 DEF CalleeSteps, Coherent, Inviting
<1>4. CASE Rests(q, t, k, r)
  <2>1. CASE q.state = "NONE"
    <3>1. Less(i, C, E) /\ Less(i, D, F) /\ Same(i, C, E) /\ CallerSide(i, p, q, C) /\ CalleeSide(i, a, p, q, D)
      BY <1>4 DEF CalleeSteps, Rests, Takes, Sends, Same, CallAgrees
    <3>2. CallerSide(i, p, q, E)
      <4>1. p.wasActive = FALSE /\ q.state # "ENDED" => q.postAnswerSeen = FALSE
        BY <3>1, Zenon DEF CallerSide
      <4> QED BY <2>1, <3>1, <4>1, CallerSideKept
    <3>3. CalleeSide(i, a, p, q, F)
      BY <3>1, CalleeSideKept
    <3>4. Unheard(i, p, E, F)
      <4>1. Unheard(i, p, C, D)
        BY <2>1 DEF CalleeSteps, CallAgrees, Standing
      <4> QED BY <3>1, <4>1 DEF Unheard, Idle, Same, Less, Kind, MessageType, AnyUpdate
    <3> QED BY <1>4, <2>1, <3>2, <3>3, <3>4 DEF CalleeSteps, CallAgrees, Standing, Rests
  <2>2. CASE q.state # "NONE"
    BY <1>4, <2>2, CalleeStays DEF Rests, Kept
  <2> QED BY <2>1, <2>2
<1>5. CASE TurnsDown(q, t, k, r)
  BY <1>5, CalleeTurnsDown
<1>6. CASE Alerts(q, t, k, r)
  BY <1>6, CalleeStays DEF Alerts
<1>7. CASE Accepts(q, t, k, r)
  BY <1>7, CalleeAccepts
<1>8. CASE Invited(a, q, t, k, r)
  BY <1>8, CalleeIsInvited
<1>9. CASE HangsUp(q, t, k, r)
  BY <1>9, CalleeHangsUp
<1>10. CASE EndedByPeer(q, t, k, r)
  BY <1>2, <1>10, CalleeIsEnded DEF EndedByPeer
<1>11. CASE Ignores(q, t, k, r)
  BY <1>1, <1>11, CalleeStays DEF Ignores, Kept
<1>12. CASE Objects(q, t, k, r)
  BY <1>1, <1>12, CalleeStays DEF Objects, Remains, Kind, MessageType
<1>13. CASE Informs(q, t, k, r)
  BY <1>13, CalleeStays DEF Informs, Remains, Talk
<1>14. CASE Renegotiates(b, q, t, k, u, r, v, used, used2)
  BY <1>14, CalleeStays DEF Renegotiates, Offers, Settles, Yields, Refuses, Learns, Talk
<1> QED
  BY <1>2, <1>4, <1>5, <1>6, <1>7, <1>8, <1>9, <1>10, <1>11, <1>12, <1>13, <1>14
  DEF Turn, Withdraws, Progresses, Establishes
-----------------------------------------------------------------------------
(* Updates, at one end x: o is its pending update and w that of the other    *)
(* end y; x sends on S and y on T.                                           *)

\* Connection S2 carries no more updates and replies of session i than S.
Fewer(i, S, S2) ==
  \A k \in {"update", "reply"}, u \in UpdateId :
    /\ Has(S2, i, k, u) => Has(S, i, k, u)
    /\ Once(S, i, k, u) => Once(S2, i, k, u)
    /\ \A v \in UpdateId : Before(S, i, "update", v, k, u) => Before(S2, i, "update", v, k, u)

\* ... and no fewer.
Equal(i, S, S2) ==
  Fewer(i, S, S2) /\ \A k \in {"update", "reply"}, u \in UpdateId : Has(S, i, k, u) => Has(S2, i, k, u)

\* What the pending updates are.
LEMMA PendingFacts ==
  /\ \A o \in Pending : \/ o = NoUpdate
                        \/ \E u \in UpdateId : o = Outbound(u) \/ o = Inbound(u)
  /\ \A u \in UpdateId : Outbound(u) \in Pending /\ Inbound(u) \in Pending
  /\ NoUpdate \in Pending
  /\ \A u, v \in UpdateId : /\ Outbound(u) = Outbound(v) => u = v
                            /\ Inbound(u) = Inbound(v) => u = v
                            /\ Outbound(u) # Inbound(v)
                            /\ Outbound(u) # NoUpdate /\ Inbound(u) # NoUpdate
  /\ \A u : Outbound(u).id = u /\ Outbound(u).dir = "outbound" /\ Inbound(u).dir = "inbound"
  /\ NoUpdate.dir = "none"
  BY DEF Pending, NoUpdate, Outbound, Inbound

\* The ids of updates, and the kinds of message that are about one.
LEMMA UpdateIds ==
  /\ UpdateId \subseteq Nat /\ UpdateId \subseteq AnyUpdate
  /\ \A u \in UpdateId : u # 0
  /\ "update" \in Kind /\ "reply" \in Kind
  BY IdAssumption DEF AnyUpdate, Kind, MessageType

\* Taking a message, or sending one that is neither update nor reply.
LEMMA FewerTaken ==
  ASSUME NEW i, NEW S, NEW S2, NEW k, NEW u, Takes(i, S, S2, k, u)
  PROVE  Fewer(i, S, S2) /\ (k \notin {"update", "reply"} => Equal(i, S, S2))
<1>1. Less(i, S, S2)
  BY TakesLess
<1>2. Fewer(i, S, S2)
  BY <1>1, UpdateIds DEF Less, Fewer
<1> QED
  BY <1>2, UpdateIds DEF Equal, Takes, Taken, Same

\* Sending what is neither update nor reply leaves those as they were.
LEMMA EqualSent ==
  ASSUME NEW i, NEW S, NEW S2, NEW r, NEW v, Sends(i, S, S2, r, v), r \notin {"update", "reply"}
  PROVE  Equal(i, S, S2)
  BY UpdateIds DEF Equal, Fewer, Sends, Sent, Same, Less

\* Fewer messages break nothing.
LEMMA HalfFewer ==
  ASSUME NEW i, NEW x, NEW o, NEW w, NEW S, NEW T, NEW used, NEW S2, NEW T2, NEW used2,
         Half(i, x, o, w, S, T, used), Fewer(i, S, S2), Fewer(i, T, T2), used \subseteq used2
  PROVE  Half(i, x, o, w, S2, T2, used2)
<1>1. SentOnce(i, x, o, w, S2, T2, used2)
  BY DEF Half, SentOnce, Fewer
<1>2. GivenUpLoses(i, o, w, S2, T2)
  BY DEF Half, GivenUpLoses, Fewer
<1> QED BY <1>1, <1>2 DEF Half

\* The updates of a session at end x, before and after a step.
UpdateSteps(i, x, y, o, w, S, T, used, k, u, r, v, S2, T2, used2) ==
  /\ o \in Pending /\ w \in Pending
  /\ Half(i, x, o, w, S, T, used) /\ Half(i, y, w, o, T, S, used)
  /\ x # y /\ used \subseteq used2
  /\ Takes(i, T, T2, k, u)
  /\ Sends(i, S, S2, r, v)

\* What is to hold after the step, o2 being the pending update of x.
UpdatesHold(i, x, y, o, w, S, T, o2, S2, T2, used2) ==
  /\ o2 \in Pending
  /\ Half(i, x, o2, w, S2, T2, used2) /\ Half(i, y, w, o2, T2, S2, used2)
  /\ Awaited(i, o, w, S, T) /\ Awaited(i, w, o, T, S) =>
       Awaited(i, o2, w, S2, T2) /\ Awaited(i, w, o2, T2, S2)

\* A step that is not about updates, or drops one at an end that is over.
LEMMA UpdatesRest ==
  ASSUME NEW i, NEW x, NEW y, NEW o, NEW w, NEW S, NEW T, NEW used, NEW k, NEW u, NEW r, NEW v,
         NEW S2, NEW T2, NEW used2,
         UpdateSteps(i, x, y, o, w, S, T, used, k, u, r, v, S2, T2, used2),
         r \notin {"update", "reply"}
  PROVE  /\ Half(i, x, o, w, S2, T2, used2) /\ Half(i, y, w, o, T2, S2, used2)
         /\ k \notin {"update", "reply"} =>
              UpdatesHold(i, x, y, o, w, S, T, o, S2, T2, used2)
<1>1. Fewer(i, S, S2) /\ Fewer(i, T, T2) /\ Equal(i, S, S2)
  BY FewerTaken, EqualSent DEF UpdateSteps, Equal
<1>2. Half(i, x, o, w, S2, T2, used2) /\ Half(i, y, w, o, T2, S2, used2)
  BY <1>1, HalfFewer DEF UpdateSteps
<1>3. ASSUME k \notin {"update", "reply"}, Awaited(i, o, w, S, T), Awaited(i, w, o, T, S)
      PROVE  Awaited(i, o, w, S2, T2) /\ Awaited(i, w, o, T2, S2)
  <2>1. Equal(i, T, T2)
    BY <1>3, FewerTaken DEF UpdateSteps
  <2> QED BY <1>1, <1>3, <2>1 DEF Awaited, Equal
<1> QED BY <1>2, <1>3 DEF UpdatesHold, UpdateSteps

\* What one more update changes, and one more reply.
LEMMA UpdateSent ==
  ASSUME NEW i, NEW S, NEW S2, NEW v \in UpdateId, Sends(i, S, S2, "update", v),
         ~Has(S, i, "update", v)
  PROVE  /\ Has(S2, i, "update", v) /\ Once(S2, i, "update", v)
         /\ \A k \in {"update", "reply"}, u \in UpdateId :
              /\ Has(S, i, k, u) => Has(S2, i, k, u)
              /\ k # "update" \/ u # v => /\ Has(S2, i, k, u) => Has(S, i, k, u)
                                          /\ Once(S, i, k, u) => Once(S2, i, k, u)
              /\ \A z \in UpdateId \ {v} :
                   /\ Before(S, i, "update", z, k, u) => Before(S2, i, "update", z, k, u)
                   /\ Before(S2, i, "update", z, "update", v)
<1>1. Sent(i, S, S2, "update", v)
  BY DEF Sends
<1> QED BY <1>1, UpdateIds DEF Sent

\* Sending a reply adds it and leaves all else about updates as it was.
LEMMA ReplySent ==
  ASSUME NEW i, NEW S, NEW S2, NEW v \in UpdateId, Sends(i, S, S2, "reply", v)
  PROVE  /\ Has(S2, i, "reply", v)
         /\ \A k \in {"update", "reply"}, u \in UpdateId :
              /\ Has(S, i, k, u) => Has(S2, i, k, u)
              /\ k # "reply" \/ u # v => /\ Has(S2, i, k, u) => Has(S, i, k, u)
                                         /\ Once(S, i, k, u) => Once(S2, i, k, u)
              /\ \A z \in UpdateId :
                   Before(S, i, "update", z, k, u) => Before(S2, i, "update", z, k, u)
<1>1. Sent(i, S, S2, "reply", v)
  BY DEF Sends
<1> QED BY <1>1, UpdateIds DEF Sent

\* Taking an update or a reply takes it and nothing else about updates.
LEMMA TalkTaken ==
  ASSUME NEW i, NEW T, NEW T2, NEW k \in {"update", "reply"}, NEW u \in UpdateId, Takes(i, T, T2, k, u)
  PROVE  /\ Has(T, i, k, u)
         /\ Once(T, i, k, u) => ~Has(T2, i, k, u)
         /\ Fewer(i, T, T2)
         /\ \A b \in {"update", "reply"}, v \in UpdateId :
              b # k \/ v # u => /\ Has(T, i, b, v) => Has(T2, i, b, v)
                                /\ Before(T, i, b, v, k, u) => ~Has(T, i, b, v)
<1>1. k \in Kind /\ u \in AnyUpdate /\ Taken(i, T, T2, k, u)
  BY UpdateIds DEF Takes
<1> QED BY <1>1, FewerTaken, UpdateIds DEF Taken

\* x offers a new update.
LEMMA UpdatesOffer ==
  ASSUME NEW i, NEW x, NEW y, NEW w, NEW S, NEW T, NEW used, NEW v \in UpdateId \ used,
         NEW S2, NEW T2, NEW used2,
         UpdateSteps(i, x, y, NoUpdate, w, S, T, used, "nothing", 0, "update", v, S2, T2, used2),
         v \in used2, UpdateOwner[v] = x
  PROVE  UpdatesHold(i, x, y, NoUpdate, w, S, T, Outbound(v), S2, T2, used2)
<1> DEFINE o == NoUpdate
           n == Outbound(v)
<1>1. Equal(i, T, T2) /\ Fewer(i, T, T2)
  BY FewerTaken DEF UpdateSteps, Equal
<1>2. /\ SentOnce(i, x, o, w, S, T, used) /\ GivenUpLoses(i, o, w, S, T)
      /\ SentOnce(i, y, w, o, T, S, used) /\ GivenUpLoses(i, w, o, T, S)
      /\ w \in Pending /\ used \subseteq used2 /\ x # y
      /\ Sends(i, S, S2, "update", v)
  BY DEF UpdateSteps, Half
<1>3. /\ ~Has(S, i, "update", v) /\ ~Has(T, i, "reply", v)
      /\ \A u \in UpdateId : w # Inbound(u)
  BY <1>2, PendingFacts DEF SentOnce
<1>4. /\ Has(S2, i, "update", v) /\ Once(S2, i, "update", v)
      /\ \A k \in {"update", "reply"}, u \in UpdateId :
           /\ Has(S, i, k, u) => Has(S2, i, k, u)
           /\ k # "update" \/ u # v => /\ Has(S2, i, k, u) => Has(S, i, k, u)
                                       /\ Once(S, i, k, u) => Once(S2, i, k, u)
           /\ \A z \in UpdateId \ {v} :
                /\ Before(S, i, "update", z, k, u) => Before(S2, i, "update", z, k, u)
                /\ Before(S2, i, "update", z, "update", v)
  BY <1>2, <1>3, UpdateSent
<1> HIDE DEF o, n
<1>5. /\ \A u \in UpdateId : (n = Outbound(u) <=> u = v) /\ n # Inbound(u) /\ o # Outbound(u) /\ o # Inbound(u)
      /\ n \in Pending
  BY PendingFacts DEF n, o
<1>6. SentOnce(i, x, n, w, S2, T2, used2)
  BY <1>1, <1>2, <1>3, <1>4, <1>5 DEF SentOnce, Equal, Fewer
<1>7. GivenUpLoses(i, n, w, S2, T2)
  BY <1>1, <1>2, <1>3, <1>4, <1>5 DEF GivenUpLoses, Equal, Fewer
<1>8. SentOnce(i, y, w, n, T2, S2, used2)
  BY <1>1, <1>2, <1>3, <1>4, <1>5 DEF SentOnce, Equal, Fewer
<1>9. GivenUpLoses(i, w, n, T2, S2)
  BY <1>1, <1>2, <1>3, <1>4, <1>5 DEF GivenUpLoses, Equal, Fewer
<1>10. ASSUME Awaited(i, o, w, S, T), Awaited(i, w, o, T, S)
       PROVE  Awaited(i, n, w, S2, T2) /\ Awaited(i, w, n, T2, S2)
  BY <1>1, <1>4, <1>5, <1>10 DEF Awaited, Equal, Fewer
<1> QED
  BY <1>5, <1>6, <1>7, <1>8, <1>9, <1>10 DEF UpdatesHold, Half, n, o

\* x answers or rejects the update it has been shown.
LEMMA UpdatesSettled ==
  ASSUME NEW i, NEW x, NEW y, NEW w, NEW S, NEW T, NEW used, NEW v \in UpdateId,
         NEW S2, NEW T2, NEW used2,
         UpdateSteps(i, x, y, Inbound(v), w, S, T, used, "nothing", 0, "reply", v, S2, T2, used2)
  PROVE  UpdatesHold(i, x, y, Inbound(v), w, S, T, NoUpdate, S2, T2, used2)
<1> DEFINE o == Inbound(v)
           n == NoUpdate
<1>1. Equal(i, T, T2) /\ Fewer(i, T, T2)
  BY FewerTaken DEF UpdateSteps, Equal
<1>2. /\ SentOnce(i, x, o, w, S, T, used) /\ GivenUpLoses(i, o, w, S, T)
      /\ SentOnce(i, y, w, o, T, S, used) /\ GivenUpLoses(i, w, o, T, S)
      /\ w \in Pending /\ used \subseteq used2 /\ x # y
      /\ Sends(i, S, S2, "reply", v)
  BY DEF UpdateSteps, Half
<1>3. /\ Has(S2, i, "reply", v)
      /\ \A k \in {"update", "reply"}, u \in UpdateId :
           /\ Has(S, i, k, u) => Has(S2, i, k, u)
           /\ k # "reply" \/ u # v => /\ Has(S2, i, k, u) => Has(S, i, k, u)
                                      /\ Once(S, i, k, u) => Once(S2, i, k, u)
           /\ \A z \in UpdateId :
                Before(S, i, "update", z, k, u) => Before(S2, i, "update", z, k, u)
  BY <1>2, ReplySent
<1> HIDE DEF o, n
<1>4. /\ \A u \in UpdateId : (o = Inbound(u) <=> u = v) /\ o # Outbound(u) /\ n # Outbound(u) /\ n # Inbound(u)
      /\ n \in Pending
  BY PendingFacts DEF n, o
<1>5. w = Outbound(v) /\ v \in used /\ ~Has(T, i, "update", v)
  BY <1>2, <1>4 DEF SentOnce
<1>6. \A u \in UpdateId : w # Inbound(u) /\ (w = Outbound(u) <=> u = v)
  BY <1>5, PendingFacts
<1>7. SentOnce(i, x, n, w, S2, T2, used2)
  BY <1>1, <1>2, <1>3, <1>4, <1>5, <1>6 DEF SentOnce, Equal, Fewer
<1>8. GivenUpLoses(i, n, w, S2, T2)
  BY <1>1, <1>2, <1>3, <1>4, <1>5, <1>6 DEF GivenUpLoses, Equal, Fewer
<1>9. SentOnce(i, y, w, n, T2, S2, used2)
  BY <1>1, <1>2, <1>3, <1>4, <1>5, <1>6 DEF SentOnce, Equal, Fewer
<1>10. GivenUpLoses(i, w, n, T2, S2)
  BY <1>1, <1>2, <1>3, <1>4, <1>5, <1>6 DEF GivenUpLoses, Equal, Fewer
<1>11. ASSUME Awaited(i, o, w, S, T), Awaited(i, w, o, T, S)
       PROVE  Awaited(i, n, w, S2, T2) /\ Awaited(i, w, n, T2, S2)
  BY <1>1, <1>3, <1>4, <1>6, <1>11 DEF Awaited, Equal, Fewer
<1> QED
  BY <1>4, <1>7, <1>8, <1>9, <1>10, <1>11 DEF UpdatesHold, Half, n, o

\* An update that reaches an end that is in the call is its sender's pending
\* one, unless a smaller one of the receiver is pending; a second one never is.
LEMMA UpdateArrives ==
  ASSUME NEW i, NEW x, NEW y, NEW o, NEW w, NEW S, NEW T, NEW used, NEW z \in UpdateId,
         o \in Pending, w \in Pending, x # y,
         Half(i, x, o, w, S, T, used), Half(i, y, w, o, T, S, used), Has(T, i, "update", z)
  PROVE  /\ \A u \in UpdateId : o # Inbound(u)
         /\ \A u \in UpdateId : o = Outbound(u) => u # z
         /\ (o = NoUpdate \/ (o.dir = "outbound" /\ ~(o.id < z))) => w = Outbound(z)
<1>1. /\ SentOnce(i, x, o, w, S, T, used) /\ SentOnce(i, y, w, o, T, S, used)
      /\ GivenUpLoses(i, w, o, T, S)
  BY DEF Half
<1>2. w # Outbound(z) => \E u \in UpdateId : o = Outbound(u) /\ u < z
  BY <1>1 DEF GivenUpLoses
<1>3. \A u \in UpdateId : o # Inbound(u)
  BY <1>1, <1>2, PendingFacts DEF SentOnce
<1>4. \A u \in UpdateId : o = Outbound(u) => u # z
  BY <1>1 DEF SentOnce
<1>5. (o = NoUpdate \/ (o.dir = "outbound" /\ ~(o.id < z))) => w = Outbound(z)
  BY <1>2, PendingFacts
<1> QED BY <1>3, <1>4, <1>5

\* x takes the other end's update and gives up its own.
LEMMA UpdatesYield ==
  ASSUME NEW i, NEW x, NEW y, NEW o, NEW w, NEW S, NEW T, NEW used, NEW z \in UpdateId,
         NEW S2, NEW T2, NEW used2,
         UpdateSteps(i, x, y, o, w, S, T, used, "update", z, "nothing", 0, S2, T2, used2),
         o = NoUpdate \/ (o.dir = "outbound" /\ ~(o.id < z))
  PROVE  UpdatesHold(i, x, y, o, w, S, T, Inbound(z), S2, T2, used2)
<1> DEFINE n == Inbound(z)
<1>1. Equal(i, S, S2) /\ Fewer(i, S, S2)
  BY EqualSent DEF UpdateSteps, Equal
<1>2. /\ SentOnce(i, x, o, w, S, T, used) /\ GivenUpLoses(i, o, w, S, T)
      /\ SentOnce(i, y, w, o, T, S, used) /\ GivenUpLoses(i, w, o, T, S)
      /\ o \in Pending /\ w \in Pending /\ used \subseteq used2 /\ x # y
      /\ Takes(i, T, T2, "update", z)
  BY DEF UpdateSteps, Half
<1>3. /\ Has(T, i, "update", z)
      /\ ~Has(T2, i, "update", z)
      /\ Fewer(i, T, T2)
      /\ \A b \in {"update", "reply"}, v \in UpdateId :
           b # "update" \/ v # z => /\ Has(T, i, b, v) => Has(T2, i, b, v)
                                    /\ Before(T, i, b, v, "update", z) => ~Has(T, i, b, v)
  BY <1>2, TalkTaken DEF SentOnce
<1>4. /\ w = Outbound(z)
      /\ \A u \in UpdateId : o # Inbound(u) /\ (o = Outbound(u) => u # z)
  BY <1>2, <1>3, UpdateArrives DEF UpdateSteps
<1>5. \A u \in UpdateId : o = Outbound(u) => z < u
  BY <1>4, PendingFacts, UpdateIds
<1>6. \A u \in UpdateId : w # Inbound(u) /\ (w = Outbound(u) <=> u = z)
  BY <1>4, PendingFacts
<1> HIDE DEF n
<1>7. /\ \A u \in UpdateId : (n = Inbound(u) <=> u = z) /\ n # Outbound(u)
      /\ n \in Pending
  BY PendingFacts DEF n
<1>8. ~Has(S, i, "reply", z) /\ z \in used
  BY <1>2, <1>3 DEF SentOnce
<1>9. \A v \in UpdateId : Has(S, i, "update", v) => z < v
  BY <1>2, <1>5, <1>6 DEF GivenUpLoses
<1>10. \A v \in UpdateId : Has(T, i, "update", v) => v = z
  BY <1>2, <1>3, <1>4 DEF GivenUpLoses
<1>11. SentOnce(i, x, n, w, S2, T2, used2)
  BY <1>1, <1>2, <1>3, <1>6, <1>7 DEF SentOnce, Equal, Fewer
<1>12. GivenUpLoses(i, n, w, S2, T2)
  <2>1. \A v \in UpdateId : Before(S, i, "update", v, "reply", z)
    BY <1>8 DEF Has, Before
  <2> QED BY <1>1, <1>4, <1>6, <1>7, <1>9, <2>1 DEF GivenUpLoses, Equal, Fewer
<1>13. SentOnce(i, y, w, n, T2, S2, used2)
  BY <1>1, <1>2, <1>3, <1>4, <1>7, <1>8 DEF SentOnce, Equal, Fewer
<1>14. GivenUpLoses(i, w, n, T2, S2)
  BY <1>1, <1>3, <1>6, <1>7, <1>9, <1>10 DEF GivenUpLoses, Equal, Fewer
<1>15. ASSUME Awaited(i, o, w, S, T), Awaited(i, w, o, T, S)
       PROVE  Awaited(i, n, w, S2, T2) /\ Awaited(i, w, n, T2, S2)
  BY <1>6, <1>7 DEF Awaited
<1> QED
  BY <1>7, <1>11, <1>12, <1>13, <1>14, <1>15 DEF UpdatesHold, Half, n

\* x refuses the other end's update, having a smaller one pending.
LEMMA UpdatesRefuse ==
  ASSUME NEW i, NEW x, NEW y, NEW o, NEW w, NEW S, NEW T, NEW used, NEW z \in UpdateId,
         NEW S2, NEW T2, NEW used2,
         UpdateSteps(i, x, y, o, w, S, T, used, "update", z, "reply", z, S2, T2, used2),
         o.dir = "outbound", o.id < z
  PROVE  UpdatesHold(i, x, y, o, w, S, T, o, S2, T2, used2)
<1>1. /\ SentOnce(i, x, o, w, S, T, used) /\ GivenUpLoses(i, o, w, S, T)
      /\ SentOnce(i, y, w, o, T, S, used) /\ GivenUpLoses(i, w, o, T, S)
      /\ o \in Pending /\ w \in Pending /\ used \subseteq used2 /\ x # y
      /\ Takes(i, T, T2, "update", z) /\ Sends(i, S, S2, "reply", z)
  BY DEF UpdateSteps, Half
<1>2. /\ Has(T, i, "update", z)
      /\ ~Has(T2, i, "update", z)
      /\ Fewer(i, T, T2)
      /\ \A b \in {"update", "reply"}, v \in UpdateId :
           b # "update" \/ v # z => (Has(T, i, b, v) => Has(T2, i, b, v))
  BY <1>1, TalkTaken DEF SentOnce
<1>3. /\ Has(S2, i, "reply", z)
      /\ \A k \in {"update", "reply"}, u \in UpdateId :
           /\ Has(S, i, k, u) => Has(S2, i, k, u)
           /\ k # "reply" \/ u # z => /\ Has(S2, i, k, u) => Has(S, i, k, u)
                                      /\ Once(S, i, k, u) => Once(S2, i, k, u)
           /\ \A v \in UpdateId :
                Before(S, i, "update", v, k, u) => Before(S2, i, "update", v, k, u)
  BY <1>1, ReplySent
<1>4. PICK g \in UpdateId : o = Outbound(g) /\ g < z
  BY <1>1, PendingFacts
<1>5. z \in used /\ \A u \in UpdateId : o # Inbound(u)
  BY <1>1, <1>2, <1>4, PendingFacts DEF SentOnce
<1>6. SentOnce(i, x, o, w, S2, T2, used2)
  BY <1>1, <1>2, <1>3 DEF SentOnce, Fewer
<1>7. GivenUpLoses(i, o, w, S2, T2)
  BY <1>1, <1>2, <1>3 DEF GivenUpLoses, Fewer
<1>8. SentOnce(i, y, w, o, T2, S2, used2)
  BY <1>1, <1>2, <1>3, <1>5 DEF SentOnce, Fewer
<1>9. GivenUpLoses(i, w, o, T2, S2)
  BY <1>1, <1>2, <1>3, <1>5 DEF GivenUpLoses, Fewer
<1>10. ASSUME Awaited(i, o, w, S, T), Awaited(i, w, o, T, S)
       PROVE  Awaited(i, o, w, S2, T2) /\ Awaited(i, w, o, T2, S2)
  BY <1>2, <1>3, <1>10 DEF Awaited
<1> QED
  BY <1>1, <1>6, <1>7, <1>8, <1>9, <1>10 DEF UpdatesHold, Half

\* x hears what has become of an update of its own.
LEMMA UpdatesLearn ==
  ASSUME NEW i, NEW x, NEW y, NEW o, NEW w, NEW S, NEW T, NEW used, NEW z \in UpdateId,
         NEW S2, NEW T2, NEW used2,
         UpdateSteps(i, x, y, o, w, S, T, used, "reply", z, "nothing", 0, S2, T2, used2)
  PROVE  UpdatesHold(i, x, y, o, w, S, T, IF o = Outbound(z) THEN NoUpdate ELSE o, S2, T2, used2)
<1>1. Equal(i, S, S2) /\ Fewer(i, S, S2)
  BY EqualSent DEF UpdateSteps, Equal
<1>2. /\ SentOnce(i, x, o, w, S, T, used) /\ GivenUpLoses(i, o, w, S, T)
      /\ SentOnce(i, y, w, o, T, S, used) /\ GivenUpLoses(i, w, o, T, S)
      /\ o \in Pending /\ w \in Pending /\ used \subseteq used2 /\ x # y
      /\ Takes(i, T, T2, "reply", z)
  BY DEF UpdateSteps, Half
<1>3. /\ Has(T, i, "reply", z)
      /\ Fewer(i, T, T2)
      /\ \A b \in {"update", "reply"}, v \in UpdateId :
           b # "reply" \/ v # z => /\ Has(T, i, b, v) => Has(T2, i, b, v)
                                   /\ Before(T, i, b, v, "reply", z) => ~Has(T, i, b, v)
  BY <1>2, TalkTaken
<1>4. CASE o # Outbound(z)
  <2>1. Half(i, x, o, w, S2, T2, used2) /\ Half(i, y, w, o, T2, S2, used2)
    BY <1>1, <1>3, HalfFewer DEF UpdateSteps
  <2>2. ASSUME Awaited(i, o, w, S, T), Awaited(i, w, o, T, S)
        PROVE  Awaited(i, o, w, S2, T2) /\ Awaited(i, w, o, T2, S2)
    BY <1>1, <1>3, <1>4, <2>2 DEF Awaited, Equal, Fewer
  <2> QED BY <1>2, <1>4, <2>1, <2>2 DEF UpdatesHold
<1>5. CASE o = Outbound(z)
  <2> DEFINE n == NoUpdate
  <2> HIDE DEF n
  <2>1. /\ \A u \in UpdateId : n # Inbound(u) /\ n # Outbound(u) /\ o # Inbound(u) /\ (o = Outbound(u) <=> u = z)
        /\ n \in Pending
    BY <1>5, PendingFacts DEF n
  <2>2. \A u \in UpdateId : w # Inbound(u)
    BY <1>2, <1>3, <2>1 DEF SentOnce
  <2>3. SentOnce(i, x, n, w, S2, T2, used2)
    BY <1>1, <1>2, <1>3, <2>1, <2>2 DEF SentOnce, Equal, Fewer
  <2>4. GivenUpLoses(i, n, w, S2, T2)
    <3>1. ~Has(S, i, "update", z)
      BY <1>2, <1>3 DEF SentOnce
    <3> QED BY <1>1, <1>2, <1>3, <2>1, <2>2, <3>1 DEF GivenUpLoses, Equal, Fewer
  <2>5. SentOnce(i, y, w, n, T2, S2, used2)
    BY <1>1, <1>2, <1>3, <2>1, <2>2 DEF SentOnce, Equal, Fewer
  <2>6. GivenUpLoses(i, w, n, T2, S2)
    <3>1. ASSUME NEW v \in UpdateId, Has(T, i, "update", v) PROVE w = Outbound(v)
      <4> SUFFICES ASSUME w # Outbound(v) PROVE FALSE
        OBVIOUS
      <4>1. PICK u \in UpdateId : o = Outbound(u) /\ Before(T, i, "update", v, "reply", u)
        BY <1>2, <3>1 DEF GivenUpLoses
      <4>2. u = z
        BY <2>1, <4>1
      <4> QED BY <1>3, <3>1, <4>1, <4>2
    <3> QED BY <1>1, <1>2, <1>3, <2>1, <2>2, <3>1 DEF GivenUpLoses, Equal, Fewer
  <2>7. ASSUME Awaited(i, o, w, S, T), Awaited(i, w, o, T, S)
        PROVE  Awaited(i, n, w, S2, T2) /\ Awaited(i, w, n, T2, S2)
    BY <1>1, <1>3, <2>1, <2>2, <2>7 DEF Awaited, Equal, Fewer
  <2>8. UpdatesHold(i, x, y, o, w, S, T, n, S2, T2, used2)
    BY <2>1, <2>3, <2>4, <2>5, <2>6, <2>7 DEF UpdatesHold, Half
  <2> QED BY <1>5, <2>8 DEF n
<1> QED BY <1>4, <1>5

\* Whatever x does to its session, its pending update o becomes one that fits.
LEMMA UpdateTurn ==
  ASSUME NEW i, NEW own, NEW x, NEW y, NEW s, NEW t, NEW o, NEW w, NEW S, NEW T, NEW used,
         NEW k, NEW u, NEW r, NEW v, NEW S2, NEW T2, NEW used2,
         UpdateSteps(i, x, y, o, w, S, T, used, k, u, r, v, S2, T2, used2),
         Turn(own, x, y, s, t, k, u, r, v, used, used2),
         Coherent(s), s.state # "ENDED" => o = s.outstanding
  PROVE  \E n \in Pending :
           /\ t.state # "ENDED" => n = t.outstanding
           /\ Half(i, x, n, w, S2, T2, used2) /\ Half(i, y, w, n, T2, S2, used2)
           /\ t.state # "ENDED" /\ Awaited(i, o, w, S, T) /\ Awaited(i, w, o, T, S) =>
                Awaited(i, n, w, S2, T2) /\ Awaited(i, w, n, T2, S2)
<1> DEFINE Goal(n) == /\ n \in Pending
                      /\ t.state # "ENDED" => n = t.outstanding
                      /\ Half(i, x, n, w, S2, T2, used2) /\ Half(i, y, w, n, T2, S2, used2)
                      /\ t.state # "ENDED" /\ Awaited(i, o, w, S, T) /\ Awaited(i, w, o, T, S) =>
                           Awaited(i, n, w, S2, T2) /\ Awaited(i, w, n, T2, S2)
<1> SUFFICES \E n : Goal(n)
  OBVIOUS
<1>0. o \in Pending /\ (s.state \notin {"ACTIVE", "ENDED"} => o = NoUpdate)
  BY DEF UpdateSteps, Coherent
<1>1. ASSUME r \notin {"update", "reply"}, k \notin {"update", "reply"},
             t.state # "ENDED" => o = t.outstanding
      PROVE  Goal(o)
  <2>1. UpdatesHold(i, x, y, o, w, S, T, o, S2, T2, used2)
    BY <1>1, UpdatesRest
  <2> QED BY <1>1, <2>1 DEF UpdatesHold
<1>2. ASSUME r \notin {"update", "reply"}, t.state = "ENDED" PROVE Goal(o)
  BY <1>0, <1>2, UpdatesRest
<1>3. CASE Renegotiates(x, s, t, k, u, r, v, used, used2)
  <2>1. s.state = "ACTIVE" /\ o = s.outstanding
    BY <1>3 DEF Renegotiates
  <2>2. ASSUME NEW n, n = t.outstanding, UpdatesHold(i, x, y, o, w, S, T, n, S2, T2, used2)
        PROVE  Goal(n)
    BY <2>2 DEF UpdatesHold
  <2>3. CASE Offers(x, s, t, k, r, v, used, used2)
    <3>1. UpdatesHold(i, x, y, o, w, S, T, Outbound(v), S2, T2, used2)
      <4>1. u = 0
        BY <2>3 DEF Offers, Turn
      <4> QED BY <2>1, <2>3, <4>1, UpdatesOffer DEF Offers
    <3> QED BY <2>2, <2>3, <3>1 DEF Offers
  <2>4. CASE Settles(s, t, k, r, v)
    <3>1. UpdatesHold(i, x, y, o, w, S, T, NoUpdate, S2, T2, used2)
      <4>1. u = 0
        BY <2>4 DEF Settles, Turn
      <4> QED BY <2>1, <2>4, <4>1, UpdatesSettled DEF Settles
    <3> QED BY <2>2, <2>4, <3>1 DEF Settles
  <2>5. CASE Yields(s, t, k, u, r)
    <3>1. UpdatesHold(i, x, y, o, w, S, T, Inbound(u), S2, T2, used2)
      <4>1. v = 0
        BY <2>5 DEF Yields, Turn
      <4> QED BY <2>1, <2>5, <4>1, UpdatesYield DEF Yields, Renegotiating
    <3> QED BY <2>2, <2>5, <3>1 DEF Yields
  <2>6. CASE Refuses(s, t, k, u, r, v)
    <3>1. UpdatesHold(i, x, y, o, w, S, T, o, S2, T2, used2)
      BY <2>1, <2>6, UpdatesRefuse DEF Refuses, Renegotiating
    <3> QED BY <2>1, <2>2, <2>6, <3>1 DEF Refuses
  <2>7. CASE Learns(s, t, k, u, r)
    <3>1. UpdatesHold(i, x, y, o, w, S, T, IF o = Outbound(u) THEN NoUpdate ELSE o, S2, T2, used2)
      <4>1. v = 0
        BY <2>7 DEF Learns, Turn
      <4> QED BY <2>1, <2>7, <4>1, UpdatesLearn DEF Learns
    <3> QED BY <2>1, <2>2, <2>7, <3>1 DEF Learns
  <2> QED BY <1>3, <2>3, <2>4, <2>5, <2>6, <2>7 DEF Renegotiates
<1>4. CASE \/ Rests(s, t, k, r) \/ Places(s, t, k, r) \/ Alerts(s, t, k, r) \/ Accepts(s, t, k, r)
           \/ Progresses(s, t, k, r) \/ Establishes(y, s, t, k, r)
           \/ Objects(s, t, k, r) \/ Informs(s, t, k, r)
  <2>1. r \notin {"update", "reply"} /\ k \notin {"update", "reply"}
    BY <1>4 DEF Rests, Places, Alerts, Accepts, Progresses, Establishes, Objects, Informs, Talk
  <2>2. t.state # "ENDED" => o = t.outstanding
    BY <1>0, <1>4 DEF Rests, Places, Alerts, Accepts, Progresses, Establishes, Objects, Informs,
       Remains, Inviting
  <2> QED BY <1>1, <2>1, <2>2
<1>5. CASE \/ Withdraws(s, t, k, r) \/ HangsUp(s, t, k, r) \/ TurnsDown(s, t, k, r)
           \/ EndedByPeer(s, t, k, r)
  BY <1>2, <1>5 DEF Withdraws, HangsUp, TurnsDown, EndedByPeer
<1>6. CASE Invited(y, s, t, k, r)
  BY <1>0, <1>1, <1>6 DEF Invited
<1>7. CASE Ignores(s, t, k, r)
  <2>1. CASE s.state = "ENDED"
    BY <1>2, <1>7, <2>1 DEF Ignores
  <2>2. CASE s.state # "ENDED"
    BY <1>1, <1>7, <2>2 DEF Ignores
  <2> QED BY <2>1, <2>2
<1> QED
  BY <1>3, <1>4, <1>5, <1>6, <1>7 DEF Turn

\* What is over stays over, and who is in the call was, or has just got into it.
LEMMA TurnStates ==
  ASSUME NEW own, NEW x, NEW y, NEW s, NEW t, NEW used, NEW k, NEW u, NEW r, NEW v, NEW used2,
         Turn(own, x, y, s, t, k, u, r, v, used, used2)
  PROVE  /\ s.state = "ENDED" => t.state = "ENDED"
         /\ t.state = "ACTIVE" => s.state = "ACTIVE" \/ Accepts(s, t, k, r) \/ s.state \in Inviting
         /\ s.state # "NONE" => t.state # "NONE" /\ t.role = s.role /\ t.inviteTo = s.inviteTo
  BY DEF Turn, Rests, Places, Withdraws, HangsUp, TurnsDown, Alerts, Accepts, Invited, Progresses,
     Establishes, EndedByPeer, Ignores, Objects, Informs, Renegotiates, Kept, Remains, Inviting

\* A step of the device that placed the call keeps the two agreed on updates.
LEMMA UpdatesTurnCaller ==
  ASSUME NEW i, NEW a, NEW b, NEW p, NEW q, NEW C, NEW D, NEW t, NEW k, NEW u, NEW r, NEW v,
         NEW E, NEW F, NEW used, NEW used2, a # b, used \subseteq used2,
         CallerSteps(i, a, b, p, q, C, D, t, k, u, r, v, E, F),
         UpdatesAgree(i, a, b, p, q, C, D, used),
         Turn(a, a, b, p, t, k, u, r, v, used, used2)
  PROVE  UpdatesAgree(i, a, b, t, q, E, F, used2)
<1>1. PICK o \in Pending, w \in Pending :
        /\ p.state # "ENDED" => o = p.outstanding
        /\ q.state # "ENDED" => w = q.outstanding
        /\ Half(i, a, o, w, C, D, used)
        /\ Half(i, b, w, o, D, C, used)
  BY DEF UpdatesAgree
<1>2. UpdateSteps(i, a, b, o, w, C, D, used, k, u, r, v, E, F, used2)
  BY <1>1 DEF UpdateSteps, CallerSteps
<1>3. PICK n \in Pending :
           /\ t.state # "ENDED" => n = t.outstanding
           /\ Half(i, a, n, w, E, F, used2) /\ Half(i, b, w, n, F, E, used2)
           /\ t.state # "ENDED" /\ Awaited(i, o, w, C, D) /\ Awaited(i, w, o, D, C) =>
                Awaited(i, n, w, E, F) /\ Awaited(i, w, n, F, E)
  BY <1>1, <1>2, UpdateTurn DEF CallerSteps
<1>4. ASSUME t.state # "ENDED", q.state = "ACTIVE"
      PROVE  /\ Awaited(i, t.outstanding, q.outstanding, E, F)
             /\ Awaited(i, q.outstanding, t.outstanding, F, E)
  <2>1. p.state # "ENDED"
    BY <1>4, TurnStates
  <2>2. Awaited(i, o, w, C, D) /\ Awaited(i, w, o, D, C)
    BY <1>1, <1>4, <2>1 DEF UpdatesAgree
  <2> QED BY <1>1, <1>3, <1>4, <2>2
<1> QED
  BY <1>1, <1>3, <1>4 DEF UpdatesAgree

\* So does a step of the other one.
LEMMA UpdatesTurnCallee ==
  ASSUME NEW i, NEW a, NEW b, NEW p, NEW q, NEW C, NEW D, NEW t, NEW k, NEW u, NEW r, NEW v,
         NEW E, NEW F, NEW used, NEW used2, a # b, used \subseteq used2,
         CalleeSteps(i, a, b, p, q, C, D, t, k, u, r, v, E, F),
         UpdatesAgree(i, a, b, p, q, C, D, used),
         Turn(a, b, a, q, t, k, u, r, v, used, used2)
  PROVE  UpdatesAgree(i, a, b, p, t, E, F, used2)
<1>1. PICK o \in Pending, w \in Pending :
        /\ p.state # "ENDED" => o = p.outstanding
        /\ q.state # "ENDED" => w = q.outstanding
        /\ Half(i, a, o, w, C, D, used)
        /\ Half(i, b, w, o, D, C, used)
  BY DEF UpdatesAgree
<1>2. UpdateSteps(i, b, a, w, o, D, C, used, k, u, r, v, F, E, used2)
  BY <1>1 DEF UpdateSteps, CalleeSteps
<1>3. PICK n \in Pending :
           /\ t.state # "ENDED" => n = t.outstanding
           /\ Half(i, b, n, o, F, E, used2) /\ Half(i, a, o, n, E, F, used2)
           /\ t.state # "ENDED" /\ Awaited(i, w, o, D, C) /\ Awaited(i, o, w, C, D) =>
                Awaited(i, n, o, F, E) /\ Awaited(i, o, n, E, F)
  BY <1>1, <1>2, UpdateTurn DEF CalleeSteps
<1>4. ASSUME p.state # "ENDED", t.state = "ACTIVE"
      PROVE  /\ Awaited(i, p.outstanding, t.outstanding, E, F)
             /\ Awaited(i, t.outstanding, p.outstanding, F, E)
  <2>1. q.role = "responder" \/ q.state = "NONE"
    BY DEF CalleeSteps, CallAgrees, CalleeSide
  <2>2. q.state = "ACTIVE" \/ Accepts(q, t, k, r)
    BY <1>4, <2>1, TurnStates DEF CalleeSteps, Coherent, Inviting
  <2>3. CASE q.state = "ACTIVE"
    <3>1. Awaited(i, o, w, C, D) /\ Awaited(i, w, o, D, C)
      BY <1>1, <1>4, <2>3 DEF UpdatesAgree
    <3> QED BY <1>1, <1>3, <1>4, <3>1
  <2>4. CASE Accepts(q, t, k, r)
    <3>1. p.state \in Inviting
      BY <1>4, <2>4 DEF Accepts, CalleeSteps, CallAgrees, Standing, Undecided
    <3>2. p.outstanding = NoUpdate /\ t.outstanding = NoUpdate
      BY <2>4, <3>1 DEF Accepts, CalleeSteps, Coherent, Inviting
    <3> QED BY <3>2, PendingFacts DEF Awaited
  <2> QED BY <2>2, <2>3, <2>4
<1> QED
  BY <1>1, <1>3, <1>4 DEF UpdatesAgree


-----------------------------------------------------------------------------
(* A step of one device.                                                   *)

\* The other device is the only other one.
LEMMA PeerFacts ==
  ASSUME TwoDevices, NEW d \in Device
  PROVE  /\ Peer(d) \in Device /\ Peer(d) # d
         /\ \A e \in Device : e = d \/ e = Peer(d)
         /\ Peer(Peer(d)) = d
<1>1. PICK a \in Device, b \in Device : a # b /\ Device = {a, b}
  BY DEF TwoDevices
<1>2. ASSUME NEW c \in Device PROVE Peer(c) \in Device /\ Peer(c) # c
  <2>1. \E e \in Device : e # c
    BY <1>1
  <2> QED BY <2>1 DEF Peer
<1> QED BY <1>1, <1>2

\* What the step of d does to session j, and to what is on the connections of it.
SessionTurns(d, j) ==
  \E k, u, r, v :
    /\ Turn(Owner[j], d, Peer(d), sess[d][j], sess'[d][j], k, u, r, v, drawn, drawn')
    /\ Takes(j, up[Peer(d)], up'[Peer(d)], k, u)
    /\ Sends(j, up[d], up'[d], r, v)

\* An invite is offered when no attempt to its sender is left.
OffersAlone(d) ==
  \A i, j \in Sid :
    /\ sess[d][i].state = "NONE" /\ sess'[d][i].state = "OFFERED"
    /\ sess[d][j].role = "initiator" /\ sess'[d][j].state \in Inviting
    => IdentityOf[sess[d][j].inviteTo] # IdentityOf[Peer(d)]

\* Whoever first hears of a call is meant by it.
MeantFor(d) ==
  \A i \in Sid :
    Owner[i] # d /\ sess[d][i].state = "NONE" /\ sess'[d][i].state # "NONE" =>
      Reaches([to |-> sess[Owner[i]][i].inviteTo], d)

StepOf(d) ==
  /\ sess'[Peer(d)] = sess[Peer(d)]
  /\ drawn \subseteq drawn' /\ drawn' \subseteq UpdateId
  /\ \A j \in Sid : SessionTurns(d, j)
  /\ \A n \in DOMAIN up'[d] :
       \/ n \in DOMAIN up[d] /\ up'[d][n] = up[d][n]
       \/ Honest(d, up'[d][n], sess'[d])
  /\ \A n \in DOMAIN up'[Peer(d)] :
       \E l \in DOMAIN up[Peer(d)] : up'[Peer(d)][n] = up[Peer(d)][l]
  /\ OffersAlone(d)
  /\ MeantFor(d)

\* A step of a device preserves the agreement on every session.
LEMMA StepKeepsCall ==
  ASSUME CallsInv, NEW d \in Device, StepOf(d), NEW i \in Sid
  PROVE  CallOf(i)'
<1>1. PICK a, b : a = Owner[i] /\ b = Peer(a)
  OBVIOUS
<1>2. a \in Device /\ b \in Device /\ a # b /\ Peer(b) = a /\ (d = a \/ d = b)
  BY <1>1, OwnerAssumption, PeerFacts DEF CallsInv
<1>3. PICK p, q, C, D : p = sess[a][i] /\ q = sess[b][i] /\ C = up[a] /\ D = up[b]
  OBVIOUS
<1>4. /\ CallAgrees(i, a, b, p, q, C, D) /\ UpdatesAgree(i, a, b, p, q, C, D, drawn)
      /\ Coherent(p) /\ Coherent(q) /\ p \in SessionRec /\ q \in SessionRec
  <2>1. CallOf(i) /\ EndpointInv
    BY DEF CallsInv
  <2>2. CallAgrees(i, a, b, p, q, C, D) /\ UpdatesAgree(i, a, b, p, q, C, D, drawn)
    BY <1>1, <1>3, <2>1 DEF CallOf
  <2>3. Coherent(p) /\ Coherent(q) /\ p \in SessionRec /\ q \in SessionRec
    BY <1>2, <1>3, <2>1, SessionFacts
  <2> QED BY <2>2, <2>3
<1>5. q.state \notin Inviting
  BY <1>4 DEF CallAgrees, CalleeSide, Coherent, Inviting
<1>6. PICK p2, q2, E, F : p2 = sess'[a][i] /\ q2 = sess'[b][i] /\ E = up'[a] /\ F = up'[b]
  OBVIOUS
<1>7. PICK used, used2 : used = drawn /\ used2 = drawn' /\ used \subseteq used2
  BY DEF StepOf
<1>8. PICK k, u, r, v :
        /\ Turn(Owner[i], d, Peer(d), sess[d][i], sess'[d][i], k, u, r, v, drawn, drawn')
        /\ Takes(i, up[Peer(d)], up'[Peer(d)], k, u)
        /\ Sends(i, up[d], up'[d], r, v)
  BY DEF StepOf, SessionTurns
<1>9. sess'[Peer(d)] = sess[Peer(d)]
  BY DEF StepOf
<1>10. /\ u \in AnyUpdate /\ (k \notin {"update", "reply"} => u = 0)
       /\ v \in AnyUpdate /\ (r \notin {"update", "reply"} => v = 0)
  BY <1>8 DEF Turn
<1>11. CallAgrees(i, a, b, p2, q2, E, F) /\ UpdatesAgree(i, a, b, p2, q2, E, F, used2)
  <2>1. CASE d = a
    <3>1. Turn(a, a, b, p, p2, k, u, r, v, used, used2) /\ q2 = q
      BY <1>1, <1>3, <1>6, <1>7, <1>8, <1>9, <2>1
    <3>2. CallerSteps(i, a, b, p, q, C, D, p2, k, u, r, v, E, F)
      BY <1>1, <1>3, <1>4, <1>5, <1>6, <1>8, <1>10, <2>1 DEF CallerSteps
    <3> QED BY <1>2, <1>4, <1>7, <3>1, <3>2, CallerTurn, UpdatesTurnCaller
  <2>2. CASE d = b
    <3>1. Turn(a, b, a, q, q2, k, u, r, v, used, used2) /\ p2 = p
      BY <1>1, <1>2, <1>3, <1>6, <1>7, <1>8, <1>9, <2>2
    <3>2. CalleeSteps(i, a, b, p, q, C, D, q2, k, u, r, v, E, F)
      BY <1>1, <1>2, <1>3, <1>4, <1>6, <1>8, <1>10, <2>2 DEF CalleeSteps
    <3> QED BY <1>2, <1>4, <1>7, <3>1, <3>2, CalleeTurn, UpdatesTurnCallee
  <2> QED BY <1>2, <2>1, <2>2
<1> QED
  BY <1>1, <1>6, <1>7, <1>11 DEF CallOf

\* A call that is not placed yet is unknown to both, and nothing of it is sent.
LEMMA Unplaced ==
  ASSUME CallsInv, NEW i \in Sid, sess[Owner[i]][i].state = "NONE"
  PROVE  sess[Peer(Owner[i])][i].state = "NONE" /\ Idle(up[Owner[i]], i)
<1>1. PICK a, b : a = Owner[i] /\ b = Peer(a)
  OBVIOUS
<1>2. a \in Device /\ b \in Device
  BY <1>1, OwnerAssumption, PeerFacts DEF CallsInv
<1>3. PICK p, q, C, D : p = sess[a][i] /\ q = sess[b][i] /\ C = up[a] /\ D = up[b]
  OBVIOUS
<1>4. CallAgrees(i, a, b, p, q, C, D)
  BY <1>1, <1>3 DEF CallsInv, CallOf
<1>5. p.state = "NONE" /\ q \in SessionRec /\ Coherent(q)
  BY <1>1, <1>2, <1>3, SessionFacts DEF CallsInv
<1>6. q.state \notin Inviting
  BY <1>4, <1>5 DEF CallAgrees, CalleeSide, Coherent, Inviting
<1>7. q.state \notin {"OFFERED", "ALERTING", "ACTIVE", "ENDED"}
  BY <1>4, <1>5 DEF CallAgrees, Standing, Undecided, Answered, Over, Inviting
<1>8. q.state = "NONE"
  BY <1>5, <1>6, <1>7 DEF SessionRec, Inviting
<1>9. Idle(C, i)
  BY <1>4, <1>5, <1>8 DEF CallAgrees, Standing, Unheard
<1> QED BY <1>1, <1>3, <1>8, <1>9

\* A message in transit is one of its session on the connection.
LEMMA InTransit ==
  ASSUME TypeOK, NEW x \in Device, NEW n \in DOMAIN up[x]
  PROVE  LET m == up[x][n]
         IN  /\ m \in Message /\ m.sid \in Sid
             /\ KindOf(m) \in Kind /\ AboutOf(m) \in AnyUpdate
             /\ Has(up[x], m.sid, KindOf(m), AboutOf(m))
<1>1. PICK m : m = up[x][n]
  OBVIOUS
<1>2. m \in Message
  BY <1>1 DEF TypeOK
<1>3. Has(up[x], m.sid, KindOf(m), AboutOf(m))
  BY <1>1 DEF Has, Is
<1> QED BY <1>1, <1>2, <1>3, KindType DEF Message

\* Whose call is known stays the responder of it, and the callee meant.
LEMMA TurnRoles ==
  ASSUME NEW own, NEW x, NEW y, NEW s, NEW t, NEW used, NEW k, NEW u, NEW r, NEW v, NEW used2,
         Turn(own, x, y, s, t, k, u, r, v, used, used2)
  PROVE  /\ x # own /\ s.role = "responder" => t.role = "responder"
         /\ x # own => t.state \notin Inviting \/ s.state \in Inviting
         /\ t.state \in Inviting => s.state \in Inviting \/ s.state = "NONE"
         /\ s.state = "NONE" /\ x # own => t = s \/ Invited(y, s, t, k, r)
  BY DEF Turn, Rests, Places, Withdraws, HangsUp, TurnsDown, Alerts, Accepts, Invited, Progresses,
     Establishes, EndedByPeer, Ignores, Objects, Informs, Renegotiates, Kept, Remains, Inviting

\* A step of a device leaves every message honest.
LEMMA StepKeepsHonest ==
  ASSUME CallsInv, NEW d \in Device, StepOf(d)
  PROVE  AllHonest'
<1> SUFFICES ASSUME NEW x \in Device, NEW n \in DOMAIN up'[x]
             PROVE  Honest(x, up'[x][n], sess'[x])
  BY DEF AllHonest
<1>1. TypeOK /\ AllHonest /\ TwoDevices
  BY DEF CallsInv, EndpointInv
<1>2. CASE x # d
  <2>1. x = Peer(d)
    BY <1>1, <1>2, PeerFacts
  <2>2. PICK l \in DOMAIN up[x] : up'[x][n] = up[x][l]
    BY <2>1 DEF StepOf
  <2>3. Honest(x, up[x][l], sess[x])
    BY <1>1 DEF AllHonest
  <2> QED BY <2>1, <2>2, <2>3 DEF StepOf
<1>3. CASE x = d /\ ~(n \in DOMAIN up[d] /\ up'[d][n] = up[d][n])
  BY <1>3 DEF StepOf
<1>4. CASE x = d /\ n \in DOMAIN up[d] /\ up'[d][n] = up[d][n]
  <2>1. PICK m : m = up[d][n]
    OBVIOUS
  <2>2. Honest(d, m, sess[d])
    BY <1>1, <1>4, <2>1 DEF AllHonest
  <2>3. /\ m \in Message /\ m.sid \in Sid /\ AboutOf(m) \in AnyUpdate /\ KindOf(m) \in Kind
        /\ Has(up[d], m.sid, KindOf(m), AboutOf(m))
    BY <1>1, <1>4, <2>1, InTransit
  <2>4. ASSUME m.type = "invite" PROVE m.to = sess'[d][m.sid].inviteTo
    <3>1. Owner[m.sid] = d /\ m.to = sess[d][m.sid].inviteTo
      BY <2>2, <2>4 DEF Honest
    <3>2. sess[d][m.sid].state # "NONE"
      BY <2>3, <3>1, Unplaced DEF Idle
    <3>3. PICK s, t : s = sess[d][m.sid] /\ t = sess'[d][m.sid]
      OBVIOUS
    <3>4. PICK k, u, r, v : Turn(Owner[m.sid], d, Peer(d), s, t, k, u, r, v, drawn, drawn')
      BY <2>3, <3>3 DEF StepOf, SessionTurns
    <3>5. s.state # "NONE" => t.inviteTo = s.inviteTo
      BY <3>4, TurnStates
    <3> QED BY <3>1, <3>2, <3>3, <3>5
  <2>5. ASSUME NEW j \in Sid, Owner[j] # d, sess[d][j].role = "responder"
        PROVE  sess'[d][j].role = "responder"
    <3>1. PICK s, t : s = sess[d][j] /\ t = sess'[d][j]
      OBVIOUS
    <3>2. PICK k, u, r, v : Turn(Owner[j], d, Peer(d), s, t, k, u, r, v, drawn, drawn')
      BY <3>1 DEF StepOf, SessionTurns
    <3>3. s.role = "responder" => t.role = "responder"
      BY <2>5, <3>2, TurnRoles
    <3> QED BY <2>5, <3>1, <3>3
  <2>6. Honest(d, m, sess'[d])
    BY <2>2, <2>4, <2>5 DEF Honest
  <2> QED BY <1>4, <2>1, <2>6
<1> QED BY <1>2, <1>3, <1>4

\* A step of a device is heard of only by who is meant.
LEMMA StepKeepsMeant ==
  ASSUME CallsInv, NEW d \in Device, StepOf(d)
  PROVE  Meant'
<1> SUFFICES ASSUME NEW i \in Sid, NEW b \in Device \ {Owner[i]}, sess'[b][i].state # "NONE"
             PROVE  Reaches([to |-> sess'[Owner[i]][i].inviteTo], b)
  BY DEF Meant, Reaches
<1>1. PICK a : a = Owner[i] /\ a \in Device
  BY OwnerAssumption
<1>2. /\ (d = a /\ b = Peer(d)) \/ (d = b /\ a = Peer(d))
      /\ b = Peer(a)
  BY <1>1, PeerFacts DEF CallsInv
<1>3. PICK s, t : s = sess[d][i] /\ t = sess'[d][i]
  OBVIOUS
<1>4. PICK k, u, r, v : Turn(Owner[i], d, Peer(d), s, t, k, u, r, v, drawn, drawn')
  BY <1>3 DEF StepOf, SessionTurns
<1>5. s.state # "NONE" => t.inviteTo = s.inviteTo
  BY <1>4, TurnStates
<1>6. sess'[Peer(d)] = sess[Peer(d)]
  BY DEF StepOf
<1>7. CASE d = a /\ b = Peer(d)
  <2>1. sess[b][i].state # "NONE"
    BY <1>6, <1>7
  <2>2. s.state # "NONE"
    BY <1>1, <1>2, <1>3, <1>7, <2>1, Unplaced
  <2>3. Reaches([to |-> s.inviteTo], b)
    BY <1>1, <1>3, <1>7, <2>1 DEF CallsInv, Meant
  <2> QED BY <1>1, <1>3, <1>5, <1>7, <2>2, <2>3
<1>8. CASE d = b /\ a = Peer(d)
  <2>1. CASE s.state # "NONE"
    BY <1>1, <1>3, <1>6, <1>8, <2>1 DEF CallsInv, Meant
  <2>2. CASE s.state = "NONE"
    <3>1. MeantFor(d)
      BY DEF StepOf
    <3>2. Owner[i] # d /\ sess[d][i].state = "NONE" /\ sess'[d][i].state # "NONE"
      BY <1>3, <1>8, <2>2
    <3>3. Reaches([to |-> sess[Owner[i]][i].inviteTo], d)
      BY <3>1, <3>2 DEF MeantFor
    <3>4. sess'[Owner[i]][i].inviteTo = sess[Owner[i]][i].inviteTo
      BY <1>1, <1>6, <1>8
    <3> QED BY <1>8, <3>3, <3>4
  <2> QED BY <2>1, <2>2
<1> QED BY <1>2, <1>7, <1>8

\* Every identity is its own: a DID that is an identity stands for itself.
IdentitiesSettled == \A d \in Device : IdentityOf[IdentityOf[d]] = IdentityOf[d]

\* A step of a device leaves two attempts that have met settled.
LEMMA StepKeepsSettled ==
  ASSUME CallsInv, GlareSettles, IdentitiesSettled, NEW d \in Device, StepOf(d)
  PROVE  GlareSettles'
<1>1. TwoDevices /\ sess'[Peer(d)] = sess[Peer(d)] /\ Meant
  BY DEF StepOf, CallsInv
\* d owns j, its peer x owns i.
<1>2. ASSUME NEW i \in Sid, NEW j \in Sid, NEW x \in Device, x = Peer(d), Owner[i] = x, Owner[j] = d,
             sess'[x][i].state \in Inviting, sess'[d][j].state \in Inviting,
             sess'[d][i].state \notin {"NONE", "ENDED"}, sess'[x][j].state \notin {"NONE", "ENDED"}
      PROVE  FALSE
  <2>1. x # d /\ Peer(d) = x
    BY <1>1, <1>2, PeerFacts
  <2>2. sess[x][i].state \in Inviting /\ sess[x][j].state \notin {"NONE", "ENDED"}
    BY <1>1, <1>2
  <2>3. sess[d][j].state # "NONE"
    BY <1>2, <2>1, <2>2, Unplaced
  <2>4. PICK s, t : s = sess[d][j] /\ t = sess'[d][j]
    OBVIOUS
  <2>5. PICK k, u, r, v : Turn(Owner[j], d, Peer(d), s, t, k, u, r, v, drawn, drawn')
    BY <2>4 DEF StepOf, SessionTurns
  <2>6. s.state \in Inviting
    BY <1>2, <2>3, <2>4, <2>5, TurnRoles
  <2>7. sess[d][i].state \in {"NONE", "ENDED"}
    BY <1>2, <2>1, <2>2, <2>4, <2>6 DEF GlareSettles
  <2>8. PICK f, g : f = sess[d][i] /\ g = sess'[d][i]
    OBVIOUS
  <2>9. PICK kk, uu, rr, vv : Turn(Owner[i], d, Peer(d), f, g, kk, uu, rr, vv, drawn, drawn')
    BY <2>8 DEF StepOf, SessionTurns
  <2>10. f.state = "NONE"
    <3>1. f.state = "ENDED" => g.state = "ENDED"
      BY <2>9, TurnStates
    <3> QED BY <1>2, <2>7, <2>8, <3>1
  <2>11. g.state = "OFFERED"
    <3>1. g = f \/ Invited(Peer(d), f, g, kk, rr)
      BY <1>2, <2>1, <2>9, <2>10, TurnRoles
    <3> QED BY <1>2, <2>8, <2>10, <3>1 DEF Invited
  <2>12. s.role = "initiator"
    <3>1. Coherent(s)
      BY <2>4, SessionFacts DEF CallsInv
    <3> QED BY <2>6, <3>1 DEF Coherent
  <2>13. IdentityOf[s.inviteTo] # IdentityOf[x]
    BY <1>2, <2>1, <2>4, <2>8, <2>10, <2>11, <2>12 DEF StepOf, OffersAlone
  <2>14. Reaches([to |-> s.inviteTo], x)
    BY <1>1, <1>2, <2>1, <2>2, <2>4 DEF Meant
  <2> QED BY <2>13, <2>14 DEF Reaches, IdentitiesSettled
<1> SUFFICES ASSUME NEW i \in Sid, NEW j \in Sid, Owner[i] # Owner[j],
                    sess'[Owner[i]][i].state \in Inviting, sess'[Owner[j]][j].state \in Inviting,
                    sess'[Owner[j]][i].state \notin {"NONE", "ENDED"},
                    sess'[Owner[i]][j].state \notin {"NONE", "ENDED"}
             PROVE  FALSE
  BY DEF GlareSettles
<1>3. \/ Owner[i] = Peer(d) /\ Owner[j] = d
      \/ Owner[j] = Peer(d) /\ Owner[i] = d
  BY <1>1, OwnerAssumption, PeerFacts
<1>4. Peer(d) \in Device
  BY <1>1, PeerFacts
<1> QED BY <1>2, <1>3, <1>4

\* The step of d has taken a message of session i, of kind k about update u,
\* off its peer's connection, or none; rest is what is then in transit.
In(d, rest, i, k, u) ==
  \/ k = "nothing" /\ u = 0 /\ rest = up
  \/ /\ up[Peer(d)] # <<>>
     /\ Head(up[Peer(d)]).sid = i
     /\ KindOf(Head(up[Peer(d)])) = k /\ AboutOf(Head(up[Peer(d)])) = u
     /\ rest = [up EXCEPT ![Peer(d)] = Tail(@)]

\* The step adds an honest message of session i, of kind r about v, or none.
Out(d, rest, i, r, v) ==
  \/ r = "nothing" /\ v = 0 /\ up' = rest
  \/ \E m \in Message : /\ m.sid = i /\ KindOf(m) = r /\ AboutOf(m) = v
                        /\ Honest(d, m, sess'[d])
                        /\ Emit(d, rest, <<m>>)

\* What is left of the connections when the message has been taken.
LEMMA InTakes ==
  ASSUME TypeOK, TwoDevices, NEW d \in Device, NEW rest, NEW i \in Sid, NEW k, NEW u, In(d, rest, i, k, u)
  PROVE  /\ rest \in [Device -> Seq(Message)]
         /\ rest[d] = up[d]
         /\ Takes(i, up[Peer(d)], rest[Peer(d)], k, u)
         /\ \A j \in Sid \ {i} : Takes(j, up[Peer(d)], rest[Peer(d)], "nothing", 0)
         /\ \A n \in DOMAIN rest[Peer(d)] :
              \E l \in DOMAIN up[Peer(d)] : rest[Peer(d)][n] = up[Peer(d)][l]
<1>1. PICK x \in Device : x = Peer(d) /\ x # d
  BY PeerFacts
<1>2. PICK C \in Seq(Message) : C = up[x]
  BY DEF TypeOK
<1>3. CASE k = "nothing" /\ u = 0 /\ rest = up
  <2>1. \A j : Same(j, C, C)
    BY DEF Same, Less
  <2> QED BY <1>1, <1>2, <1>3, <2>1 DEF Takes, TypeOK
<1>4. CASE /\ C # <<>> /\ Head(C).sid = i
           /\ KindOf(Head(C)) = k /\ AboutOf(Head(C)) = u
           /\ rest = [up EXCEPT ![x] = Tail(@)]
  <2>1. PICK E \in Seq(Message) : E = Tail(C)
    BY <1>4, HeadTailProperties
  <2>2. rest[x] = E /\ rest[d] = up[d] /\ rest \in [Device -> Seq(Message)]
    BY <1>1, <1>2, <1>4, <2>1 DEF TypeOK
  <2>3. Taken(i, C, E, k, u) /\ \A j \in Sid \ {i} : Same(j, C, E)
    BY <1>4, <2>1, TailTaken
  <2>4. k # "nothing"
    BY <2>3 DEF Taken, Kind, MessageType
  <2>5. \A n \in DOMAIN E : \E l \in DOMAIN C : E[n] = C[l]
    <3>1. /\ DOMAIN C = 1 .. Len(C) /\ Len(C) \in Nat \ {0} /\ DOMAIN E = 1 .. Len(C) - 1
          /\ \A n \in 1 .. Len(C) - 1 : E[n] = C[n + 1]
      BY <1>4, <2>1, HeadTailProperties, EmptySeq, LenProperties
    <3>2. ASSUME NEW n \in DOMAIN E PROVE n + 1 \in DOMAIN C /\ E[n] = C[n + 1]
      BY <3>1
    <3> QED BY <3>2
  <2> QED BY <1>1, <1>2, <2>2, <2>3, <2>4, <2>5 DEF Takes
<1> QED BY <1>1, <1>2, <1>3, <1>4 DEF In

\* What is on the connections when the answer has been added.
LEMMA OutSends ==
  ASSUME TwoDevices, NEW d \in Device, NEW rest \in [Device -> Seq(Message)], NEW i \in Sid,
         NEW r, NEW v, Out(d, rest, i, r, v)
  PROVE  /\ up' \in [Device -> Seq(Message)]
         /\ up'[Peer(d)] = rest[Peer(d)]
         /\ Sends(i, rest[d], up'[d], r, v)
         /\ \A j \in Sid \ {i} : Sends(j, rest[d], up'[d], "nothing", 0)
         /\ \A n \in DOMAIN up'[d] :
              \/ n \in DOMAIN rest[d] /\ up'[d][n] = rest[d][n]
              \/ Honest(d, up'[d][n], sess'[d])
<1>1. PICK x \in Device : x = Peer(d) /\ x # d
  BY PeerFacts
<1>2. PICK C \in Seq(Message) : C = rest[d]
  OBVIOUS
<1>3. CASE r = "nothing" /\ v = 0 /\ up' = rest
  <2>1. \A j : Same(j, C, C)
    BY DEF Same, Less
  <2> QED BY <1>1, <1>2, <1>3, <2>1 DEF Sends
<1>4. ASSUME NEW m \in Message, m.sid = i, KindOf(m) = r, AboutOf(m) = v,
             Honest(d, m, sess'[d]), Emit(d, rest, <<m>>)
      PROVE  /\ up' \in [Device -> Seq(Message)]
             /\ up'[x] = rest[x]
             /\ Sends(i, C, up'[d], r, v)
             /\ \A j \in Sid \ {i} : Sends(j, C, up'[d], "nothing", 0)
             /\ \A n \in DOMAIN up'[d] :
                  \/ n \in DOMAIN C /\ up'[d][n] = C[n]
                  \/ Honest(d, up'[d][n], sess'[d])
  <2>0. <<m>> \in Seq(Message) /\ C \o <<m>> \in Seq(Message)
    BY ConcatProperties
  <2>1. PICK E \in Seq(Message) : E = C \o <<m>>
    BY <2>0, Zenon
  <2>2. up' \in [Device -> Seq(Message)] /\ up'[x] = rest[x] /\ up'[d] = E
    BY <1>1, <1>2, <1>4, <2>1 DEF Emit
  <2>3. Sent(i, C, E, r, v) /\ \A j \in Sid \ {i} : Same(j, C, E)
    BY <1>4, <2>1, AppendSent
  <2>4. r # "nothing"
    BY <2>3 DEF Sent, Kind, MessageType
  <2>5. \A n \in DOMAIN E : (n \in DOMAIN C /\ E[n] = C[n]) \/ E[n] = m
    <3>1. /\ DOMAIN C = 1 .. Len(C) /\ Len(C) \in Nat /\ DOMAIN E = 1 .. Len(C) + 1
          /\ (\A n \in 1 .. Len(C) : E[n] = C[n]) /\ E[Len(C) + 1] = m
      BY <2>1, ConcatProperties, LenProperties
    <3> QED BY <3>1
  <2> QED BY <1>4, <2>2, <2>3, <2>4, <2>5 DEF Sends
<1> QED BY <1>1, <1>2, <1>3, <1>4 DEF Out

\* A device that takes up an invite is meant by it; one that offers it has no
\* attempt of its own to the sender left.
Welcome(d, i, t) ==
  /\ Owner[i] # d => Reaches([to |-> sess[Owner[i]][i].inviteTo], d)
  /\ t.state = "OFFERED" =>
       \A j \in Sid : sess[d][j].role = "initiator" /\ sess[d][j].state \in Inviting =>
                        IdentityOf[sess[d][j].inviteTo] # IdentityOf[Peer(d)]

\* A session is first heard of by its invite.
LEMMA TurnInvites ==
  ASSUME NEW own, NEW x, NEW y, NEW s, NEW t, NEW used, NEW k, NEW u, NEW r, NEW v, NEW used2,
         Turn(own, x, y, s, t, k, u, r, v, used, used2), s.state = "NONE"
  PROVE  /\ t.state = "OFFERED" => k = "invite"
         /\ t.state # "NONE" /\ x # own => k = "invite"
  BY DEF Turn, Rests, Places, Withdraws, HangsUp, TurnsDown, Alerts, Accepts, Invited, Progresses,
     Establishes, EndedByPeer, Ignores, Objects, Informs, Renegotiates, Kept, Remains, Inviting

\* A handler that changes one session makes a step of its device.
LEMMA StepOfOne ==
  ASSUME CallsInv, NEW d \in Device, NEW i \in Sid, NEW t, NEW rest, NEW k, NEW u, NEW r, NEW v,
         Session(d, i, t), In(d, rest, i, k, u), Out(d, rest, i, r, v),
         Turn(Owner[i], d, Peer(d), sess[d][i], t, k, u, r, v, drawn, drawn'),
         drawn \subseteq drawn', drawn' \subseteq UpdateId,
         k = "invite" => Welcome(d, i, t)
  PROVE  StepOf(d)
<1>1. TypeOK /\ TwoDevices
  BY DEF CallsInv, EndpointInv
<1>2. PICK x \in Device : x = Peer(d) /\ x # d
  BY <1>1, PeerFacts
<1>3. /\ rest \in [Device -> Seq(Message)]
      /\ rest[d] = up[d]
      /\ Takes(i, up[x], rest[x], k, u)
      /\ \A j \in Sid \ {i} : Takes(j, up[x], rest[x], "nothing", 0)
      /\ \A n \in DOMAIN rest[x] : \E l \in DOMAIN up[x] : rest[x][n] = up[x][l]
  BY <1>1, <1>2, InTakes
<1>4. /\ up'[x] = rest[x]
      /\ Sends(i, rest[d], up'[d], r, v)
      /\ \A j \in Sid \ {i} : Sends(j, rest[d], up'[d], "nothing", 0)
      /\ \A n \in DOMAIN up'[d] :
           \/ n \in DOMAIN rest[d] /\ up'[d][n] = rest[d][n]
           \/ Honest(d, up'[d][n], sess'[d])
  BY <1>1, <1>2, <1>3, OutSends
<1>5. sess'[x] = sess[x] /\ \A j \in Sid : sess'[d][j] = IF j = i THEN t ELSE sess[d][j]
  BY <1>1, <1>2 DEF TypeOK, Session
<1>6. ASSUME NEW j \in Sid PROVE SessionTurns(d, j)
  <2>1. CASE j = i
    BY <1>2, <1>3, <1>4, <1>5, <2>1 DEF SessionTurns
  <2>2. CASE j # i
    <3>1. Turn(Owner[j], d, x, sess[d][j], sess'[d][j], "nothing", 0, "nothing", 0, drawn, drawn')
      BY <1>5, <2>2 DEF Turn, Rests, AnyUpdate
    <3>2. Takes(j, up[x], up'[x], "nothing", 0) /\ Sends(j, up[d], up'[d], "nothing", 0)
      BY <1>3, <1>4, <2>2
    <3> QED BY <1>2, <3>1, <3>2 DEF SessionTurns
  <2> QED BY <2>1, <2>2
<1>7. PICK s : s = sess[d][i]
  OBVIOUS
<1>8. s.state = "NONE" => /\ t.state = "OFFERED" => k = "invite"
                          /\ t.state # "NONE" /\ d # Owner[i] => k = "invite"
  BY <1>7, TurnInvites
<1>9. OffersAlone(d)
  <2> SUFFICES ASSUME NEW l \in Sid, NEW j \in Sid,
                      sess[d][l].state = "NONE", sess'[d][l].state = "OFFERED",
                      sess[d][j].role = "initiator", sess'[d][j].state \in Inviting
               PROVE  IdentityOf[sess[d][j].inviteTo] # IdentityOf[Peer(d)]
    BY DEF OffersAlone
  <2>1. l = i /\ t.state = "OFFERED"
    BY <1>5
  <2>2. Welcome(d, i, t)
    BY <1>7, <1>8, <2>1
  <2>3. j # i
    BY <1>5, <2>1 DEF Inviting
  <2>4. sess[d][j].state \in Inviting
    BY <1>5, <2>3
  <2> QED BY <2>1, <2>2, <2>4 DEF Welcome
<1>10. MeantFor(d)
  <2> SUFFICES ASSUME NEW l \in Sid, Owner[l] # d, sess[d][l].state = "NONE", sess'[d][l].state # "NONE"
               PROVE  Reaches([to |-> sess[Owner[l]][l].inviteTo], d)
    BY DEF MeantFor
  <2>1. l = i /\ t.state # "NONE"
    BY <1>5
  <2>2. Welcome(d, i, t)
    BY <1>7, <1>8, <2>1
  <2> QED BY <2>1, <2>2 DEF Welcome
<1>11. /\ \A n \in DOMAIN up'[d] :
            \/ n \in DOMAIN up[d] /\ up'[d][n] = up[d][n]
            \/ Honest(d, up'[d][n], sess'[d])
       /\ \A n \in DOMAIN up'[x] : \E l \in DOMAIN up[x] : up'[x][n] = up[x][l]
  BY <1>3, <1>4
<1> QED BY <1>2, <1>5, <1>6, <1>9, <1>10, <1>11 DEF StepOf

-----------------------------------------------------------------------------
(* What the invariant says of the oldest message on a connection.          *)

\* One that reaches the device that placed the call.
LEMMA CallerExpects ==
  ASSUME NEW i, NEW a, NEW b, NEW p, NEW q, NEW C, NEW D, NEW k, NEW u, NEW F,
         CallAgrees(i, a, b, p, q, C, D), Coherent(p), q \in SessionRec, q.state \notin Inviting,
         Taken(i, D, F, k, u), k \notin {"update", "reply"} => u = 0
  PROVE  /\ p.state # "NONE" /\ k # "invite" /\ p.role = "initiator"
         /\ k \in {"answer", "reject"} => p.state # "ACTIVE"
         /\ k = "bye" => p.state \notin Inviting
         /\ k \in Talk => p.state \notin Inviting
<1>0. /\ k \in Kind /\ u \in AnyUpdate /\ Has(D, i, k, u)
      /\ "answer" \in Kind /\ "bye" \in Kind /\ 0 \in AnyUpdate
      /\ \A c \in Kind \ {k} : Before(D, i, c, 0, k, u) => ~Has(D, i, c, 0)
  BY DEF Taken, Kind, MessageType, AnyUpdate
<1>1. k # "invite"
  BY <1>0 DEF CallAgrees, CalleeSide
<1>2. q.state # "NONE"
  BY <1>0 DEF CallAgrees, Standing, Unheard, Idle
<1>3. q.state \in {"OFFERED", "ALERTING", "ACTIVE", "ENDED"}
  BY <1>2 DEF SessionRec, Inviting
<1>4. p.state # "NONE"
  BY <1>3 DEF CallAgrees, Standing, Undecided, Answered, Over, Inviting
<1>5. p.role = "initiator"
  BY <1>4 DEF CallAgrees, CallerSide
<1>6. ASSUME k \in {"answer", "reject"} PROVE p.state # "ACTIVE"
  <2>1. u = 0
    BY <1>6
  <2> QED BY <1>0, <1>6, <2>1 DEF CallAgrees, CalleeSide, Carries
<1>7. ASSUME p.state \in Inviting, k = "bye" \/ k \in Talk PROVE FALSE
  <2>1. k # "answer" /\ p.state \notin {"ACTIVE", "ENDED"}
    BY <1>7 DEF Talk, Inviting
  <2>2. AnswerFirst(D, i)
    BY <2>1 DEF CallAgrees, CalleeSide
  <2>3. Before(D, i, "answer", 0, k, u)
    BY <1>0, <1>7, <2>2 DEF AnswerFirst, Talk
  <2>4. ~Has(D, i, "answer", 0)
    BY <1>0, <2>1, <2>3
  <2>5. Has(D, i, "reject", 0) => FALSE
    <3>1. Has(D, i, "reject", 0) => NoTalk(D, i) /\ ~Has(D, i, "bye", 0)
      BY DEF CallAgrees, CalleeSide, Carries
    <3> QED BY <1>0, <1>7, <3>1 DEF NoTalk, Talk
  <2>6. q.state \notin {"OFFERED", "ALERTING"}
    <3>1. q.state \in {"OFFERED", "ALERTING"} => NoTalk(D, i) /\ ~Has(D, i, "bye", 0)
      BY DEF CallAgrees, Standing, Undecided, Carries
    <3> QED BY <1>0, <1>7, <3>1 DEF NoTalk, Talk
  <2>7. q.state # "ACTIVE"
    BY <2>1, <2>4 DEF CallAgrees, Standing, Answered
  <2>8. q.state # "ENDED"
    BY <2>1, <2>4, <2>5 DEF CallAgrees, Standing, Over
  <2> QED BY <1>3, <2>6, <2>7, <2>8
<1> QED BY <1>1, <1>4, <1>5, <1>6, <1>7

\* One that reaches the other device.
LEMMA CalleeExpects ==
  ASSUME NEW i, NEW a, NEW b, NEW p, NEW q, NEW C, NEW D, NEW k, NEW u, NEW E,
         CallAgrees(i, a, b, p, q, C, D), Coherent(p), Coherent(q), q \in SessionRec,
         Taken(i, C, E, k, u), k \notin {"update", "reply"} => u = 0
  PROVE  /\ q.state = "NONE" <=> k = "invite"
         /\ q.state # "NONE" => q.role = "responder"
         /\ q.state = "ACTIVE" /\ k = "withdraw" => q.postAnswerSeen = FALSE
         /\ k \in Talk \cup {"elsewhere"} => q.state \notin {"OFFERED", "ALERTING"}
<1>0. /\ k \in Kind /\ u \in AnyUpdate /\ Has(C, i, k, u)
      /\ "invite" \in Kind /\ 0 \in AnyUpdate
      /\ \A c \in Kind \ {k} : Before(C, i, c, 0, k, u) => ~Has(C, i, c, 0)
  BY DEF Taken, Kind, MessageType, AnyUpdate
<1>1. ASSUME q.state = "NONE" PROVE k = "invite"
  <2>1. Unheard(i, p, C, D)
    BY <1>1 DEF CallAgrees, Standing
  <2>2. p.state # "NONE"
    BY <1>0, <2>1 DEF Unheard, Idle
  <2>3. /\ Has(C, i, "invite", 0)
        /\ \A c \in Kind \ {"invite"}, v \in AnyUpdate : Before(C, i, "invite", 0, c, v)
    BY <2>1, <2>2 DEF Unheard
  <2> QED BY <1>0, <2>3
<1>2. ASSUME k = "invite" PROVE q.state = "NONE"
  BY <1>0, <1>2 DEF CallAgrees, CallerSide
<1>3. q.state # "NONE" => q.role = "responder"
  BY DEF CallAgrees, CalleeSide
<1>4. Has(C, i, "withdraw", 0) => p.wasActive = FALSE
  BY DEF CallAgrees, CallerSide
<1>5. p.wasActive = FALSE => Unspoken(C, i) /\ (q.state # "ENDED" => q.postAnswerSeen = FALSE)
  BY Zenon DEF CallAgrees, CallerSide
<1>6. ASSUME q.state = "ACTIVE", k = "withdraw" PROVE q.postAnswerSeen = FALSE
  <2>1. p.wasActive = FALSE
    BY <1>0, <1>4, <1>6
  <2> QED BY <1>5, <1>6, <2>1
<1>7. ASSUME q.state \in {"OFFERED", "ALERTING"}, k \in Talk \cup {"elsewhere"} PROVE FALSE
  <2>1. p.state \in Inviting \/ Has(C, i, "withdraw", 0)
    BY <1>7 DEF CallAgrees, Standing, Undecided
  <2>2. p.state \in Inviting => p.wasActive = FALSE
    BY DEF Coherent, Inviting
  <2>3. p.wasActive = FALSE
    BY <1>4, <2>1, <2>2
  <2>4. Unspoken(C, i)
    BY <1>5, <2>3
  <2> QED BY <1>0, <1>7, <2>4 DEF Unspoken, Talk
<1> QED BY <1>1, <1>2, <1>3, <1>6, <1>7

\* What a device with record s of session i may be told: kind k, about u.
Expects(own, d, s, k, u) ==
  /\ s \in SessionRec /\ Coherent(s)
  /\ s.state = "NONE" <=> k = "invite"
  /\ k = "invite" => own # d
  /\ s.state # "NONE" => s.role \in {"initiator", "responder"}
  /\ s.role = "initiator" /\ k \in {"answer", "reject"} => s.state # "ACTIVE"
  /\ s.role = "initiator" /\ k \in {"bye"} \cup Talk => s.state \notin Inviting
  /\ s.role = "responder" /\ k = "withdraw" /\ s.state = "ACTIVE" => s.postAnswerSeen = FALSE
  /\ s.role = "responder" /\ k \in Talk \cup {"elsewhere"} => s.state \notin {"OFFERED", "ALERTING"}
  /\ k = "update" /\ s.state = "ACTIVE" => s.outstanding.dir # "inbound"

\* What a device is told is expected.
LEMMA Expected ==
  ASSUME CallsInv, NEW d \in Device, NEW i \in Sid, NEW k, NEW u, NEW rest, In(d, rest, i, k, u),
         k # "nothing", k = "update" => u \in UpdateId, k \notin {"update", "reply"} => u = 0
  PROVE  Expects(Owner[i], d, sess[d][i], k, u)
<1>1. PICK a, b : a = Owner[i] /\ b = Peer(a)
  OBVIOUS
<1>2. a \in Device /\ b \in Device /\ a # b /\ Peer(b) = a /\ (d = a \/ d = b)
  BY <1>1, OwnerAssumption, PeerFacts DEF CallsInv
<1>3. PICK p, q, C, D : p = sess[a][i] /\ q = sess[b][i] /\ C = up[a] /\ D = up[b]
  OBVIOUS
<1>4. /\ CallAgrees(i, a, b, p, q, C, D) /\ UpdatesAgree(i, a, b, p, q, C, D, drawn)
      /\ Coherent(p) /\ Coherent(q) /\ p \in SessionRec /\ q \in SessionRec
  <2>1. CallOf(i) /\ EndpointInv
    BY DEF CallsInv
  <2>2. CallAgrees(i, a, b, p, q, C, D) /\ UpdatesAgree(i, a, b, p, q, C, D, drawn)
    BY <1>1, <1>3, <2>1 DEF CallOf
  <2>3. Coherent(p) /\ Coherent(q) /\ p \in SessionRec /\ q \in SessionRec
    BY <1>2, <1>3, <2>1, SessionFacts
  <2> QED BY <2>2, <2>3
<1>5. q.state \notin Inviting
  BY <1>4 DEF CallAgrees, CalleeSide, Coherent, Inviting
<1>6. PICK F : F = rest[Peer(d)] /\ Taken(i, up[Peer(d)], F, k, u)
  <2>1. Takes(i, up[Peer(d)], rest[Peer(d)], k, u)
    BY InTakes DEF CallsInv, EndpointInv
  <2> QED BY <2>1 DEF Takes
<1>7. PICK o \in Pending, w \in Pending :
        /\ p.state # "ENDED" => o = p.outstanding
        /\ q.state # "ENDED" => w = q.outstanding
        /\ Half(i, a, o, w, C, D, drawn)
        /\ Half(i, b, w, o, D, C, drawn)
  BY <1>4 DEF UpdatesAgree
<1>8. CASE d = a
  <2>1. Taken(i, D, F, k, u)
    BY <1>1, <1>2, <1>3, <1>6, <1>8
  <2>2. /\ p.state # "NONE" /\ k # "invite" /\ p.role = "initiator"
        /\ k \in {"answer", "reject"} => p.state # "ACTIVE"
        /\ k = "bye" => p.state \notin Inviting
        /\ k \in Talk => p.state \notin Inviting
    BY <1>4, <1>5, <2>1, CallerExpects
  <2>3. ASSUME k = "update", p.state = "ACTIVE" PROVE p.outstanding.dir # "inbound"
    <3>1. Has(D, i, "update", u)
      BY <2>1, <2>3 DEF Taken
    <3>2. \A z \in UpdateId : o # Inbound(z)
      BY <1>2, <1>7, <2>3, <3>1, UpdateArrives
    <3> QED BY <1>7, <2>3, <3>2, PendingFacts
  <2> QED BY <1>1, <1>3, <1>4, <1>8, <2>2, <2>3 DEF Expects
<1>9. CASE d = b
  <2>1. Taken(i, C, F, k, u)
    BY <1>1, <1>2, <1>3, <1>6, <1>9
  <2>2. /\ q.state = "NONE" <=> k = "invite"
        /\ q.state # "NONE" => q.role = "responder"
        /\ q.state = "ACTIVE" /\ k = "withdraw" => q.postAnswerSeen = FALSE
        /\ k \in Talk \cup {"elsewhere"} => q.state \notin {"OFFERED", "ALERTING"}
    BY <1>4, <2>1, CalleeExpects
  <2>3. ASSUME k = "update", q.state = "ACTIVE" PROVE q.outstanding.dir # "inbound"
    <3>1. Has(C, i, "update", u)
      BY <2>1, <2>3 DEF Taken
    <3>2. \A z \in UpdateId : w # Inbound(z)
      BY <1>2, <1>7, <2>3, <3>1, UpdateArrives
    <3> QED BY <1>7, <2>3, <3>2, PendingFacts
  <2>4. q.role = "initiator" => q.state = "NONE"
    BY <2>2
  <2> QED BY <1>1, <1>2, <1>3, <1>4, <1>5, <1>9, <2>2, <2>3, <2>4 DEF Expects, Talk, Inviting
<1> QED BY <1>2, <1>8, <1>9

-----------------------------------------------------------------------------
(* The local handlers.                                                     *)

\* The kind r of a message of that type and tag about update u, and what it
\* is about, v.
Spells(type, tag, u, r, v) ==
  /\ type \in {"invite", "progress", "info", "bye", "error"} => r = type /\ v = 0
  /\ type = "update" => r = "update" /\ v = u
  /\ type = "cancel" /\ tag # "session.answered-elsewhere" => r = "withdraw" /\ v = 0
  /\ type = "cancel" /\ tag = "session.answered-elsewhere" => r = "elsewhere" /\ v = 0
  /\ type \in {"answer", "reject"} /\ u = 0 => r = type /\ v = 0
  /\ type \in {"answer", "reject"} /\ u # 0 => r = "reply" /\ v = u

\* Every message spells its kind.
LEMMA KindSpelt ==
  ASSUME NEW m PROVE Spells(m.type, m.tag, m.upd, KindOf(m), AboutOf(m))
<1>1. /\ m.type = "cancel" /\ m.tag = "session.answered-elsewhere" => KindOf(m) = "elsewhere"
      /\ m.type = "cancel" /\ m.tag # "session.answered-elsewhere" => KindOf(m) = "withdraw"
      /\ m.type \in {"answer", "reject"} /\ m.upd # 0 => KindOf(m) = "reply"
      /\ m.type \in {"answer", "reject"} /\ m.upd = 0 => KindOf(m) = m.type
      /\ m.type \notin {"answer", "reject", "cancel"} => KindOf(m) = m.type
  BY DEF KindOf
<1>2. /\ KindOf(m) \in {"update", "reply"} => AboutOf(m) = m.upd
      /\ KindOf(m) \notin {"update", "reply"} => AboutOf(m) = 0
  BY DEF AboutOf
<1> QED BY <1>1, <1>2 DEF Spells

\* A device that sends one of its own messages.
LEMMA SendsOne ==
  ASSUME NEW d \in Device, NEW rest, NEW i \in Sid, NEW type \in MessageType, NEW to \in Party,
         NEW tag \in Tag, NEW u \in UpdateId \cup {0},
         Emit(d, rest, <<Msg(type, d, to, i, tag, u)>>),
         tag \notin {"transport.no-response", "session.update-pending", "session.glare"}
           \/ (type = "reject" /\ tag = "session.glare"),
         type = "invite" => Owner[i] = d /\ to = sess'[d][i].inviteTo,
         type = "update" => u # 0
  PROVE  \E r, v : Spells(type, tag, u, r, v) /\ Out(d, rest, i, r, v)
<1>1. PICK m : m = Msg(type, d, to, i, tag, u)
  OBVIOUS
<1>2. m \in Message
  BY <1>1, MsgType, PartyAssumption
<1>3. /\ m.type = type /\ m.from = d /\ m.to = to /\ m.sid = i /\ m.tag = tag /\ m.upd = u
  BY <1>1 DEF Msg
<1>4. Honest(d, m, sess'[d])
  BY <1>3 DEF Honest
<1>5. Spells(type, tag, u, KindOf(m), AboutOf(m))
  BY <1>3, KindSpelt
<1>6. Out(d, rest, i, KindOf(m), AboutOf(m))
  BY <1>1, <1>2, <1>3, <1>4 DEF Out
<1> QED BY <1>5, <1>6

\* What end() leaves alone.
LEMMA FinishedKept ==
  ASSUME NEW s \in SessionRec, NEW t, t = Finished(s) PROVE t.state = "ENDED" /\ Kept(s, t)
  BY DEF SessionRec, Finished, Kept

\* A local handler makes a step of its device.
LEMMA StepOfLocal ==
  ASSUME CallsInv, NEW d \in Device, NEW i \in Sid, NEW t, NEW r, NEW v,
         Session(d, i, t), Out(d, up, i, r, v),
         Turn(Owner[i], d, Peer(d), sess[d][i], t, "nothing", 0, r, v, drawn, drawn'),
         drawn \subseteq drawn', drawn' \subseteq UpdateId
  PROVE  StepOf(d)
<1>1. In(d, up, i, "nothing", 0)
  BY DEF In
<1> QED BY <1>1, StepOfOne

\* What of a message about no update the step table asks.
LEMMA PlainTurn ==
  ASSUME NEW r, NEW v, NEW type \in MessageType \ {"update"}, NEW tag, Spells(type, tag, 0, r, v)
  PROVE  /\ r \in Kind \ {"update", "reply"} /\ v = 0
         /\ "nothing" \in Kind \cup {"nothing"} /\ 0 \in AnyUpdate
         /\ type # "cancel" => r = type
         /\ type = "cancel" => r = IF tag = "session.answered-elsewhere" THEN "elsewhere" ELSE "withdraw"
  BY DEF Spells, MessageType, Kind, AnyUpdate

\* place_call.
LEMMA PlaceStep ==
  ASSUME CallsInv, NEW d \in Device, NEW i \in Sid, Place(d, i)
  PROVE  StepOf(d) /\ EndpointInv'
<1>1. PICK to \in Callable : PlaceCall(d, i, to, up) /\ Owner[i] = d
  BY DEF Place
<1>2. TypeOK /\ EndpointInv /\ up \in [Device -> Seq(Message)] /\ to \in Party
  BY OwnerAssumption DEF CallsInv, EndpointInv, TypeOK
<1>3. PICK t : t = NewSession("initiator", "INVITING", to, to)
  OBVIOUS
<1>4. Session(d, i, t) /\ sess'[d][i] = t
  BY <1>1, <1>2, <1>3 DEF PlaceCall, Session, TypeOK
<1>5. /\ t.role = "initiator" /\ t.state = "INVITING" /\ t.inviteTo = to
      /\ t.outstanding = NoUpdate /\ t.wasActive = FALSE
  <2>1. t.role = "initiator" /\ t.state = "INVITING" /\ t.inviteTo = to /\ t.outstanding = NoUpdate
    BY <1>3 DEF NewSession, Blank
  <2>2. t.wasActive = FALSE
    BY <1>3, Zenon DEF NewSession, Blank
  <2> QED BY <2>1, <2>2
<1>6. PICK r, v : Spells("invite", "none", 0, r, v) /\ Out(d, up, i, r, v)
  <2>1. Emit(d, up, <<Msg("invite", d, to, i, "none", 0)>>)
    BY <1>1 DEF PlaceCall
  <2> QED BY <1>1, <1>2, <1>4, <1>5, <2>1, SendsOne DEF MessageType, Tag
<1>7. r = "invite" /\ v = 0 /\ r \in Kind /\ 0 \in AnyUpdate
  BY <1>6, PlainTurn DEF MessageType
<1>8. PICK s : s = sess[d][i] /\ s.state = "NONE"
  BY <1>1 DEF PlaceCall
<1>9. Places(s, t, "nothing", r)
  BY <1>5, <1>7, <1>8 DEF Places
<1>10. Turn(Owner[i], d, Peer(d), s, t, "nothing", 0, r, v, drawn, drawn')
  BY <1>1, <1>7, <1>9 DEF Turn
<1>11. drawn \subseteq drawn' /\ drawn' \subseteq UpdateId
  BY DEF Place, CallsInv
<1> QED
  BY <1>1, <1>2, <1>4, <1>6, <1>8, <1>10, <1>11, StepOfLocal, PlaceCallInv

\* cancel, and a timer of the attempt.
LEMMA WithdrawStep ==
  ASSUME CallsInv, NEW d \in Device, NEW i \in Sid, NEW reason \in CancelReason,
         reason \notin {"session.glare", "session.answered-elsewhere"},
         sess[d][i].state \in Inviting, Withdraw(d, i, reason, up), UNCHANGED drawn
  PROVE  StepOf(d)
<1>1. PICK s : s = sess[d][i] /\ s \in SessionRec /\ s.state \in Inviting /\ s.inviteTo \in Party
  BY SessionFacts DEF CallsInv, Coherent, Inviting
<1>2. PICK t : t = Finished([s EXCEPT !.cancelled = TRUE])
  OBVIOUS
<1>3. Session(d, i, t) /\ t.state = "ENDED" /\ Kept(s, t)
  <2>1. t.state = "ENDED" /\ Kept(s, t)
    BY <1>1, <1>2 DEF SessionRec, Finished, Kept
  <2> QED BY <1>1, <1>2, <2>1 DEF Withdraw, End
<1>4. PICK r, v : Spells("cancel", reason, 0, r, v) /\ Out(d, up, i, r, v)
  <2>1. Emit(d, up, <<Msg("cancel", d, s.inviteTo, i, reason, 0)>>)
    BY <1>1 DEF Withdraw
  <2>2. reason \in Tag /\ reason \notin {"transport.no-response", "session.update-pending", "session.glare"}
    BY DEF CancelReason, Tag
  <2> QED BY <1>1, <2>1, <2>2, SendsOne DEF MessageType
<1>5. r = "withdraw" /\ v = 0 /\ r \in Kind /\ 0 \in AnyUpdate
  BY <1>4, PlainTurn DEF MessageType
<1>6. Withdraws(s, t, "nothing", r)
  BY <1>1, <1>3, <1>5 DEF Withdraws
<1>7. Turn(Owner[i], d, Peer(d), s, t, "nothing", 0, r, v, drawn, drawn')
  BY <1>5, <1>6 DEF Turn
<1> QED
  BY <1>1, <1>3, <1>4, <1>7, StepOfLocal DEF CallsInv

\* The callee turns the call down: its user, its policy or its timer.
LEMMA TurnDownStep ==
  ASSUME CallsInv, NEW d \in Device, NEW i \in Sid, NEW reason \in RejectReason,
         sess[d][i].state \in {"OFFERED", "ALERTING"}, TurnDown(d, i, reason, up), UNCHANGED drawn
  PROVE  StepOf(d)
<1>1. PICK s : /\ s = sess[d][i] /\ s \in SessionRec /\ s.state \in {"OFFERED", "ALERTING"}
               /\ s.peer \in Party
  BY SessionFacts DEF CallsInv, Coherent
<1>2. PICK t : t = Finished(s)
  OBVIOUS
<1>3. Session(d, i, t) /\ t.state = "ENDED" /\ Kept(s, t)
  BY <1>1, <1>2, FinishedKept DEF TurnDown, End
<1>4. PICK r, v : Spells("reject", reason, 0, r, v) /\ Out(d, up, i, r, v)
  <2>1. Emit(d, up, <<Msg("reject", d, s.peer, i, reason, 0)>>)
    BY <1>1 DEF TurnDown
  <2>2. reason \in Tag /\ reason \notin {"transport.no-response", "session.update-pending"}
    BY DEF RejectReason, Tag
  <2> QED BY <1>1, <2>1, <2>2, SendsOne DEF MessageType
<1>5. r = "reject" /\ v = 0 /\ r \in Kind /\ 0 \in AnyUpdate
  BY <1>4, PlainTurn DEF MessageType
<1>6. TurnsDown(s, t, "nothing", r)
  BY <1>1, <1>3, <1>5 DEF TurnsDown
<1>7. Turn(Owner[i], d, Peer(d), s, t, "nothing", 0, r, v, drawn, drawn')
  BY <1>5, <1>6 DEF Turn
<1> QED
  BY <1>1, <1>3, <1>4, <1>7, StepOfLocal DEF CallsInv

\* alert in time, accept, hangup and info.
LEMMA LiveStep ==
  ASSUME CallsInv, NEW d \in Device, NEW i \in Sid, UNCHANGED drawn,
         Alert(d, i, up) \/ Accept(d, i, up) \/ Hangup(d, i, up) \/ Info(d, i, up)
  PROVE  StepOf(d)
<1>0. TypeOK
  BY DEF CallsInv, EndpointInv
<1>1. PICK s : s = sess[d][i] /\ s \in SessionRec /\ s.peer \in Party
  BY SessionFacts DEF CallsInv, Coherent, Alert, Accept, Hangup, Info
<1>2. ASSUME NEW type \in {"progress", "answer", "bye", "info"}, NEW tag \in Tag,
             Emit(d, up, <<Msg(type, d, s.peer, i, tag, 0)>>),
             tag \notin {"transport.no-response", "session.update-pending", "session.glare"},
             NEW t, Session(d, i, t),
             \/ Alerts(s, t, "nothing", type) \/ Accepts(s, t, "nothing", type)
             \/ HangsUp(s, t, "nothing", type) \/ Informs(s, t, "nothing", type)
      PROVE  StepOf(d)
  <2>1. PICK r, v : Spells(type, tag, 0, r, v) /\ Out(d, up, i, r, v)
    <3>1. type \in MessageType /\ 0 \in UpdateId \cup {0} /\ type \notin {"invite", "update"}
      BY DEF MessageType
    <3> QED BY <1>1, <1>2, <3>1, SendsOne
  <2>2. r = type /\ v = 0 /\ r \in Kind /\ 0 \in AnyUpdate
    BY <2>1, PlainTurn DEF MessageType
  <2>3. Turn(Owner[i], d, Peer(d), s, t, "nothing", 0, r, v, drawn, drawn')
    BY <1>2, <2>2 DEF Turn
  <2> QED BY <1>1, <1>2, <2>1, <2>3, StepOfLocal DEF CallsInv
<1>3. CASE Alert(d, i, up)
  <2>1. PICK t : t = [s EXCEPT !.state = "ALERTING"]
    OBVIOUS
  <2>2. Session(d, i, t) /\ Emit(d, up, <<Msg("progress", d, s.peer, i, "ringing", 0)>>)
    BY <1>1, <1>3, <2>1 DEF Alert
  <2>3. /\ t.state = "ALERTING" /\ Kept(s, t)
        /\ t.outstanding = s.outstanding /\ t.postAnswerSeen = s.postAnswerSeen
    BY <1>1, <2>1 DEF SessionRec, Kept
  <2>4. Alerts(s, t, "nothing", "progress")
    BY <1>1, <1>3, <2>3 DEF Alerts, Alert
  <2> QED BY <1>2, <2>2, <2>4 DEF Tag, Status
<1>4. CASE Accept(d, i, up)
  <2>1. PICK t : t = [s EXCEPT !.state = "ACTIVE", !.wasActive = TRUE]
    OBVIOUS
  <2>2. Session(d, i, t) /\ Emit(d, up, <<Msg("answer", d, s.peer, i, "none", 0)>>)
    BY <1>1, <1>4, <2>1 DEF Accept
  <2>3. /\ t.state = "ACTIVE" /\ t.role = s.role /\ t.peer = s.peer /\ t.inviteTo = s.inviteTo
        /\ t.outstanding = s.outstanding /\ t.postAnswerSeen = s.postAnswerSeen
    BY <1>1, <2>1 DEF SessionRec
  <2>4. Accepts(s, t, "nothing", "answer")
    BY <1>1, <1>4, <2>3 DEF Accepts, Accept
  <2> QED BY <1>2, <2>2, <2>4 DEF Tag
<1>5. CASE Hangup(d, i, up)
  <2>1. PICK t : t = Finished(s)
    OBVIOUS
  <2>2. Session(d, i, t) /\ Emit(d, up, <<Msg("bye", d, s.peer, i, "user.hangup", 0)>>)
    BY <1>1, <1>5, <2>1 DEF Hangup, EndWithMedia
  <2>3. HangsUp(s, t, "nothing", "bye")
    BY <1>1, <1>5, <2>1, FinishedKept DEF HangsUp, Hangup
  <2> QED BY <1>2, <2>2, <2>3 DEF Tag, ByeReason
<1>6. CASE Info(d, i, up)
  <2>1. Session(d, i, s) /\ Emit(d, up, <<Msg("info", d, s.peer, i, "none", 0)>>)
    BY <1>0, <1>1, <1>6 DEF Info, Session, TypeOK
  <2>2. Informs(s, s, "nothing", "info")
    BY <1>1, <1>6 DEF Informs, Info, Remains, Kept
  <2> QED BY <1>2, <2>1, <2>2 DEF Tag
<1> QED BY <1>3, <1>4, <1>5, <1>6

\* update: what is drawn now was not, and is the device's own.
LEMMA OfferStep ==
  ASSUME CallsInv, NEW d \in Device, NEW i \in Sid, NEW u \in UpdateId, Offer(d, i, u)
  PROVE  StepOf(d) /\ EndpointInv'
<1>1. PICK s : s = sess[d][i] /\ s \in SessionRec /\ s.peer \in Party /\ s.state = "ACTIVE"
  BY SessionFacts DEF CallsInv, Coherent, Offer, Update
<1>2. PICK o, t : o = Outbound(u) /\ t = [s EXCEPT !.outstanding = o]
  OBVIOUS
<1>3. /\ t.state = s.state /\ Kept(s, t) /\ t.outstanding = o /\ t.postAnswerSeen = s.postAnswerSeen
  BY <1>1, <1>2 DEF SessionRec, Kept
<1>4. Session(d, i, t) /\ Update(d, i, u, up) /\ s.outstanding = NoUpdate
  BY <1>1, <1>2 DEF Offer, Update
<1>5. PICK r, v : Spells("update", "none", u, r, v) /\ Out(d, up, i, r, v)
  <2>1. Emit(d, up, <<Msg("update", d, s.peer, i, "none", u)>>)
    BY <1>1 DEF Offer, Update
  <2>2. u \in UpdateId \cup {0} /\ u # 0 /\ "update" \in MessageType /\ "none" \in Tag
    BY UpdateIds DEF MessageType, Tag
  <2> QED BY <1>1, <2>1, <2>2, SendsOne
<1>6. r = "update" /\ v = u /\ r \in Kind /\ u \in AnyUpdate /\ 0 \in AnyUpdate
  BY <1>5 DEF Spells, Kind, MessageType, AnyUpdate
<1>7. /\ drawn \subseteq drawn' /\ drawn' \subseteq UpdateId
      /\ u \in UpdateId \ drawn /\ u \in drawn' /\ UpdateOwner[u] = d
  BY DEF Offer, CallsInv
<1>8. Renegotiates(d, s, t, "nothing", 0, r, v, drawn, drawn')
  <2>1. Offers(d, s, t, "nothing", r, v, drawn, drawn')
    BY <1>2, <1>3, <1>4, <1>6, <1>7 DEF Offers
  <2> QED BY <1>1, <1>3, <2>1 DEF Renegotiates
<1>9. Turn(Owner[i], d, Peer(d), s, t, "nothing", 0, r, v, drawn, drawn')
  BY <1>6, <1>8 DEF Turn
<1>10. up \in [Device -> Seq(Message)]
  BY DEF CallsInv, EndpointInv, TypeOK
<1> QED
  BY <1>1, <1>4, <1>5, <1>7, <1>9, <1>10, StepOfLocal, UpdateInv DEF CallsInv

\* answer_update and reject_update.
LEMMA SettleStep ==
  ASSUME CallsInv, NEW d \in Device, NEW i \in Sid, Settle(d, i)
  PROVE  StepOf(d) /\ EndpointInv'
<1>1. PICK u \in UpdateId, type \in {"answer", "reject"}, tag \in {"none", "user.declined"} :
        SettleUpdate(d, i, u, type, tag, up)
  BY DEF Settle, AnswerUpdate, RejectUpdate
<1>2. PICK s : s = sess[d][i] /\ s \in SessionRec /\ s.peer \in Party /\ s.state = "ACTIVE"
  BY <1>1, SessionFacts DEF CallsInv, Coherent, SettleUpdate
<1>3. PICK t : t = [s EXCEPT !.outstanding = NoUpdate]
  OBVIOUS
<1>4. /\ t.state = s.state /\ Kept(s, t) /\ t.outstanding = NoUpdate
      /\ t.postAnswerSeen = s.postAnswerSeen
  BY <1>2, <1>3 DEF SessionRec, Kept
<1>5. Session(d, i, t) /\ s.outstanding = Inbound(u)
  BY <1>1, <1>2, <1>3 DEF SettleUpdate
<1>6. /\ u \in UpdateId \cup {0} /\ u # 0 /\ u \in AnyUpdate /\ 0 \in AnyUpdate
      /\ type \in MessageType \ {"invite", "update"} /\ tag \in Tag
      /\ tag \notin {"transport.no-response", "session.update-pending", "session.glare"}
  BY UpdateIds DEF MessageType, Tag, RejectReason, AnyUpdate
<1>7. PICK r, v : Spells(type, tag, u, r, v) /\ Out(d, up, i, r, v)
  <2>1. Emit(d, up, <<Msg(type, d, s.peer, i, tag, u)>>)
    BY <1>1, <1>2 DEF SettleUpdate
  <2> QED BY <1>2, <1>6, <2>1, SendsOne
<1>8. r = "reply" /\ v = u /\ r \in Kind
  BY <1>6, <1>7 DEF Spells, Kind
<1>9. drawn \subseteq drawn' /\ drawn' \subseteq UpdateId
  BY DEF Settle, CallsInv
<1>10. Renegotiates(d, s, t, "nothing", 0, r, v, drawn, drawn')
  <2>1. Settles(s, t, "nothing", r, v)
    BY <1>4, <1>5, <1>8 DEF Settles
  <2> QED BY <1>2, <1>4, <2>1 DEF Renegotiates
<1>11. Turn(Owner[i], d, Peer(d), s, t, "nothing", 0, r, v, drawn, drawn')
  BY <1>6, <1>8, <1>10 DEF Turn
<1>12. up \in [Device -> Seq(Message)]
  BY DEF CallsInv, EndpointInv, TypeOK
<1> QED
  BY <1>1, <1>2, <1>5, <1>6, <1>7, <1>9, <1>11, <1>12, StepOfLocal, SettleUpdateInv DEF CallsInv

\* What the device decides, its user asks for and its timers bring.
LEMMA LocalStep ==
  ASSUME CallsInv, NEW d \in Device, NEW i \in Sid, Decide(d, i) \/ User(d, i) \/ Expiry(d, i)
  PROVE  StepOf(d) /\ EndpointInv'
<1>1. UNCHANGED drawn /\ EndpointInv /\ up \in [Device -> Seq(Message)]
  BY DEF Decide, User, Expiry, CallsInv, EndpointInv, TypeOK
<1>2. ASSUME NEW reason \in {"user.cancelled", "session.timeout"}, sess[d][i].state \in Inviting,
             Withdraw(d, i, reason, up), UNCHANGED lapsed
      PROVE  StepOf(d) /\ EndpointInv'
  BY <1>1, <1>2, WithdrawStep, WithdrawInv DEF CancelReason
<1>3. ASSUME NEW reason \in {"user.declined", "user.no-answer", "session.expired", "endpoint.busy"},
             sess[d][i].state \in {"OFFERED", "ALERTING"}, TurnDown(d, i, reason, up), UNCHANGED lapsed
      PROVE  StepOf(d) /\ EndpointInv'
  BY <1>1, <1>3, TurnDownStep, TurnDownInv DEF RejectReason
<1>4. CASE Decide(d, i)
  <2>1. CASE Alert(d, i, up)
    BY <1>1, <2>1, LiveStep, AlertInv
  <2>2. CASE AlertTooLate(d, i, up) \/ AutoReject(d, i, up)
    BY <1>3, <2>2 DEF AlertTooLate, AutoReject
  <2> QED BY <1>4, <2>1, <2>2 DEF Decide
<1>5. CASE User(d, i)
  <2>1. CASE Cancel(d, i, up)
    BY <1>2, <2>1 DEF Cancel
  <2>2. CASE Decline(d, i, up)
    BY <1>3, <2>2 DEF Decline
  <2>3. CASE Hangup(d, i, up) \/ Accept(d, i, up) \/ Info(d, i, up)
    BY <1>1, <2>3, LiveStep, HangupInv, AcceptInv, InfoInv
  <2> QED BY <1>5, <2>1, <2>2, <2>3 DEF User
<1>6. CASE Expiry(d, i)
  <2>1. PICK name \in TimerName : Fire(d, i, name, up)
    BY <1>6 DEF Expiry
  <2>2. name \in TimersOf(d, i)
    BY <2>1 DEF Fire, TimersOf
  <2>3. \/ name # "T-Ring-Local" /\ sess[d][i].state \in Inviting
        \/ name = "T-Ring-Local" /\ sess[d][i].state = "ALERTING"
    BY <1>1, <2>2, SessionFacts DEF TimersAllowed, Inviting
  <2>4. CASE name # "T-Ring-Local" /\ sess[d][i].state \in Inviting
    <3>1. Withdraw(d, i, "session.timeout", up) /\ UNCHANGED lapsed
      BY <2>1, <2>4 DEF Fire
    <3> QED BY <1>2, <2>4, <3>1
  <2>5. CASE name = "T-Ring-Local" /\ sess[d][i].state = "ALERTING"
    <3>1. TurnDown(d, i, "user.no-answer", up) /\ UNCHANGED lapsed
      BY <2>1, <2>5 DEF Fire
    <3> QED BY <1>3, <2>5, <3>1
  <2> QED BY <2>3, <2>4, <2>5
<1> QED BY <1>4, <1>5, <1>6

-----------------------------------------------------------------------------
(* Received messages.                                                      *)

\* Device d takes message m, of kind k about u, the oldest of its peer's; s is
\* its record of the session.
Hearing(d, m, rest, s, k, u) ==
  /\ m \in Message /\ m.sid \in Sid /\ m.from = Peer(d)
  /\ m.tag \notin {"transport.no-response", "session.update-pending"}
  /\ s = sess[d][m.sid]
  /\ In(d, rest, m.sid, k, u)
  /\ rest \in [Device -> Seq(Message)]
  /\ k \in Kind /\ u \in AnyUpdate /\ (k \notin {"update", "reply"} => u = 0)
  /\ Spells(m.type, m.tag, m.upd, k, u)
  /\ Expects(Owner[m.sid], d, s, k, u)
  /\ m.type = "update" => m.upd \in UpdateId
  /\ m.type = "invite" => /\ Owner[m.sid] = Peer(d)
                          /\ Reaches([to |-> sess[Owner[m.sid]][m.sid].inviteTo], d)

\* What a delivery has the device hear.
LEMMA Delivered ==
  ASSUME CallsInv, NEW x \in Device, NEW d \in Device, Deliver(x, d)
  PROVE  \E m, rest, s, k, u : Hearing(d, m, rest, s, k, u) /\ Recv(d, m, rest)
<1>1. TypeOK /\ TwoDevices /\ AllHonest
  BY DEF CallsInv, EndpointInv
<1>2. PICK C \in Seq(Message) : C = up[x] /\ C # <<>> /\ x # d /\ x = Peer(d)
  BY <1>1, PeerFacts DEF Deliver, TypeOK
<1>3. PICK m \in Message : m = Head(C) /\ m = C[1] /\ 1 \in DOMAIN C
  BY <1>2, HeadTailProperties, EmptySeq, LenProperties
<1>4. PICK rest : rest = [up EXCEPT ![x] = Tail(@)]
  OBVIOUS
<1>5. Recv(d, m, rest) /\ Reaches(m, d)
  BY <1>2, <1>3, <1>4 DEF Deliver
<1>6. PICK s, k, u : s = sess[d][m.sid] /\ k = KindOf(m) /\ u = AboutOf(m)
  OBVIOUS
<1>7. m.sid \in Sid /\ k \in Kind /\ u \in AnyUpdate
  BY <1>6, KindType DEF Message
<1>8. In(d, rest, m.sid, k, u)
  BY <1>2, <1>3, <1>4, <1>6 DEF In
<1>9. Spells(m.type, m.tag, m.upd, k, u)
  BY <1>6, KindSpelt
<1>10. k \notin {"update", "reply"} => u = 0
  BY <1>6 DEF AboutOf
<1>11. Honest(x, m, sess[x])
  BY <1>1, <1>2, <1>3 DEF AllHonest
<1>12. m.type = "update" => m.upd \in UpdateId
  BY <1>11 DEF Honest, Message
<1>13. k = "update" => u \in UpdateId
  <2>1. k = "update" => m.type = "update" /\ u = m.upd
    BY <1>9 DEF Spells, Message, MessageType
  <2> QED BY <1>12, <2>1
<1>14. k # "nothing"
  BY <1>7 DEF Kind, MessageType
<1>15. Expects(Owner[m.sid], d, s, k, u)
  BY <1>6, <1>7, <1>8, <1>10, <1>13, <1>14, Expected
<1>16. rest \in [Device -> Seq(Message)]
  BY <1>1, <1>7, <1>8, InTakes
<1>17. m.type = "invite" => /\ Owner[m.sid] = x
                            /\ Reaches([to |-> sess[Owner[m.sid]][m.sid].inviteTo], d)
  BY <1>5, <1>11 DEF Honest, Reaches
<1>18. m.from = Peer(d) /\ m.tag \notin {"transport.no-response", "session.update-pending"}
  BY <1>2, <1>11 DEF Honest
<1>19. Hearing(d, m, rest, s, k, u)
  BY <1>2, <1>6, <1>7, <1>8, <1>9, <1>10, <1>12, <1>15, <1>16, <1>17, <1>18 DEF Hearing
<1> QED BY <1>5, <1>19

\* A handler that changes the session the message is of.
LEMMA StepOfHearing ==
  ASSUME CallsInv, NEW d \in Device, NEW m, NEW rest, NEW s, NEW k, NEW u, NEW t, NEW r, NEW v,
         Hearing(d, m, rest, s, k, u), UNCHANGED drawn,
         Session(d, m.sid, t), Out(d, rest, m.sid, r, v),
         Turn(Owner[m.sid], d, Peer(d), s, t, k, u, r, v, drawn, drawn'),
         k = "invite" => Welcome(d, m.sid, t)
  PROVE  StepOf(d)
<1>1. PICK i \in Sid : i = m.sid
  BY DEF Hearing
<1>2. drawn \subseteq drawn' /\ drawn' \subseteq UpdateId
  BY DEF CallsInv
<1>3. s = sess[d][i] /\ In(d, rest, i, k, u)
  BY <1>1 DEF Hearing
<1> QED BY <1>1, <1>2, <1>3, StepOfOne

\* A device that sends nothing.
LEMMA SendsNone ==
  ASSUME NEW d \in Device, NEW rest \in [Device -> Seq(Message)], NEW i \in Sid,
         up' = rest \/ Emit(d, rest, <<>>)
  PROVE  Out(d, rest, i, "nothing", 0)
<1>1. rest[d] \o <<>> = rest[d]
  BY ConcatProperties, EmptySeq
<1>2. up' = rest
  BY <1>1 DEF Emit
<1> QED BY <1>2 DEF Out

\* An error, or a message for a session that is over.
LEMMA IgnoreStep ==
  ASSUME CallsInv, NEW d \in Device, NEW m, NEW rest, NEW s, NEW k, NEW u,
         Hearing(d, m, rest, s, k, u), UNCHANGED drawn,
         RecvError(d, m, rest) \/ RecvEnded(d, m, rest)
  PROVE  StepOf(d)
<1>1. /\ s = sess[d][m.sid] /\ m.sid \in Sid /\ m \in Message
      /\ k \in Kind \ {"invite"} /\ s.state # "NONE" /\ s \in SessionRec
  <2>1. k # "invite"
    BY DEF Hearing, Spells, Message, MessageType, RecvError, RecvEnded
  <2> QED BY <2>1 DEF Hearing, Expects
<1>2. UNCHANGED sess
  BY DEF RecvError, RecvEnded, Hearing
<1>3. Session(d, m.sid, s)
  BY <1>1, <1>2 DEF Session, CallsInv, EndpointInv, TypeOK
<1>4. ASSUME NEW r \in {"nothing", "bye"}, Out(d, rest, m.sid, r, 0), Ignores(s, s, k, r)
      PROVE  StepOf(d)
  <2>1. Turn(Owner[m.sid], d, Peer(d), s, s, k, u, r, 0, drawn, drawn')
    <3>1. r \in Kind \cup {"nothing"} /\ 0 \in AnyUpdate
      BY DEF Kind, MessageType, AnyUpdate
    <3> QED BY <1>4, <3>1 DEF Turn, Hearing
  <2> QED BY <1>1, <1>3, <1>4, <2>1, StepOfHearing
<1>5. ASSUME up' = rest \/ Emit(d, rest, <<>>), k = "error" \/ s.state = "ENDED"
      PROVE  StepOf(d)
  <2>1. Out(d, rest, m.sid, "nothing", 0)
    BY <1>1, <1>5, SendsNone DEF Hearing
  <2>2. Ignores(s, s, k, "nothing")
    BY <1>1, <1>5 DEF Ignores
  <2> QED BY <1>4, <2>1, <2>2
<1>6. CASE RecvError(d, m, rest)
  <2>1. k = "error" /\ up' = rest
    BY <1>6 DEF RecvError, Hearing, Spells
  <2> QED BY <1>5, <2>1
<1>7. CASE RecvEnded(d, m, rest)
  <2>1. s.state = "ENDED"
    BY <1>1, <1>7 DEF RecvEnded
  <2>2. CASE m.type = "answer" /\ s.role = "initiator" /\ m.upd = 0
    <3>1. PICK reason : reason = LateAnswerReason(s)
      OBVIOUS
    <3>2. reason \in {"session.cancelled", "session.already-answered", "session.failed"}
      BY <3>1 DEF LateAnswerReason
    <3>3. Emit(d, rest, <<Msg("bye", d, m.from, m.sid, reason, 0)>>)
      BY <1>1, <1>7, <2>2, <3>1 DEF RecvEnded
    <3>4. PICK r, v : Spells("bye", reason, 0, r, v) /\ Out(d, rest, m.sid, r, v)
      <4>1. reason \in Tag /\ "bye" \in MessageType /\ m.from \in Party /\ 0 \in UpdateId \cup {0}
        BY <1>1, <3>2 DEF Tag, ByeReason, MessageType, Message
      <4> QED BY <1>1, <3>2, <3>3, <4>1, SendsOne
    <3>5. r = "bye" /\ v = 0
      BY <3>4 DEF Spells
    <3>6. k = "answer"
      BY <2>2 DEF Hearing, Spells
    <3>7. Ignores(s, s, k, "bye")
      BY <1>1, <2>1, <2>2, <3>6 DEF Ignores
    <3> QED BY <1>4, <3>4, <3>5, <3>7
  <2>3. CASE ~(m.type = "answer" /\ s.role = "initiator" /\ m.upd = 0)
    <3>1. Emit(d, rest, <<>>)
      BY <1>1, <1>7, <2>3 DEF RecvEnded
    <3> QED BY <1>5, <2>1, <3>1
  <2> QED BY <2>2, <2>3
<1> QED BY <1>6, <1>7

\* What recv() has noted of a live session s before it dispatches: n.
Remembers(m, s, n) ==
  /\ n \in SessionRec /\ Remains(s, n)
  /\ \/ n.postAnswerSeen = s.postAnswerSeen
     \/ s.state = "ACTIVE" /\ s.role = "responder" /\ m.type # "cancel"

\* noted, and alive.
LEMMA NotedRemembers ==
  ASSUME NEW d, NEW m, NEW s \in SessionRec, s = sess[d][m.sid]
  PROVE  Remembers(m, s, Noted(d, m))
<1>1. PICK n : n = Noted(d, m)
  OBVIOUS
<1>2. CASE s.role = "responder" /\ s.state = "ACTIVE" /\ m.type # "cancel"
  <2>1. n = [s EXCEPT !.postAnswerSeen = TRUE]
    BY <1>1, <1>2 DEF Noted
  <2>2. n \in SessionRec /\ Remains(s, n)
    BY <2>1 DEF SessionRec, Remains, Kept
  <2> QED BY <1>1, <1>2, <2>2 DEF Remembers
<1>3. CASE ~(s.role = "responder" /\ s.state = "ACTIVE" /\ m.type # "cancel")
  BY <1>1, <1>3 DEF Noted, Remembers, Remains, Kept
<1> QED BY <1>2, <1>3

\* What a message expected of a live session says of it.
LEMMA LiveExpects ==
  ASSUME NEW own, NEW d, NEW s, NEW k, NEW u, Expects(own, d, s, k, u), s.state \notin {"NONE", "ENDED"}
  PROVE  /\ s.role \in {"initiator", "responder"} /\ k # "invite"
         /\ s.role = "initiator" => s.state \in Inviting \cup {"ACTIVE"}
         /\ s.role = "responder" => s.state \in {"OFFERED", "ALERTING", "ACTIVE"}
         /\ s.role = "initiator" /\ k \in {"answer", "reject"} => s.state \in Inviting
         /\ s.role = "initiator" /\ k = "bye" => s.state = "ACTIVE"
         /\ s.role = "responder" /\ k = "elsewhere" => s.state = "ACTIVE"
         /\ k \in Talk => s.state = "ACTIVE"
  BY DEF Expects, Coherent, SessionRec, Inviting

\* A live session, what it is told and what is noted of it.
Listening(d, m, rest, s, n, k, u) ==
  /\ Hearing(d, m, rest, s, k, u)
  /\ s.state \notin {"NONE", "ENDED"}
  /\ Remembers(m, s, n)

\* A message out of place.
LEMMA ObjectStep ==
  ASSUME CallsInv, NEW d \in Device, NEW m, NEW rest, NEW s, NEW n, NEW k, NEW u,
         Listening(d, m, rest, s, n, k, u), UNCHANGED drawn, InvalidState(d, m, n, rest),
         k \notin Talk \cup {"error"},
         s.role = "responder" => k # "withdraw" /\ (k = "bye" => s.state # "ACTIVE"),
         s.role = "initiator" => k \notin {"answer", "reject", "bye"}
  PROVE  StepOf(d)
<1>1. /\ m.sid \in Sid /\ m \in Message /\ Hearing(d, m, rest, s, k, u)
      /\ k \in Kind /\ u \in AnyUpdate /\ (k \notin {"update", "reply"} => u = 0)
      /\ Expects(Owner[m.sid], d, s, k, u)
      /\ s.state \notin {"NONE", "ENDED"} /\ Remembers(m, s, n)
  BY DEF Listening, Hearing
<1>2. /\ Session(d, m.sid, n)
      /\ Emit(d, rest, <<Msg("error", d, m.from, m.sid, "session.invalid-state", 0)>>)
  BY DEF InvalidState, ErrorReply
<1>3. PICK r, v : Spells("error", "session.invalid-state", 0, r, v) /\ Out(d, rest, m.sid, r, v)
  <2>1. /\ "session.invalid-state" \in Tag /\ "error" \in MessageType /\ m.from \in Party
        /\ 0 \in UpdateId \cup {0}
    BY <1>1 DEF Tag, ErrorReason, MessageType, Message
  <2> QED BY <1>1, <1>2, <2>1, SendsOne
<1>4. r = "error" /\ v = 0 /\ r \in Kind \cup {"nothing"} /\ 0 \in AnyUpdate
  BY <1>3 DEF Spells, Kind, MessageType, AnyUpdate
<1>5. k # "invite" /\ s.role \in {"initiator", "responder"}
  BY <1>1, LiveExpects
<1>6. n.postAnswerSeen = s.postAnswerSeen \/ k \notin {"bye", "withdraw", "error"}
  BY <1>1 DEF Remembers
<1>7. Objects(s, n, k, r)
  BY <1>1, <1>4, <1>5, <1>6 DEF Objects, Remembers
<1>8. Turn(Owner[m.sid], d, Peer(d), s, n, k, u, r, v, drawn, drawn')
  BY <1>1, <1>4, <1>7 DEF Turn
<1> QED BY <1>1, <1>2, <1>3, <1>5, <1>8, StepOfHearing

\* A handler of a live session that sends nothing.
LEMMA QuietStep ==
  ASSUME CallsInv, NEW d \in Device, NEW m, NEW rest, NEW s, NEW n, NEW k, NEW u, NEW t,
         Listening(d, m, rest, s, n, k, u), UNCHANGED drawn, Session(d, m.sid, t),
         up' = rest \/ Emit(d, rest, <<>>),
         \/ Progresses(s, t, k, "nothing") \/ Establishes(Peer(d), s, t, k, "nothing")
         \/ EndedByPeer(s, t, k, "nothing") \/ Informs(s, t, k, "nothing")
         \/ Renegotiates(d, s, t, k, u, "nothing", 0, drawn, drawn')
  PROVE  StepOf(d)
<1>1. /\ m.sid \in Sid /\ rest \in [Device -> Seq(Message)] /\ Hearing(d, m, rest, s, k, u)
      /\ k \in Kind /\ u \in AnyUpdate /\ (k \notin {"update", "reply"} => u = 0)
      /\ Expects(Owner[m.sid], d, s, k, u) /\ s.state \notin {"NONE", "ENDED"}
  BY DEF Listening, Hearing
<1>2. Out(d, rest, m.sid, "nothing", 0)
  BY <1>1, SendsNone
<1>3. Turn(Owner[m.sid], d, Peer(d), s, t, k, u, "nothing", 0, drawn, drawn')
  <2>1. 0 \in AnyUpdate
    BY DEF AnyUpdate
  <2> QED BY <1>1, <2>1 DEF Turn
<1>4. k # "invite"
  BY <1>1, LiveExpects
<1> QED BY <1>1, <1>2, <1>3, <1>4, StepOfHearing

\* progress.
LEMMA ProgressStep ==
  ASSUME CallsInv, NEW d \in Device, NEW m, NEW rest, NEW s, NEW n, NEW k, NEW u,
         Listening(d, m, rest, s, n, k, u), UNCHANGED drawn, m.type = "progress",
         RecvProgress(d, m, n, rest)
  PROVE  StepOf(d)
<1>1. /\ m.sid \in Sid /\ m \in Message /\ Hearing(d, m, rest, s, k, u) /\ n \in SessionRec
      /\ s.state \notin {"NONE", "ENDED"} /\ Remains(s, n) /\ k = "progress"
      /\ u = 0 /\ Expects(Owner[m.sid], d, s, k, u) /\ s.state = n.state
      /\ s \in SessionRec /\ Coherent(s)
  <2>1. m.sid \in Sid /\ m \in Message /\ Hearing(d, m, rest, s, k, u) /\ s.state \notin {"NONE", "ENDED"}
        /\ n \in SessionRec /\ Remains(s, n)
    BY DEF Listening, Hearing, Remembers
  <2>2. k = "progress" /\ u = 0 /\ Expects(Owner[m.sid], d, s, k, u)
    BY <2>1 DEF Hearing, Spells
  <2> QED BY <2>1, <2>2 DEF Expects, Remains
<1>2. CASE n.state \notin Inviting
  <2>1. InvalidState(d, m, n, rest)
    BY <1>2 DEF RecvProgress
  <2> QED BY <1>1, <2>1, ObjectStep DEF Talk
<1>3. CASE n.state \in Inviting
  <2>1. ASSUME NEW q, Session(d, m.sid, [n EXCEPT !.state = "PROCEEDING", !.queueCount = q]), up' = rest
        PROVE  StepOf(d)
    <3>1. PICK t : t = [n EXCEPT !.state = "PROCEEDING", !.queueCount = q]
      OBVIOUS
    <3>2. t.state = "PROCEEDING" /\ Kept(n, t) /\ t.outstanding = n.outstanding
      BY <1>1, <3>1 DEF SessionRec, Kept
    <3>3. Progresses(s, t, k, "nothing")
      BY <1>1, <1>3, <3>2 DEF Progresses, Remains, Kept
    <3> QED BY <2>1, <3>1, <3>3, QuietStep
  <2>2. CASE RecvQueuedTooOften(d, m.sid, n, rest)
    <3>1. PICK q, t : t = Finished([n EXCEPT !.cancelled = TRUE, !.queueCount = q])
                      /\ Session(d, m.sid, t)
      BY <2>2 DEF RecvQueuedTooOften, End
    <3>2. t.state = "ENDED" /\ Kept(n, t)
      BY <1>1, <3>1 DEF SessionRec, Finished, Kept
    <3>3. n.inviteTo \in Party
      BY <1>1, <1>3 DEF Remains, Kept, Coherent, Inviting
    <3>4. PICK r, v : Spells("cancel", "session.timeout", 0, r, v) /\ Out(d, rest, m.sid, r, v)
      <4>1. "session.timeout" \in Tag /\ "cancel" \in MessageType /\ 0 \in UpdateId \cup {0}
        BY DEF Tag, CancelReason, MessageType
      <4>2. Emit(d, rest, <<Msg("cancel", d, n.inviteTo, m.sid, "session.timeout", 0)>>)
        BY <2>2 DEF RecvQueuedTooOften
      <4> QED BY <1>1, <3>3, <4>1, <4>2, SendsOne
    <3>5. r = "withdraw" /\ v = 0 /\ r \in Kind \cup {"nothing"} /\ 0 \in AnyUpdate /\ k \in Kind
      BY <1>1, <3>4 DEF Spells, Kind, MessageType, AnyUpdate
    <3>6. Withdraws(s, t, k, r)
      BY <1>1, <1>3, <3>2, <3>5 DEF Withdraws, Remains, Kept
    <3>7. Turn(Owner[m.sid], d, Peer(d), s, t, k, u, r, v, drawn, drawn')
      BY <1>1, <3>5, <3>6 DEF Turn
    <3>8. k # "invite"
      BY <1>1
    <3> QED BY <1>1, <3>1, <3>4, <3>7, <3>8, StepOfHearing
  <2>3. CASE RecvRinging(d, m.sid, n, rest) \/ RecvQueued(d, m.sid, n, rest) \/ RecvTrying(d, m.sid, n, rest)
    <3>1. PICK q : Session(d, m.sid, [n EXCEPT !.state = "PROCEEDING", !.queueCount = q]) /\ up' = rest
      BY <2>3 DEF RecvRinging, RecvQueued, RecvTrying, Proceed
    <3> QED BY <2>1, <3>1
  <2> QED BY <1>3, <2>2, <2>3 DEF RecvProgress
<1> QED BY <1>2, <1>3

\* What the live handlers start from.
LEMMA ListeningFacts ==
  ASSUME NEW d, NEW m, NEW rest, NEW s, NEW n, NEW k, NEW u, Listening(d, m, rest, s, n, k, u)
  PROVE  /\ m.sid \in Sid /\ m \in Message /\ Hearing(d, m, rest, s, k, u)
         /\ s \in SessionRec /\ n \in SessionRec /\ Coherent(s)
         /\ s.state \notin {"NONE", "ENDED"} /\ Remains(s, n)
         /\ n.state = s.state /\ n.role = s.role /\ n.outstanding = s.outstanding
         /\ n.inviteTo = s.inviteTo
         /\ k \in Kind /\ u \in AnyUpdate /\ (k \notin {"update", "reply"} => u = 0)
         /\ Expects(Owner[m.sid], d, s, k, u)
         /\ Spells(m.type, m.tag, m.upd, k, u)
         /\ m.from = Peer(d) /\ m.from \in Party
<1>1. Hearing(d, m, rest, s, k, u) /\ Remembers(m, s, n) /\ s.state \notin {"NONE", "ENDED"}
  BY DEF Listening
<1>2. n \in SessionRec /\ Remains(s, n)
  BY <1>1 DEF Remembers
<1>3. /\ m.sid \in Sid /\ m \in Message /\ Expects(Owner[m.sid], d, s, k, u)
      /\ k \in Kind /\ u \in AnyUpdate /\ (k \notin {"update", "reply"} => u = 0)
      /\ Spells(m.type, m.tag, m.upd, k, u) /\ m.from = Peer(d)
  BY <1>1 DEF Hearing
<1> QED BY <1>1, <1>2, <1>3 DEF Expects, Remains, Kept, Message

\* The reply to an update.
LEMMA ReplyStep ==
  ASSUME CallsInv, NEW d \in Device, NEW m, NEW rest, NEW s, NEW n, NEW k, NEW u,
         Listening(d, m, rest, s, n, k, u), UNCHANGED drawn, k = "reply",
         m.type \in {"answer", "reject"}, m.upd # 0, RecvUpdateReply(d, m, n, rest)
  PROVE  StepOf(d)
<1>1. /\ n \in SessionRec /\ Remains(s, n) /\ n.outstanding = s.outstanding
      /\ Expects(Owner[m.sid], d, s, k, u) /\ s.state \notin {"NONE", "ENDED"}
      /\ u = m.upd /\ u \in UpdateId
  <2>1. Spells(m.type, m.tag, m.upd, k, u) /\ m \in Message
    BY ListeningFacts
  <2>2. u = m.upd /\ u \in UpdateId
    BY <2>1 DEF Spells, Message
  <2> QED BY <2>2, ListeningFacts
<1>2. s.state = "ACTIVE"
  BY <1>1, LiveExpects DEF Talk
<1>3. PICK o : o = IF s.outstanding = Outbound(u) THEN NoUpdate ELSE s.outstanding
  OBVIOUS
<1>4. PICK t : /\ Session(d, m.sid, t) /\ up' = rest
               /\ t.state = n.state /\ Kept(n, t) /\ t.outstanding = o
  <2>1. PICK t : t = IF SettlesOurs(m, n) THEN [n EXCEPT !.outstanding = NoUpdate] ELSE n
    OBVIOUS
  <2>2. Session(d, m.sid, t) /\ up' = rest
    BY <2>1 DEF RecvUpdateReply, Absorb
  <2>3. CASE SettlesOurs(m, n)
    <3>1. o = NoUpdate
      BY <1>1, <1>3, <2>3 DEF SettlesOurs
    <3>2. t.state = n.state /\ Kept(n, t) /\ t.outstanding = NoUpdate
      BY <1>1, <2>1, <2>3 DEF SessionRec, Kept
    <3> QED BY <2>2, <3>1, <3>2
  <2>4. CASE ~SettlesOurs(m, n)
    <3>1. o = n.outstanding /\ t = n
      BY <1>1, <1>3, <2>1, <2>4 DEF SettlesOurs
    <3> QED BY <2>2, <3>1 DEF Kept
  <2> QED BY <2>3, <2>4
<1>5. Learns(s, t, k, u, "nothing")
  BY <1>1, <1>3, <1>4 DEF Learns
<1>6. Renegotiates(d, s, t, k, u, "nothing", 0, drawn, drawn')
  BY <1>1, <1>2, <1>4, <1>5 DEF Renegotiates, Remains, Kept
<1> QED BY <1>4, <1>6, QuietStep

\* answer.
LEMMA AnswerStep ==
  ASSUME CallsInv, NEW d \in Device, NEW m, NEW rest, NEW s, NEW n, NEW k, NEW u,
         Listening(d, m, rest, s, n, k, u), UNCHANGED drawn, m.type = "answer",
         RecvAnswer(d, m, n, rest)
  PROVE  StepOf(d)
<1>1. /\ m.sid \in Sid /\ m \in Message /\ Hearing(d, m, rest, s, k, u)
      /\ s \in SessionRec /\ n \in SessionRec /\ Coherent(s)
      /\ s.state \notin {"NONE", "ENDED"} /\ Remains(s, n)
      /\ n.state = s.state /\ n.role = s.role /\ n.inviteTo = s.inviteTo
      /\ Expects(Owner[m.sid], d, s, k, u) /\ m.from = Peer(d)
      /\ k \in Kind /\ u \in AnyUpdate /\ (k \notin {"update", "reply"} => u = 0)
  BY ListeningFacts
<1>2. (m.upd # 0 => k = "reply") /\ (m.upd = 0 => k = "answer")
  BY <1>1 DEF Hearing, Spells
<1>3. /\ s.role \in {"initiator", "responder"}
      /\ s.role = "responder" => s.state \in {"OFFERED", "ALERTING", "ACTIVE"}
      /\ s.role = "initiator" /\ k \in {"answer", "reject"} => s.state \in Inviting
      /\ k \in Talk => s.state = "ACTIVE"
  BY <1>1, LiveExpects
<1>4. CASE m.upd # 0
  <2>1. s.state = "ACTIVE" /\ s.state \notin Inviting
    BY <1>2, <1>3, <1>4 DEF Talk, Inviting
  <2>2. RecvUpdateReply(d, m, n, rest)
    BY <1>1, <1>4, <2>1 DEF RecvAnswer
  <2> QED BY <1>2, <1>4, <2>2, ReplyStep
<1>5. CASE m.upd = 0 /\ s.role = "responder"
  <2>1. s.state \notin Inviting
    BY <1>3, <1>5 DEF Inviting
  <2>2. InvalidState(d, m, n, rest)
    BY <1>1, <1>5, <2>1 DEF RecvAnswer
  <2>3. k = "answer"
    BY <1>2, <1>5
  <2> QED BY <1>5, <2>2, <2>3, ObjectStep DEF Talk
<1>6. CASE m.upd = 0 /\ s.role = "initiator"
  <2>1. k = "answer" /\ s.state \in Inviting /\ u = 0
    BY <1>1, <1>2, <1>3, <1>6
  <2>2. RecvFirstAnswer(d, m, n, rest)
    <3>1. n.state \in Inviting /\ m.upd = 0 /\ n.state # "ACTIVE"
      BY <1>1, <1>6, <2>1 DEF Inviting
    <3>2. n.state \in Inviting /\ m.upd = 0 => RecvFirstAnswer(d, m, n, rest)
      BY <3>1, Zenon DEF RecvAnswer
    <3> QED BY <3>1, <3>2
  <2>3. PICK t : t = [n EXCEPT !.state = "ACTIVE", !.wasActive = TRUE, !.answered = m.from, !.peer = m.from]
    OBVIOUS
  <2>4. Session(d, m.sid, t)
    BY <2>2, <2>3 DEF RecvFirstAnswer
  <2>5. /\ t.state = "ACTIVE" /\ t.peer = m.from /\ t.role = n.role /\ t.inviteTo = n.inviteTo
        /\ t.outstanding = n.outstanding
    BY <1>1, <2>3 DEF SessionRec
  <2>6. t.wasActive = TRUE
    BY <1>1, <2>3, Zenon DEF SessionRec
  <2>7. ASSUME NEW r \in {"nothing", "elsewhere"} PROVE Establishes(Peer(d), s, t, k, r)
    <3>1. /\ t.state = "ACTIVE" /\ t.peer = Peer(d) /\ t.role = s.role /\ t.inviteTo = s.inviteTo
          /\ t.outstanding = s.outstanding
      BY <1>1, <2>5 DEF Remains, Kept
    <3> QED BY <2>1, <2>6, <3>1 DEF Establishes
  <2>8. CASE m.from # n.inviteTo
    <3>1. Emit(d, rest, <<Msg("cancel", d, n.inviteTo, m.sid, "session.answered-elsewhere", 0)>>)
      BY <2>2, <2>8 DEF RecvFirstAnswer
    <3>2. n.inviteTo \in Party
      BY <1>1, <2>1 DEF Coherent, Inviting
    <3>3. PICK r, v : Spells("cancel", "session.answered-elsewhere", 0, r, v) /\ Out(d, rest, m.sid, r, v)
      <4>1. "session.answered-elsewhere" \in Tag /\ "cancel" \in MessageType /\ 0 \in UpdateId \cup {0}
        BY DEF Tag, CancelReason, MessageType
      <4> QED BY <1>1, <3>1, <3>2, <4>1, SendsOne
    <3>4. r = "elsewhere" /\ v = 0 /\ r \in Kind \cup {"nothing"} /\ 0 \in AnyUpdate
      BY <3>3 DEF Spells, Kind, AnyUpdate
    <3>5. Establishes(Peer(d), s, t, k, r)
      BY <2>7, <3>4
    <3>6. Turn(Owner[m.sid], d, Peer(d), s, t, k, u, r, v, drawn, drawn')
      BY <1>1, <3>4, <3>5 DEF Turn
    <3>7. k # "invite"
      BY <2>1
    <3> QED BY <1>1, <2>4, <3>3, <3>6, <3>7, StepOfHearing
  <2>9. CASE m.from = n.inviteTo
    <3>1. Emit(d, rest, <<>>)
      BY <2>2, <2>9 DEF RecvFirstAnswer
    <3>2. Establishes(Peer(d), s, t, k, "nothing")
      BY <2>7
    <3> QED BY <2>4, <3>1, <3>2, QuietStep
  <2> QED BY <2>8, <2>9
<1> QED BY <1>3, <1>4, <1>5, <1>6

\* The peer ends the session, which is in a state the message fits.
LEMMA EndedStep ==
  ASSUME CallsInv, NEW d \in Device, NEW m, NEW rest, NEW s, NEW n, NEW k, NEW u,
         Listening(d, m, rest, s, n, k, u), UNCHANGED drawn,
         End(d, m.sid, n) \/ EndWithMedia(d, m.sid, n), up' = rest,
         \/ k = "reject" /\ s.state \in Inviting
         \/ k = "bye" /\ s.state = "ACTIVE"
         \/ k = "withdraw" /\ s.role = "responder" /\ s.state \in {"OFFERED", "ALERTING", "ACTIVE"}
  PROVE  StepOf(d)
<1>1. n \in SessionRec /\ Remains(s, n)
  BY ListeningFacts
<1>2. PICK t : t = Finished(n)
  OBVIOUS
<1>3. Session(d, m.sid, t)
  BY <1>2 DEF End, EndWithMedia
<1>4. t.state = "ENDED" /\ Kept(n, t)
  BY <1>1, <1>2, FinishedKept
<1>5. EndedByPeer(s, t, k, "nothing")
  BY <1>1, <1>4 DEF EndedByPeer, Remains, Kept
<1> QED BY <1>3, <1>5, QuietStep

\* reject.
LEMMA RejectStep ==
  ASSUME CallsInv, NEW d \in Device, NEW m, NEW rest, NEW s, NEW n, NEW k, NEW u,
         Listening(d, m, rest, s, n, k, u), UNCHANGED drawn, m.type = "reject",
         RecvReject(d, m, n, rest)
  PROVE  StepOf(d)
<1>1. /\ Hearing(d, m, rest, s, k, u) /\ n.state = s.state
      /\ s.state \notin {"NONE", "ENDED"} /\ Expects(Owner[m.sid], d, s, k, u)
  BY ListeningFacts
<1>2. (m.upd # 0 => k = "reply") /\ (m.upd = 0 => k = "reject")
  BY <1>1 DEF Hearing, Spells
<1>3. /\ s.role \in {"initiator", "responder"}
      /\ s.role = "responder" => s.state \in {"OFFERED", "ALERTING", "ACTIVE"}
      /\ s.role = "initiator" /\ k \in {"answer", "reject"} => s.state \in Inviting
      /\ k \in Talk => s.state = "ACTIVE"
  BY <1>1, LiveExpects
<1>4. CASE m.upd # 0
  <2>1. s.state = "ACTIVE" /\ s.state \notin Inviting
    BY <1>2, <1>3, <1>4 DEF Talk, Inviting
  <2>2. RecvUpdateReply(d, m, n, rest)
    BY <1>1, <1>4, <2>1 DEF RecvReject
  <2> QED BY <1>2, <1>4, <2>2, ReplyStep
<1>5. CASE m.upd = 0 /\ s.role = "responder"
  <2>1. s.state \notin Inviting
    BY <1>3, <1>5 DEF Inviting
  <2>2. InvalidState(d, m, n, rest)
    BY <1>1, <1>5, <2>1 DEF RecvReject
  <2>3. k = "reject"
    BY <1>2, <1>5
  <2> QED BY <1>5, <2>2, <2>3, ObjectStep DEF Talk
<1>6. CASE m.upd = 0 /\ s.role = "initiator"
  <2>1. k = "reject" /\ s.state \in Inviting
    BY <1>2, <1>3, <1>6
  <2>2. End(d, m.sid, n) /\ up' = rest
    BY <1>1, <1>6, <2>1 DEF RecvReject
  <2> QED BY <2>1, <2>2, EndedStep
<1> QED BY <1>3, <1>4, <1>5, <1>6

\* cancel.
LEMMA CancelStep ==
  ASSUME CallsInv, NEW d \in Device, NEW m, NEW rest, NEW s, NEW n, NEW k, NEW u,
         Listening(d, m, rest, s, n, k, u), UNCHANGED drawn, m.type = "cancel",
         RecvCancel(d, m, n, rest)
  PROVE  StepOf(d)
<1>1. /\ Hearing(d, m, rest, s, k, u) /\ n.state = s.state /\ n.role = s.role
      /\ s.state \notin {"NONE", "ENDED"} /\ Expects(Owner[m.sid], d, s, k, u)
  BY ListeningFacts
<1>2. /\ m.tag = "session.answered-elsewhere" => k = "elsewhere"
      /\ m.tag # "session.answered-elsewhere" => k = "withdraw"
  BY <1>1 DEF Hearing, Spells
<1>3. /\ s.role \in {"initiator", "responder"}
      /\ s.role = "responder" => s.state \in {"OFFERED", "ALERTING", "ACTIVE"}
      /\ s.role = "initiator" => s.state \in Inviting \cup {"ACTIVE"}
      /\ s.role = "responder" /\ k = "elsewhere" => s.state = "ACTIVE"
  BY <1>1, LiveExpects
<1>4. n.postAnswerSeen = s.postAnswerSeen
  BY DEF Listening, Remembers
<1>5. \/ n.state \in {"OFFERED", "ALERTING"} /\ End(d, m.sid, n) /\ up' = rest
      \/ /\ n.role = "responder" /\ n.state = "ACTIVE" /\ Crossed(m, n)
         /\ EndWithMedia(d, m.sid, n) /\ up' = rest
      \/ /\ n.state \notin {"OFFERED", "ALERTING"}
         /\ ~(n.role = "responder" /\ n.state = "ACTIVE" /\ Crossed(m, n))
         /\ InvalidState(d, m, n, rest)
  <2>1. CASE n.state \in {"OFFERED", "ALERTING"}
    <3>1. n.state # "ACTIVE"
      BY <2>1
    <3>2. End(d, m.sid, n) /\ up' = rest
      BY <2>1, <3>1, Zenon DEF RecvCancel
    <3> QED BY <2>1, <3>2
  <2>2. CASE n.state \notin {"OFFERED", "ALERTING"}
    BY <2>2, Zenon DEF RecvCancel
  <2> QED BY <2>1, <2>2
<1>6. CASE n.state \in {"OFFERED", "ALERTING"} /\ End(d, m.sid, n) /\ up' = rest
  <2>1. s.role = "responder" /\ k = "withdraw"
    BY <1>1, <1>2, <1>3, <1>6 DEF Inviting
  <2> QED BY <1>1, <1>6, <2>1, EndedStep
<1>7. CASE /\ n.role = "responder" /\ n.state = "ACTIVE" /\ Crossed(m, n)
           /\ EndWithMedia(d, m.sid, n) /\ up' = rest
  <2>1. k = "withdraw"
    BY <1>2, <1>7 DEF Crossed
  <2> QED BY <1>1, <1>7, <2>1, EndedStep
<1>8. CASE /\ n.state \notin {"OFFERED", "ALERTING"}
           /\ ~(n.role = "responder" /\ n.state = "ACTIVE" /\ Crossed(m, n))
           /\ InvalidState(d, m, n, rest)
  <2>1. ASSUME s.role = "responder", k = "withdraw" PROVE FALSE
    <3>1. s.state = "ACTIVE"
      BY <1>1, <1>3, <1>8, <2>1
    <3>2. s.postAnswerSeen = FALSE
      BY <1>1, <2>1, <3>1 DEF Expects
    <3>3. m.tag # "session.answered-elsewhere"
      BY <1>2, <2>1
    <3>4. ~n.postAnswerSeen
      BY <1>4, <3>2, Zenon
    <3>5. Crossed(m, n)
      BY <3>3, <3>4 DEF Crossed
    <3> QED BY <1>1, <1>8, <2>1, <3>1, <3>5
  <2>2. k \in {"elsewhere", "withdraw"}
    BY <1>2
  <2>3. /\ k \notin Talk \cup {"error"} /\ k \notin {"answer", "reject", "bye"}
        /\ s.role = "responder" => k # "withdraw"
    BY <2>1, <2>2 DEF Talk
  <2>4. InvalidState(d, m, n, rest)
    BY <1>8
  <2>5. /\ s.role = "responder" => k # "withdraw" /\ (k = "bye" => s.state # "ACTIVE")
        /\ s.role = "initiator" => k \notin {"answer", "reject", "bye"}
    BY <2>3
  <2> QED BY <2>3, <2>4, <2>5, ObjectStep
<1> QED BY <1>5, <1>6, <1>7, <1>8

\* update.
LEMMA UpdateStep ==
  ASSUME CallsInv, NEW d \in Device, NEW m, NEW rest, NEW s, NEW n, NEW k, NEW u,
         Listening(d, m, rest, s, n, k, u), UNCHANGED drawn, m.type = "update",
         RecvUpdate(d, m, n, rest)
  PROVE  StepOf(d)
<1>1. /\ m.sid \in Sid /\ m \in Message /\ Hearing(d, m, rest, s, k, u)
      /\ s \in SessionRec /\ n \in SessionRec
      /\ s.state \notin {"NONE", "ENDED"} /\ Remains(s, n)
      /\ n.state = s.state /\ n.outstanding = s.outstanding
      /\ Expects(Owner[m.sid], d, s, k, u)
      /\ k \in Kind /\ u \in AnyUpdate /\ (k \notin {"update", "reply"} => u = 0)
      /\ m.from \in Party
  BY ListeningFacts
<1>2. k = "update" /\ u = m.upd /\ u \in UpdateId
  BY <1>1 DEF Hearing, Spells
<1>3. s.state = "ACTIVE" /\ s.outstanding.dir # "inbound" /\ k # "invite"
  <2>1. s.state = "ACTIVE"
    BY <1>1, <1>2, LiveExpects DEF Talk
  <2> QED BY <1>1, <1>2, <2>1 DEF Expects
<1>4. s.outstanding = NoUpdate \/ Renegotiating(s)
  <2>1. s.outstanding \in {NoUpdate} \cup [id : UpdateId, dir : {"outbound", "inbound"}]
    BY <1>1 DEF SessionRec
  <2> QED BY <1>3, <2>1 DEF Renegotiating
<1>5. PICK t : t = [n EXCEPT !.outstanding = Inbound(u)]
  OBVIOUS
<1>6. t.state = n.state /\ Kept(n, t) /\ t.outstanding = Inbound(u)
  BY <1>1, <1>5 DEF SessionRec, Kept
<1>7. Renegotiating(n) <=> Renegotiating(s)
  BY <1>1 DEF Renegotiating
<1>8. \/ /\ s.outstanding = NoUpdate \/ (Renegotiating(s) /\ ~(s.outstanding.id < u))
         /\ Session(d, m.sid, t) /\ up' = rest
      \/ /\ Renegotiating(s) /\ s.outstanding.id < u
         /\ Session(d, m.sid, n)
         /\ Emit(d, rest, <<Msg("reject", d, m.from, m.sid, "session.glare", u)>>)
  <2>1. CASE s.outstanding = NoUpdate
    <3>1. /\ ~Renegotiating(n) /\ n.outstanding.dir # "inbound" /\ n.state = "ACTIVE"
          /\ n.outstanding = NoUpdate
      BY <1>1, <1>3, <2>1 DEF Renegotiating, NoUpdate
    <3>2. Absorb(d, m, t, rest)
      BY <1>2, <1>5, <3>1, Zenon DEF RecvUpdate
    <3> QED BY <2>1, <3>2 DEF Absorb
  <2>2. CASE Renegotiating(s)
    <3>1. /\ Renegotiating(n) /\ n.outstanding.dir # "inbound" /\ n.state = "ACTIVE"
          /\ n.outstanding # NoUpdate
      BY <1>1, <1>3, <1>7, <2>2 DEF Renegotiating, NoUpdate
    <3>2. IF n.outstanding.id < m.upd
          THEN /\ Session(d, m.sid, n)
               /\ Emit(d, rest, <<Msg("reject", d, m.from, m.sid, "session.glare", m.upd)>>)
          ELSE Absorb(d, m, t, rest)
      <4>1. CASE n.outstanding.id < m.upd
        BY <3>1, <4>1, Zenon DEF RecvUpdate
      <4>2. CASE ~(n.outstanding.id < m.upd)
        BY <1>2, <1>5, <3>1, <4>2, Zenon DEF RecvUpdate
      <4> QED BY <4>1, <4>2
    <3>3. CASE n.outstanding.id < m.upd
      BY <1>1, <1>2, <2>2, <3>2, <3>3
    <3>4. CASE ~(n.outstanding.id < m.upd)
      BY <1>1, <1>2, <2>2, <3>2, <3>4 DEF Absorb
    <3> QED BY <3>3, <3>4
  <2> QED BY <1>4, <2>1, <2>2
<1>9. CASE /\ s.outstanding = NoUpdate \/ (Renegotiating(s) /\ ~(s.outstanding.id < u))
           /\ Session(d, m.sid, t) /\ up' = rest
  <2>1. Yields(s, t, k, u, "nothing")
    BY <1>2, <1>6, <1>9 DEF Yields
  <2>2. Renegotiates(d, s, t, k, u, "nothing", 0, drawn, drawn')
    BY <1>1, <1>3, <1>6, <2>1 DEF Renegotiates, Remains, Kept
  <2> QED BY <1>9, <2>2, QuietStep
<1>10. CASE /\ Renegotiating(s) /\ s.outstanding.id < u
            /\ Session(d, m.sid, n)
            /\ Emit(d, rest, <<Msg("reject", d, m.from, m.sid, "session.glare", u)>>)
  <2>1. PICK r, v : Spells("reject", "session.glare", u, r, v) /\ Out(d, rest, m.sid, r, v)
    <3>1. /\ "session.glare" \in Tag /\ "reject" \in MessageType /\ u \in UpdateId \cup {0}
      BY <1>2 DEF Tag, RejectReason, MessageType
    <3>2. Emit(d, rest, <<Msg("reject", d, m.from, m.sid, "session.glare", u)>>)
      BY <1>10
    <3> QED BY <1>1, <3>1, <3>2, SendsOne
  <2>2. r = "reply" /\ v = u /\ r \in Kind \cup {"nothing"}
    BY <1>2, <2>1, UpdateIds DEF Spells, Kind
  <2>3. Refuses(s, n, k, u, r, v)
    BY <1>1, <1>2, <1>10, <2>2 DEF Refuses
  <2>4. Renegotiates(d, s, n, k, u, r, v, drawn, drawn')
    BY <1>1, <1>3, <2>3 DEF Renegotiates, Remains
  <2>5. Turn(Owner[m.sid], d, Peer(d), s, n, k, u, r, v, drawn, drawn')
    BY <1>1, <1>2, <2>2, <2>4 DEF Turn
  <2> QED BY <1>1, <1>3, <1>10, <2>1, <2>5, StepOfHearing
<1> QED BY <1>8, <1>9, <1>10

\* info and bye.
LEMMA CloseStep ==
  ASSUME CallsInv, NEW d \in Device, NEW m, NEW rest, NEW s, NEW n, NEW k, NEW u,
         Listening(d, m, rest, s, n, k, u), UNCHANGED drawn,
         \/ m.type = "info" /\ RecvInfo(d, m, n, rest)
         \/ m.type = "bye" /\ RecvBye(d, m, n, rest)
  PROVE  StepOf(d)
<1>1. /\ Hearing(d, m, rest, s, k, u) /\ Remains(s, n) /\ n.state = s.state
      /\ s.state \notin {"NONE", "ENDED"} /\ Expects(Owner[m.sid], d, s, k, u)
  BY ListeningFacts
<1>2. (m.type = "info" => k = "info") /\ (m.type = "bye" => k = "bye")
  BY <1>1 DEF Hearing, Spells
<1>3. /\ s.role = "initiator" /\ k = "bye" => s.state = "ACTIVE"
      /\ k \in Talk => s.state = "ACTIVE"
  BY <1>1, LiveExpects
<1>4. CASE m.type = "info" /\ RecvInfo(d, m, n, rest)
  <2>1. k = "info" /\ s.state = "ACTIVE"
    BY <1>2, <1>3, <1>4 DEF Talk
  <2>2. Session(d, m.sid, n) /\ up' = rest
    BY <1>1, <1>4, <2>1 DEF RecvInfo, Absorb
  <2>3. Informs(s, n, k, "nothing")
    BY <1>1, <2>1 DEF Informs
  <2> QED BY <2>2, <2>3, QuietStep
<1>5. CASE m.type = "bye" /\ RecvBye(d, m, n, rest)
  <2>1. k = "bye"
    BY <1>2, <1>5
  <2>2. CASE s.state = "ACTIVE"
    <3>1. EndWithMedia(d, m.sid, n) /\ up' = rest
      BY <1>1, <1>5, <2>2 DEF RecvBye
    <3> QED BY <2>1, <2>2, <3>1, EndedStep
  <2>3. CASE s.state # "ACTIVE"
    <3>1. InvalidState(d, m, n, rest)
      BY <1>1, <1>5, <2>3 DEF RecvBye
    <3>2. s.role # "initiator"
      BY <1>3, <2>1, <2>3
    <3>3. k \notin Talk \cup {"error"}
      BY <2>1 DEF Talk
    <3> QED BY <2>1, <2>3, <3>1, <3>2, <3>3, ObjectStep
  <2> QED BY <2>2, <2>3
<1> QED BY <1>4, <1>5

\* Every attempt withdrawn for glare has exactly one cancel among them.
LEMMA WithdrawalsCover ==
  ASSUME NEW d, NEW R \in SUBSET Sid, NEW w \in Withdrawals(d, R)
  PROVE  /\ \A n \in DOMAIN w : w[n].sid \in R /\ w[n] = GlareCancel(d, w[n].sid)
         /\ \A i \in R : \E n \in DOMAIN w : w[n].sid = i
         /\ \A n, l \in DOMAIN w : w[n].sid = w[l].sid => n = l
<1>1. PICK N \in Nat : N = Cardinality(R) /\ IsFiniteSet(R)
  BY IdAssumption, FS_Subset, FS_CardinalityType
<1>2. /\ w \in [1 .. N -> {GlareCancel(d, i) : i \in R}] /\ DOMAIN w = 1 .. N
      /\ \A j, k \in DOMAIN w : j < k => w[j].sid < w[k].sid
  BY <1>1 DEF Withdrawals
<1>3. ASSUME NEW n \in DOMAIN w PROVE w[n].sid \in R /\ w[n] = GlareCancel(d, w[n].sid)
  <2>1. PICK i \in R : w[n] = GlareCancel(d, i)
    BY <1>2, <1>3
  <2>2. w[n].sid = i
    BY <2>1 DEF GlareCancel, Msg
  <2> QED BY <2>1, <2>2
<1>4. ASSUME NEW n \in DOMAIN w, NEW l \in DOMAIN w, w[n].sid = w[l].sid PROVE n = l
  <2>1. w[n].sid \in Int
    <3>1. w[n].sid \in Sid
      BY <1>3
    <3>2. \A i \in Sid : i \in Int
      BY IdAssumption
    <3> QED BY <3>1, <3>2, Zenon
  <2>2. n \in Int /\ l \in Int
    BY <1>2
  <2>3. ~(n < l) /\ ~(l < n)
    BY <1>2, <1>4, <2>1
  <2> QED BY <2>2, <2>3
<1>5. PICK f : f = [n \in 1 .. N |-> w[n].sid]
  OBVIOUS
<1>6. f \in Injection(1 .. N, R)
  BY <1>2, <1>3, <1>4, <1>5 DEF Injection, IsInjective
<1>7. Cardinality(1 .. N) = N
  BY FS_Interval
<1>8. f \in Surjection(1 .. N, R)
  BY <1>1, <1>6, <1>7, FS_Injection
<1>9. ASSUME NEW i \in R PROVE \E n \in DOMAIN w : w[n].sid = i
  <2>1. \E n \in 1 .. N : f[n] = i
    BY <1>8 DEF Surjection
  <2> QED BY <1>2, <1>5, <2>1
<1> QED BY <1>3, <1>4, <1>9

\* What an invite finds.
LEMMA InviteFinds ==
  ASSUME CallsInv, NEW d \in Device, NEW m, NEW rest, NEW s, NEW k, NEW u,
         Hearing(d, m, rest, s, k, u), m.type = "invite"
  PROVE  /\ m.sid \in Sid /\ m \in Message /\ m.from = Peer(d) /\ m.from \in Party
         /\ s = sess[d][m.sid] /\ s.state = "NONE" /\ k = "invite" /\ u = 0
         /\ Owner[m.sid] = Peer(d) /\ Owner[m.sid] # d
         /\ Reaches([to |-> sess[Owner[m.sid]][m.sid].inviteTo], d)
         /\ rest \in [Device -> Seq(Message)] /\ In(d, rest, m.sid, k, u)
         /\ k \in Kind /\ u \in AnyUpdate
<1>1. /\ m.sid \in Sid /\ m \in Message /\ m.from = Peer(d) /\ s = sess[d][m.sid]
      /\ Owner[m.sid] = Peer(d) /\ Reaches([to |-> sess[Owner[m.sid]][m.sid].inviteTo], d)
      /\ Expects(Owner[m.sid], d, s, k, u)
      /\ rest \in [Device -> Seq(Message)] /\ In(d, rest, m.sid, k, u)
      /\ k \in Kind /\ u \in AnyUpdate
  BY DEF Hearing
<1>2. k = "invite" /\ u = 0
  BY DEF Hearing, Spells
<1>3. s.state = "NONE" /\ Owner[m.sid] # d
  BY <1>1, <1>2 DEF Expects
<1> QED BY <1>1, <1>2, <1>3 DEF Message

\* The record of an invite that is taken up, or turned down at once.
LEMMA InvitedRecords ==
  ASSUME NEW m, NEW s, s.state = "NONE", NEW t, NEW r,
         \/ t = RefusedInvite(m) /\ r = "reject"
         \/ t = NewSession("responder", "OFFERED", m.from, m.to) /\ r = "nothing"
  PROVE  Invited(m.from, s, t, "invite", r)
<1>1. CASE t = RefusedInvite(m) /\ r = "reject"
  <2>1. t.role = "responder" /\ t.state = "ENDED" /\ t.peer = m.from /\ t.outstanding = NoUpdate
    BY <1>1 DEF RefusedInvite, Blank
  <2>2. t.postAnswerSeen = FALSE
    BY <1>1, Zenon DEF RefusedInvite, Blank
  <2> QED BY <1>1, <2>1, <2>2 DEF Invited
<1>2. CASE t = NewSession("responder", "OFFERED", m.from, m.to) /\ r = "nothing"
  <2>1. t.role = "responder" /\ t.state = "OFFERED" /\ t.peer = m.from /\ t.outstanding = NoUpdate
    BY <1>2 DEF NewSession, Blank
  <2>2. t.postAnswerSeen = FALSE
    BY <1>2, Zenon DEF NewSession, Blank
  <2> QED BY <1>2, <2>1, <2>2 DEF Invited
<1> QED BY <1>1, <1>2

\* An invite that meets no attempt of the device, or loses against one.
LEMMA InviteSimpleStep ==
  ASSUME CallsInv, NEW d \in Device, NEW m, NEW rest, NEW s, NEW k, NEW u,
         Hearing(d, m, rest, s, k, u), UNCHANGED drawn, m.type = "invite",
         \/ RecvInviteFirstContact(d, m, rest) \/ RecvInviteWeWin(d, m, rest)
         \/ RecvInviteOffered(d, m, rest)
  PROVE  StepOf(d)
<1>1. /\ m.sid \in Sid /\ m \in Message /\ m.from = Peer(d) /\ m.from \in Party
      /\ s = sess[d][m.sid] /\ s.state = "NONE" /\ k = "invite" /\ u = 0
      /\ Reaches([to |-> sess[Owner[m.sid]][m.sid].inviteTo], d)
      /\ rest \in [Device -> Seq(Message)] /\ k \in Kind /\ u \in AnyUpdate
  BY InviteFinds
<1>2. ASSUME NEW t, NEW r, NEW v, Session(d, m.sid, t), Out(d, rest, m.sid, r, v),
             Invited(m.from, s, t, "invite", r), r \in {"nothing", "reject"}, v = 0,
             t.state = "OFFERED" => Rivals(d, m) = {}
      PROVE  StepOf(d)
  <2>1. Welcome(d, m.sid, t)
    BY <1>1, <1>2 DEF Welcome, Rivals
  <2>2. r \in Kind \cup {"nothing"} /\ v \in AnyUpdate
    BY <1>1, <1>2 DEF Kind, MessageType
  <2>3. Turn(Owner[m.sid], d, Peer(d), s, t, k, u, r, v, drawn, drawn')
    BY <1>1, <1>2, <2>2 DEF Turn
  <2> QED BY <1>2, <2>1, <2>3, StepOfHearing
<1>3. ASSUME NEW reason \in {"policy.first-contact-required", "session.glare"},
             Session(d, m.sid, RefusedInvite(m)), Emit(d, rest, <<RejectInvite(d, m, reason)>>)
      PROVE  StepOf(d)
  <2>1. PICK t : t = RefusedInvite(m)
    OBVIOUS
  <2>2. PICK r, v : Spells("reject", reason, 0, r, v) /\ Out(d, rest, m.sid, r, v)
    <3>1. Emit(d, rest, <<Msg("reject", d, m.from, m.sid, reason, 0)>>)
      BY <1>3 DEF RejectInvite
    <3>2. "reject" \in MessageType /\ reason \in Tag /\ 0 \in UpdateId \cup {0}
      BY DEF MessageType, Tag, RejectReason
    <3> QED BY <1>1, <3>1, <3>2, SendsOne
  <2>3. r = "reject" /\ v = 0
    BY <2>2 DEF Spells
  <2>4. t.state # "OFFERED"
    BY <2>1 DEF RefusedInvite, Blank
  <2>5. Invited(m.from, s, t, "invite", r)
    BY <1>1, <2>1, <2>3, InvitedRecords
  <2> QED BY <1>2, <1>3, <2>1, <2>2, <2>3, <2>4, <2>5
<1>4. CASE RecvInviteFirstContact(d, m, rest) \/ RecvInviteWeWin(d, m, rest)
  BY <1>3, <1>4 DEF RecvInviteFirstContact, RecvInviteWeWin
<1>5. CASE RecvInviteOffered(d, m, rest)
  <2>1. PICK t : t = NewSession("responder", "OFFERED", m.from, m.to)
    OBVIOUS
  <2>2. Session(d, m.sid, t) /\ up' = rest /\ Rivals(d, m) = {}
    BY <1>5, <2>1 DEF RecvInviteOffered
  <2>3. Out(d, rest, m.sid, "nothing", 0)
    BY <1>1, <2>2, SendsNone
  <2>4. Invited(m.from, s, t, "invite", "nothing")
    BY <1>1, <2>1, InvitedRecords
  <2> QED BY <1>2, <2>2, <2>3, <2>4
<1> QED BY <1>4, <1>5

\* Glare lost: the attempts R are withdrawn and the invite is offered.
LEMMA LoseGlareStep ==
  ASSUME CallsInv, NEW d \in Device, NEW m, NEW rest, NEW s, NEW k, NEW u,
         Hearing(d, m, rest, s, k, u), UNCHANGED drawn, m.type = "invite",
         RecvInviteWeLose(d, m, rest)
  PROVE  StepOf(d)
<1>1. /\ m.sid \in Sid /\ m \in Message /\ m.from = Peer(d)
      /\ s = sess[d][m.sid] /\ s.state = "NONE" /\ k = "invite" /\ u = 0
      /\ Owner[m.sid] # d
      /\ Reaches([to |-> sess[Owner[m.sid]][m.sid].inviteTo], d)
      /\ rest \in [Device -> Seq(Message)] /\ In(d, rest, m.sid, k, u)
  BY InviteFinds
<1>2. TypeOK /\ EndpointInv /\ TwoDevices
  BY DEF CallsInv, EndpointInv
<1>3. PICK x \in Device : x = Peer(d) /\ x # d
  BY <1>2, PeerFacts
<1>4. PICK R \in SUBSET Sid : R = Rivals(d, m)
  BY DEF Rivals
<1>5. PICK t : t = NewSession("responder", "OFFERED", m.from, m.to)
  OBVIOUS
<1>6. /\ sess' = [sess EXCEPT ![d] = [LostGlare(d, R) EXCEPT ![m.sid] = t]]
      /\ \A i \in R : m.sid < i
  BY <1>4, <1>5 DEF RecvInviteWeLose
<1>7. PICK w \in Withdrawals(d, R) : Emit(d, rest, w)
  BY <1>4 DEF RecvInviteWeLose
<1>8. w \in Seq(Message)
  BY <1>1, <1>2, <1>4, <1>7, WithdrawalsType
<1>9. PICK C \in Seq(Message) : C = rest[d]
  BY <1>1
<1>10. PICK E : E = C \o w
  OBVIOUS
<1>11. up'[d] = E /\ up'[x] = rest[x]
  BY <1>1, <1>3, <1>7, <1>9, <1>10 DEF Emit
<1>12. /\ C = up[d]
       /\ Takes(m.sid, up[x], up'[x], k, u)
       /\ \A j \in Sid \ {m.sid} : Takes(j, up[x], up'[x], "nothing", 0)
       /\ \A n \in DOMAIN up'[x] : \E l \in DOMAIN up[x] : up'[x][n] = up[x][l]
  BY <1>1, <1>2, <1>3, <1>9, <1>11, InTakes
<1>13. ASSUME NEW j \in Sid
       PROVE  /\ j = m.sid => sess'[d][j] = t
              /\ j \in R => sess'[d][j] = [sess[d][j] EXCEPT !.state = "ENDED", !.cancelled = TRUE]
              /\ j # m.sid /\ j \notin R => sess'[d][j] = sess[d][j]
  <2>1. m.sid \notin R
    BY <1>1, <1>4 DEF Rivals, Inviting
  <2>2. sess'[d] = [LostGlare(d, R) EXCEPT ![m.sid] = t]
    BY <1>2, <1>6 DEF TypeOK
  <2> QED BY <1>1, <2>1, <2>2 DEF LostGlare
<1>14. sess'[x] = sess[x]
  BY <1>2, <1>3, <1>6 DEF TypeOK
<1>15. Invited(x, s, t, "invite", "nothing") /\ t.role = "responder" /\ t.state = "OFFERED"
  <2>1. Invited(m.from, s, t, "invite", "nothing")
    BY <1>1, <1>5, InvitedRecords
  <2> QED BY <1>1, <1>3, <2>1 DEF Invited
<1>16. /\ \A n \in DOMAIN w : w[n].sid \in R /\ w[n] = GlareCancel(d, w[n].sid)
       /\ \A i \in R : \E n \in DOMAIN w : w[n].sid = i
       /\ \A n, l \in DOMAIN w : w[n].sid = w[l].sid => n = l
  BY <1>7, WithdrawalsCover
<1>17. "withdraw" \in Kind /\ "invite" \in Kind /\ 0 \in AnyUpdate
  BY DEF Kind, MessageType, AnyUpdate
<1>18. ASSUME NEW j \in Sid, j \notin R PROVE Sends(j, C, E, "nothing", 0)
  <2>1. \A n \in DOMAIN w : w[n].sid # j
    BY <1>16, <1>18
  <2>2. Same(j, C, E)
    BY <1>8, <1>10, <2>1, ConcatSent
  <2> QED BY <2>2 DEF Sends
<1>19. ASSUME NEW j \in R PROVE Sends(j, C, E, "withdraw", 0)
  <2>1. PICK n \in DOMAIN w : w[n].sid = j /\ \A l \in DOMAIN w : w[l].sid = j => l = n
    BY <1>16
  <2>2. Sent(j, C, E, KindOf(w[n]), AboutOf(w[n]))
    <3>1. j \in Sid
      OBVIOUS
    <3> QED BY <1>8, <1>10, <2>1, <3>1, ConcatSent
  <2>3. w[n].type = "cancel" /\ w[n].tag = "session.glare"
    BY <1>16, <2>1 DEF GlareCancel, Msg
  <2>4. KindOf(w[n]) = "withdraw" /\ AboutOf(w[n]) = 0
    BY <2>3 DEF KindOf, AboutOf
  <2> QED BY <2>2, <2>4 DEF Sends
<1>20. ASSUME NEW j \in Sid PROVE SessionTurns(d, j)
  <2>1. CASE j = m.sid
    <3>1. j \notin R
      BY <1>1, <1>4, <2>1 DEF Rivals, Inviting
    <3>2. Turn(Owner[j], d, x, sess[d][j], sess'[d][j], k, u, "nothing", 0, drawn, drawn')
      BY <1>1, <1>13, <1>15, <1>17, <2>1 DEF Turn
    <3> QED BY <1>3, <1>11, <1>12, <1>18, <2>1, <3>1, <3>2 DEF SessionTurns
  <2>2. CASE j \in R
    <3>1. PICK p, q : p = sess[d][j] /\ q = sess'[d][j] /\ p \in SessionRec /\ p.state \in Inviting
      BY <1>2, <1>4, <2>2 DEF TypeOK, Rivals
    <3>2. q.state = "ENDED" /\ Kept(p, q)
      BY <1>13, <2>2, <3>1 DEF SessionRec, Kept
    <3>3. Withdraws(p, q, "nothing", "withdraw")
      BY <3>1, <3>2 DEF Withdraws
    <3>4. Turn(Owner[j], d, x, p, q, "nothing", 0, "withdraw", 0, drawn, drawn')
      BY <1>17, <3>3 DEF Turn
    <3>5. j # m.sid
      BY <1>1, <1>4, <2>2 DEF Rivals, Inviting
    <3> QED BY <1>3, <1>11, <1>12, <1>19, <2>2, <3>1, <3>4, <3>5 DEF SessionTurns
  <2>3. CASE j # m.sid /\ j \notin R
    <3>1. Turn(Owner[j], d, x, sess[d][j], sess'[d][j], "nothing", 0, "nothing", 0, drawn, drawn')
      BY <1>13, <1>17, <2>3 DEF Turn, Rests
    <3> QED BY <1>3, <1>11, <1>12, <1>18, <2>3, <3>1 DEF SessionTurns
  <2> QED BY <2>1, <2>2, <2>3
<1>21. ASSUME NEW n \in DOMAIN w PROVE Honest(d, w[n], sess'[d])
  <2>1. PICK j \in R : w[n] = GlareCancel(d, j)
    BY <1>16
  <2>2. w[n].from = d /\ w[n].type = "cancel" /\ w[n].tag = "session.glare" /\ w[n].sid = j
    BY <2>1 DEF GlareCancel, Msg
  <2>3. m.sid < w[n].sid
    BY <1>6, <2>2
  <2>4. sess'[d][m.sid].role = "responder"
    BY <1>1, <1>13, <1>15
  <2> QED BY <1>1, <2>2, <2>3, <2>4 DEF Honest
<1>22. ASSUME NEW n \in DOMAIN up'[d]
       PROVE  \/ n \in DOMAIN up[d] /\ up'[d][n] = up[d][n]
              \/ Honest(d, up'[d][n], sess'[d])
  <2>1. (n \in DOMAIN C /\ E[n] = C[n]) \/ \E l \in DOMAIN w : E[n] = w[l]
    BY <1>1, <1>8, <1>10, <1>11, <1>22, ConcatSent
  <2> QED BY <1>11, <1>12, <1>21, <2>1
<1>23. OffersAlone(d)
  <2> SUFFICES ASSUME NEW i \in Sid, NEW j \in Sid,
                      sess[d][j].role = "initiator", sess'[d][j].state \in Inviting
               PROVE  IdentityOf[sess[d][j].inviteTo] # IdentityOf[Peer(d)]
    BY DEF OffersAlone
  <2>1. j # m.sid
    BY <1>13, <1>15 DEF Inviting
  <2>2. j \notin R
    <3>1. ASSUME j \in R PROVE sess'[d][j].state = "ENDED"
      <4>1. PICK p, q : p = sess[d][j] /\ q = sess'[d][j] /\ p \in SessionRec
        BY <1>2 DEF TypeOK
      <4> QED BY <1>13, <3>1, <4>1 DEF SessionRec
    <3> QED BY <3>1 DEF Inviting
  <2>3. sess'[d][j] = sess[d][j]
    BY <1>13, <2>1, <2>2
  <2> QED BY <1>1, <1>4, <2>2, <2>3 DEF Rivals
<1>24. MeantFor(d)
  <2> SUFFICES ASSUME NEW i \in Sid, sess[d][i].state = "NONE", sess'[d][i].state # "NONE"
               PROVE  i = m.sid
    BY <1>1 DEF MeantFor
  <2>1. i \notin R
    BY <1>4 DEF Rivals, Inviting
  <2> QED BY <1>13, <2>1
<1>25. drawn \subseteq drawn' /\ drawn' \subseteq UpdateId
  BY DEF CallsInv
<1> QED BY <1>3, <1>12, <1>14, <1>20, <1>22, <1>23, <1>24, <1>25 DEF StepOf

-----------------------------------------------------------------------------
(* The invariant holds.                                                    *)

\* Whatever a device hears, it makes a step.
LEMMA HearingStep ==
  ASSUME CallsInv, NEW d \in Device, NEW m, NEW rest, NEW s, NEW k, NEW u,
         Hearing(d, m, rest, s, k, u), UNCHANGED drawn, Recv(d, m, rest)
  PROVE  StepOf(d) /\ EndpointInv'
<1>1. /\ m \in Message /\ m.sid \in Sid /\ s = sess[d][m.sid]
      /\ rest \in [Device -> Seq(Message)] /\ Spells(m.type, m.tag, m.upd, k, u)
      /\ Expects(Owner[m.sid], d, s, k, u) /\ (m.type = "update" => m.upd \in UpdateId)
  BY DEF Hearing
<1>2. m.type = "invite" <=> s.state = "NONE"
  <2>1. m.type = "invite" <=> k = "invite"
    <3>1. m.type \in MessageType
      BY <1>1 DEF Message
    <3> QED BY <1>1, <3>1 DEF Spells, MessageType
  <2> QED BY <1>1, <2>1 DEF Expects
<1>3. EndpointInv'
  BY <1>1, <1>2, RecvInv DEF CallsInv
<1>4. CASE m.type = "invite" /\ RecvInvite(d, m, rest)
  <2>1. s.state = "NONE"
    BY <1>2, <1>4
  <2>2. m.sid \notin Rivals(d, m)
    BY <1>1, <2>1 DEF Rivals, Inviting
  <2>3. \/ RecvInviteFirstContact(d, m, rest) \/ RecvInviteWeWin(d, m, rest)
        \/ RecvInviteOffered(d, m, rest) \/ RecvInviteWeLose(d, m, rest)
    BY <1>1, <1>4, <2>1, <2>2 DEF RecvInvite, RecvInviteHeld, RecvInviteEqual
  <2> QED BY <1>3, <1>4, <2>3, InviteSimpleStep, LoseGlareStep
<1>5. CASE RecvError(d, m, rest) \/ RecvEnded(d, m, rest)
  BY <1>3, <1>5, IgnoreStep
<1>6. CASE RecvUnknownSession(d, m, rest)
  BY <1>1, <1>2, <1>6 DEF RecvUnknownSession
<1>7. CASE RecvLive(d, m, rest)
  <2>1. PICK n : n = Noted(d, m)
    OBVIOUS
  <2>2. s \in SessionRec
    BY <1>1 DEF Expects
  <2>3. Remembers(m, s, n)
    BY <1>1, <2>1, <2>2, NotedRemembers
  <2>4. n.state \notin {"NONE", "ENDED"}
    BY <1>7, <2>1 DEF RecvLive
  <2>5. Listening(d, m, rest, s, n, k, u)
    BY <2>3, <2>4 DEF Listening, Remembers, Remains
  <2>6. \/ m.type = "progress" /\ RecvProgress(d, m, n, rest)
        \/ m.type = "answer" /\ RecvAnswer(d, m, n, rest)
        \/ m.type = "reject" /\ RecvReject(d, m, n, rest)
        \/ m.type = "cancel" /\ RecvCancel(d, m, n, rest)
        \/ m.type = "update" /\ RecvUpdate(d, m, n, rest)
        \/ m.type = "info" /\ RecvInfo(d, m, n, rest)
        \/ m.type = "bye" /\ RecvBye(d, m, n, rest)
    BY <1>7, <2>1 DEF RecvLive
  <2>7. CASE m.type = "progress" /\ RecvProgress(d, m, n, rest)
    BY <1>3, <2>5, <2>7, ProgressStep
  <2>8. CASE m.type = "answer" /\ RecvAnswer(d, m, n, rest)
    BY <1>3, <2>5, <2>8, AnswerStep
  <2>9. CASE m.type = "reject" /\ RecvReject(d, m, n, rest)
    BY <1>3, <2>5, <2>9, RejectStep
  <2>10. CASE m.type = "cancel" /\ RecvCancel(d, m, n, rest)
    BY <1>3, <2>5, <2>10, CancelStep
  <2>11. CASE m.type = "update" /\ RecvUpdate(d, m, n, rest)
    BY <1>3, <2>5, <2>11, UpdateStep
  <2>12. CASE \/ m.type = "info" /\ RecvInfo(d, m, n, rest)
              \/ m.type = "bye" /\ RecvBye(d, m, n, rest)
    BY <1>3, <2>5, <2>12, CloseStep
  <2> QED BY <2>6, <2>7, <2>8, <2>9, <2>10, <2>11, <2>12
<1> QED
  BY <1>4, <1>5, <1>6, <1>7 DEF Recv, RecvInvite

\* The clock, and a step that changes nothing, is a step of any device.
LEMMA IdleStep ==
  ASSUME CallsInv, NEW d \in Device, UNCHANGED <<sess, up, drawn>>
  PROVE  StepOf(d)
<1>1. \A j, C : Same(j, C, C)
  BY DEF Same, Less
<1>2. ASSUME NEW j \in Sid PROVE SessionTurns(d, j)
  <2>1. Turn(Owner[j], d, Peer(d), sess[d][j], sess'[d][j], "nothing", 0, "nothing", 0, drawn, drawn')
    BY DEF Turn, Rests, AnyUpdate
  <2>2. /\ Takes(j, up[Peer(d)], up'[Peer(d)], "nothing", 0)
        /\ Sends(j, up[d], up'[d], "nothing", 0)
    BY <1>1 DEF Takes, Sends
  <2> QED BY <2>1, <2>2 DEF SessionTurns
<1>3. OffersAlone(d)
  BY DEF OffersAlone
<1>4. MeantFor(d)
  BY DEF MeantFor
<1> QED BY <1>2, <1>3, <1>4 DEF StepOf, CallsInv

\* Every step of the two is one of either.
LEMMA StepTaken ==
  ASSUME CallsInv, [CallNext]_callVars
  PROVE  EndpointInv' /\ \E d \in Device : StepOf(d)
<1>1. /\ EndpointInv /\ TwoDevices /\ up \in [Device -> Seq(Message)]
  BY DEF CallsInv, EndpointInv, TypeOK
<1>2. PICK e \in Device : TRUE
  BY <1>1 DEF TwoDevices
<1>3. CASE UNCHANGED callVars
  <2>1. EndpointInv'
    BY <1>1, <1>3, NoSessionInv DEF callVars, vars, EndpointInv, TypeOK
  <2>2. StepOf(e)
    BY <1>3, IdleStep DEF callVars, vars
  <2> QED BY <2>1, <2>2
<1>4. ASSUME NEW x \in Device, NEW d \in Device, Deliver(x, d)
      PROVE  EndpointInv' /\ StepOf(d)
  <2>1. PICK m, rest, s, k, u : Hearing(d, m, rest, s, k, u) /\ Recv(d, m, rest)
    BY <1>4, Delivered
  <2>2. UNCHANGED drawn
    BY <1>4 DEF Deliver
  <2> QED BY <2>1, <2>2, HearingStep
<1>5. ASSUME NEW d \in Device, NEW i \in Sid,
             \/ Place(d, i) \/ Decide(d, i) \/ User(d, i) \/ Settle(d, i) \/ Expiry(d, i)
             \/ \E u \in UpdateId : Offer(d, i, u)
      PROVE  EndpointInv' /\ StepOf(d)
  BY <1>5, PlaceStep, LocalStep, SettleStep, OfferStep
<1>6. ASSUME NEW i \in Sid, InviteLapses(i)
      PROVE  EndpointInv' /\ StepOf(e)
  <2>1. EndpointInv'
    BY <1>1, <1>6, LapseInv DEF InviteLapses
  <2>2. UNCHANGED <<sess, up, drawn>>
    BY <1>6 DEF InviteLapses, Lapse
  <2> QED BY <2>1, <2>2, IdleStep
<1> QED
  BY <1>3, <1>4, <1>5, <1>6 DEF CallNext

\* Before anything has happened the two agree.
LEMMA CallsBegin == ASSUME TwoDevices, CallInit PROVE CallsInv /\ GlareSettles
<1>1. EndpointInv /\ drawn = {}
  BY EndpointInitInv DEF CallInit
<1>2. ASSUME NEW d \in Device
      PROVE  up[d] = <<>> /\ \A i \in Sid : sess[d][i] = Blank
  BY DEF CallInit, Init
<1>3. ASSUME NEW i, NEW k, NEW u PROVE ~Has(<<>>, i, k, u)
  BY DEF Has
<1>4. PICK p : p = Blank
  OBVIOUS
<1>5. p.state = "NONE" /\ p.outstanding = NoUpdate
  BY <1>4 DEF Blank
<1>6. p.wasActive = FALSE /\ p.postAnswerSeen = FALSE
  BY <1>4, Zenon DEF Blank
<1>7. ASSUME NEW i \in Sid PROVE CallOf(i)
  <2>1. PICK a, b : a = Owner[i] /\ b = Peer(a)
    OBVIOUS
  <2>2. a \in Device /\ b \in Device
    BY <2>1, OwnerAssumption, PeerFacts
  <2>3. PICK C : C = <<>>
    OBVIOUS
  <2>4. \A k, u : ~Has(C, i, k, u)
    BY <1>3, <2>3
  <2>5. \A k, u : /\ Once(C, i, k, u)
                  /\ \A g, h : Before(C, i, k, u, g, h)
    BY <2>3 DEF Once, Before
  <2>6. CallAgrees(i, a, b, p, p, C, C)
    <3>1. Standing(i, p, p, C, C)
      BY <1>5, <2>4 DEF Standing, Unheard, Idle
    <3>2. CallerSide(i, p, p, C)
      <4>1. Unspoken(C, i)
        BY <2>4 DEF Unspoken
      <4> QED BY <1>5, <1>6, <2>4, <4>1, Zenon DEF CallerSide
    <3>3. CalleeSide(i, a, p, p, C)
      BY <1>5, <2>4, <2>5 DEF CalleeSide, Carries, NoTalk, AnswerFirst
    <3> QED BY <1>5, <3>1, <3>2, <3>3 DEF CallAgrees
  <2>7. \A x : Half(i, x, NoUpdate, NoUpdate, C, C, {})
    BY <2>4, <2>5, PendingFacts DEF Half, SentOnce, GivenUpLoses
  <2>8. UpdatesAgree(i, a, b, p, p, C, C, drawn)
    BY <1>1, <1>5, <2>7, PendingFacts DEF UpdatesAgree
  <2> QED BY <1>2, <1>4, <2>1, <2>2, <2>3, <2>6, <2>8 DEF CallOf
<1>8. AllHonest
  BY <1>2 DEF AllHonest
<1>9. Meant /\ GlareSettles
  BY <1>2, <1>4, <1>5, OwnerAssumption DEF Meant, GlareSettles, Inviting
<1> QED BY <1>1, <1>7, <1>8, <1>9 DEF CallsInv

\* Every step preserves the invariant, and what glare settles.
LEMMA CallsNextInv ==
  ASSUME CallsInv, [CallNext]_callVars
  PROVE  CallsInv' /\ (IdentitiesSettled /\ GlareSettles => GlareSettles')
<1>1. PICK d \in Device : StepOf(d) /\ EndpointInv'
  BY StepTaken
<1>2. \A i \in Sid : CallOf(i)'
  BY <1>1, StepKeepsCall
<1>3. AllHonest' /\ Meant'
  BY <1>1, StepKeepsHonest, StepKeepsMeant
<1>4. drawn' \subseteq UpdateId
  BY <1>1 DEF StepOf
<1>5. IdentitiesSettled /\ GlareSettles => GlareSettles'
  BY <1>1, StepKeepsSettled
<1> QED BY <1>1, <1>2, <1>3, <1>4, <1>5 DEF CallsInv, TwoDevices

\* What the invariant says when nothing is in transit.
LEMMA RestAgrees ==
  ASSUME CallsInv, AtRest, NEW i \in Sid, NEW a \in Device, a = Owner[i], NEW b \in Device \ {a},
         NEW p, p = sess[a][i], NEW q, q = sess[b][i]
  PROVE  /\ p.state = "ACTIVE" <=> q.state = "ACTIVE"
         /\ p.state \in Inviting <=> q.state \in {"OFFERED", "ALERTING"}
         /\ p.state = "ACTIVE" => p.peer = b /\ q.peer = a
         /\ (p.outstanding = NoUpdate) <=> (q.outstanding = NoUpdate)
         /\ p.outstanding # NoUpdate =>
              p.outstanding.id = q.outstanding.id /\ p.outstanding.dir # q.outstanding.dir
<1>1. b = Peer(a) /\ up[a] = <<>> /\ up[b] = <<>>
  BY PeerFacts DEF CallsInv, AtRest
<1>2. PICK C : C = <<>>
  OBVIOUS
<1>3. \A k, u : ~Has(C, i, k, u)
  BY <1>2 DEF Has
<1>4. CallAgrees(i, a, b, p, q, C, C) /\ UpdatesAgree(i, a, b, p, q, C, C, drawn)
  BY <1>1, <1>2 DEF CallsInv, CallOf
<1>5. Coherent(p) /\ Coherent(q) /\ p \in SessionRec /\ q \in SessionRec
  BY SessionFacts DEF CallsInv
<1>6. "invite" \in Kind /\ 0 \in AnyUpdate
  BY DEF Kind, MessageType, AnyUpdate
<1>7. q.state \notin Inviting
  BY <1>4, <1>5 DEF CallAgrees, CalleeSide, Coherent, Inviting
<1>8. /\ q.state = "NONE" => p.state = "NONE"
      /\ q.state \in {"OFFERED", "ALERTING"} => p.state \in Inviting
      /\ q.state = "ACTIVE" => p.state = "ACTIVE"
      /\ q.state = "ENDED" => p.state = "ENDED"
  BY <1>3, <1>4 DEF CallAgrees, Standing, Unheard, Undecided, Answered, Over, Carries
<1>9. q.state \in {"NONE", "OFFERED", "ALERTING", "ACTIVE", "ENDED"}
  BY <1>5, <1>7 DEF SessionRec, Inviting
<1>10. /\ p.state = "ACTIVE" <=> q.state = "ACTIVE"
       /\ p.state \in Inviting <=> q.state \in {"OFFERED", "ALERTING"}
  BY <1>8, <1>9 DEF Inviting
<1>11. p.state = "ACTIVE" => p.peer = b /\ q.peer = a
  BY <1>4, <1>10 DEF CallAgrees, CalleeSide
<1>12. CASE p.state # "ACTIVE"
  <2>1. p.outstanding = NoUpdate /\ q.outstanding = NoUpdate
    BY <1>5, <1>10, <1>12 DEF Coherent
  <2> QED BY <1>10, <1>11, <2>1
<1>13. CASE p.state = "ACTIVE"
  <2>1. /\ Awaited(i, p.outstanding, q.outstanding, C, C)
        /\ Awaited(i, q.outstanding, p.outstanding, C, C)
    BY <1>4, <1>10, <1>13 DEF UpdatesAgree
  <2>2. PICK o \in Pending, w \in Pending :
          /\ o = p.outstanding /\ w = q.outstanding
          /\ Half(i, a, o, w, C, C, drawn) /\ Half(i, b, w, o, C, C, drawn)
    BY <1>4, <1>10, <1>13 DEF UpdatesAgree
  <2>3. \A u \in UpdateId : (o = Outbound(u) <=> w = Inbound(u)) /\ (w = Outbound(u) <=> o = Inbound(u))
    BY <1>3, <2>1, <2>2 DEF Awaited, Half, SentOnce
  <2>4. /\ (o = NoUpdate) <=> (w = NoUpdate)
        /\ o # NoUpdate => o.id = w.id /\ o.dir # w.dir
    <3>1. CASE \E u \in UpdateId : o = Outbound(u) \/ w = Inbound(u)
      <4>1. PICK u \in UpdateId : o = Outbound(u) /\ w = Inbound(u)
        BY <2>3, <3>1
      <4>2. o.id = u /\ o.dir = "outbound" /\ w.id = u /\ w.dir = "inbound"
        BY <4>1 DEF Outbound, Inbound
      <4> QED BY <4>2 DEF NoUpdate
    <3>2. CASE \E u \in UpdateId : w = Outbound(u) \/ o = Inbound(u)
      <4>1. PICK u \in UpdateId : w = Outbound(u) /\ o = Inbound(u)
        BY <2>3, <3>2
      <4>2. w.id = u /\ w.dir = "outbound" /\ o.id = u /\ o.dir = "inbound"
        BY <4>1 DEF Outbound, Inbound
      <4> QED BY <4>2 DEF NoUpdate
    <3>3. CASE o = NoUpdate /\ w = NoUpdate
      BY <3>3
    <3> QED BY <3>1, <3>2, <3>3, PendingFacts
  <2> QED BY <1>10, <1>11, <2>2, <2>4
<1> QED BY <1>12, <1>13

-----------------------------------------------------------------------------
(* Theorems.                                                               *)

\* Of any number of calls and updates between two devices, whatever crosses
\* whatever on the two connections, the invariant holds in every state.
THEOREM CallsInvariant == TwoDevices => (CallSpec => []CallsInv)
<1> SUFFICES ASSUME TwoDevices PROVE CallSpec => []CallsInv
  OBVIOUS
<1>1. CallInit => CallsInv
  BY CallsBegin
<1>2. CallsInv /\ [CallNext]_callVars => CallsInv'
  BY CallsNextInv
<1> QED BY <1>1, <1>2, PTL DEF CallSpec

\* Once nothing is in transit caller and callee agree on every call: no
\* crossing of cancel, answer, reject, bye and timeouts (recv_answer,
\* recv_cancel, recv_ended, fire) leaves one side in a call the other is not in.
THEOREM CallsAgree == TwoDevices => (CallSpec => []CallsAgreeAtRest)
<1> SUFFICES ASSUME TwoDevices PROVE CallSpec => []CallsAgreeAtRest
  OBVIOUS
<1>1. CallsInv => CallsAgreeAtRest
  <2> SUFFICES ASSUME CallsInv, AtRest, NEW i \in Sid, NEW d \in Device \ {Owner[i]}
               PROVE  LET c == sess[Owner[i]][i]
                          s == sess[d][i]
                      IN  /\ c.state = "ACTIVE" <=> s.state = "ACTIVE"
                          /\ c.state \in Inviting <=> s.state \in {"OFFERED", "ALERTING"}
                          /\ c.state = "ACTIVE" => c.peer = d /\ s.peer = Owner[i]
    BY DEF CallsAgreeAtRest
  <2>1. Owner[i] \in Device
    BY OwnerAssumption
  <2> QED BY <2>1, RestAgrees
<1>2. CallSpec => []CallsInv
  BY CallsInvariant
<1> QED BY <1>1, <1>2, PTL

\* Once nothing is in transit both ends see the same pending update or none:
\* the glare rule of recv_update leaves no update waited for in vain.
THEOREM UpdatesAgreed == TwoDevices => (CallSpec => []UpdatesAgreeAtRest)
<1> SUFFICES ASSUME TwoDevices PROVE CallSpec => []UpdatesAgreeAtRest
  OBVIOUS
<1>1. CallsInv => UpdatesAgreeAtRest
  <2> SUFFICES ASSUME CallsInv, AtRest, NEW i \in Sid, NEW d \in Device \ {Owner[i]}
               PROVE  LET p == sess[Owner[i]][i].outstanding
                          q == sess[d][i].outstanding
                      IN  /\ (p = NoUpdate) <=> (q = NoUpdate)
                          /\ p # NoUpdate => p.id = q.id /\ p.dir # q.dir
    BY DEF UpdatesAgreeAtRest
  <2>1. Owner[i] \in Device
    BY OwnerAssumption
  <2> QED BY <2>1, RestAgrees
<1>2. CallSpec => []CallsInv
  BY CallsInvariant
<1> QED BY <1>1, <1>2, PTL

\* Between two devices that follow the rules nobody is ever told that a second
\* update arrived while one was pending (the last branch of recv_update).
THEOREM UpdatesNeverCollide == TwoDevices => (CallSpec => []NoFalseUpdatePending)
<1> SUFFICES ASSUME TwoDevices PROVE CallSpec => []NoFalseUpdatePending
  OBVIOUS
<1>1. CallsInv => NoFalseUpdatePending
  BY DEF CallsInv, AllHonest, Honest, NoFalseUpdatePending
<1>2. CallSpec => []CallsInv
  BY CallsInvariant
<1> QED BY <1>1, <1>2, PTL

\* Glare converges, on the smaller id: once nothing is in transit two identities
\* never have attempts open in both directions, and who withdraws one for glare
\* has met a smaller one of the other side (recv_invite).
THEOREM GlareSettled ==
  TwoDevices /\ IdentitiesSettled => (CallSpec => []GlareConverges)
<1> SUFFICES ASSUME TwoDevices, IdentitiesSettled PROVE CallSpec => []GlareConverges
  OBVIOUS
<1>1. CallInit => CallsInv /\ GlareSettles
  BY CallsBegin
<1>2. CallsInv /\ GlareSettles /\ [CallNext]_callVars => CallsInv' /\ GlareSettles'
  BY CallsNextInv
<1>3. CallsInv /\ GlareSettles => GlareConverges
  <2> SUFFICES ASSUME CallsInv, GlareSettles PROVE GlareConverges
    OBVIOUS
  <2>1. ASSUME AtRest, NEW i \in Sid, NEW j \in Sid, Owner[i] # Owner[j],
               sess[Owner[i]][i].state \in Inviting, sess[Owner[j]][j].state \in Inviting
        PROVE  FALSE
    <3>1. PICK a \in Device, b \in Device : a = Owner[i] /\ b = Owner[j]
      BY OwnerAssumption
    <3>2. sess[b][i].state \in {"OFFERED", "ALERTING"} /\ sess[a][j].state \in {"OFFERED", "ALERTING"}
      BY <2>1, <3>1, RestAgrees
    <3> QED BY <2>1, <3>1, <3>2 DEF GlareSettles
  <2>2. ASSUME NEW d \in Device, NEW k \in DOMAIN up[d],
               up[d][k].type = "cancel", up[d][k].tag = "session.glare"
        PROVE  \E j \in Sid : j < up[d][k].sid /\ Owner[j] # d /\ sess[d][j].role = "responder"
    BY <2>2 DEF CallsInv, AllHonest, Honest
  <2> QED BY <2>1, <2>2 DEF GlareConverges
<1> QED BY <1>1, <1>2, <1>3, PTL DEF CallSpec
=============================================================================
