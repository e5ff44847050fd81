----------------------------- MODULE RelayProofs -----------------------------
(***************************************************************************)
(* Proofs about Relay: any devices, identities and sessions, an inbox of   *)
(* any length.                                                             *)
(***************************************************************************)
EXTENDS Relay, LeastNumber, SequenceTheorems, TLAPS

-----------------------------------------------------------------------------
(* What is left of a sequence (Only).                                      *)

\* g is the function Only defines, up to position N.
KeepsTo(q, K, N, g) ==
  g = [n \in 0 .. N |->
         IF n = 0 THEN <<>> ELSE IF n \in K THEN Append(g[n - 1], q[n]) ELSE g[n - 1]]

LEMMA KeepsExists == ASSUME NEW q, NEW K, NEW N \in Nat PROVE \E g : KeepsTo(q, K, N, g)
<1> DEFINE Bad == {n \in Nat : ~ \E g : KeepsTo(q, K, n, g)}
<1> SUFFICES ASSUME Bad # {} PROVE FALSE
  OBVIOUS
<1>1. PICK n \in Bad : \A m \in Bad : n <= m
  BY Least
<1>2. CASE n = 0
  <2>1. KeepsTo(q, K, 0, [m \in 0 .. 0 |-> <<>>])
    BY DEF KeepsTo
  <2> QED BY <1>1, <1>2, <2>1
<1>3. CASE n # 0
  <2>1. n - 1 \in Nat /\ n - 1 \notin Bad
    BY <1>1, <1>3
  <2>2. PICK g : KeepsTo(q, K, n - 1, g)
    BY <2>1
  <2> DEFINE last == IF n \in K THEN Append(g[n - 1], q[n]) ELSE g[n - 1]
             h == [m \in 0 .. n |-> IF m < n THEN g[m] ELSE last]
  <2>3. \A m \in 0 .. n : h[m] = IF m < n THEN g[m] ELSE last
    OBVIOUS
  <2>4. \A m \in 0 .. n - 1 :
          g[m] = IF m = 0 THEN <<>> ELSE IF m \in K THEN Append(g[m - 1], q[m]) ELSE g[m - 1]
    BY <2>2 DEF KeepsTo
  <2>5. ASSUME NEW m \in 0 .. n
        PROVE  h[m] = IF m = 0 THEN <<>> ELSE IF m \in K THEN Append(h[m - 1], q[m]) ELSE h[m - 1]
    <3> HIDE DEF h
    <3>1. CASE m = n
      BY <1>3, <2>1, <2>3, <3>1
    <3>2. CASE m < n
      BY <1>3, <2>1, <2>3, <2>4, <3>2
    <3> QED BY <3>1, <3>2, <2>1
  <2>6. KeepsTo(q, K, n, h)
    BY <2>5 DEF KeepsTo
  <2> QED BY <1>1, <2>6
<1> QED BY <1>2, <1>3

LEMMA OnlyUnfolds ==
  ASSUME NEW q, NEW K, Len(q) \in Nat
  PROVE  \E g : KeepsTo(q, K, Len(q), g) /\ Only(q, K) = g[Len(q)]
<1> DEFINE g == CHOOSE f : KeepsTo(q, K, Len(q), f)
<1>1. KeepsTo(q, K, Len(q), g)
  <2>1. \E f : KeepsTo(q, K, Len(q), f)
    BY KeepsExists
  <2> QED BY Zenon, <2>1
<1>2. Only(q, K) = g[Len(q)]
  BY Zenon DEF Only, KeepsTo
<1> QED BY <1>1, <1>2

\* Only(q, K) is a sequence of members of q at positions in K.
LEMMA OnlyMembers ==
  ASSUME NEW M, NEW q \in Seq(M), NEW K \in SUBSET (1 .. Len(q))
  PROVE  /\ Only(q, K) \in Seq(M)
         /\ \A j \in 1 .. Len(Only(q, K)) : \E k \in K : Only(q, K)[j] = q[k]
<1> DEFINE Fine(s) == s \in Seq(M) /\ \A j \in 1 .. Len(s) : \E k \in K : s[j] = q[k]
<1>1. PICK g : KeepsTo(q, K, Len(q), g) /\ Only(q, K) = g[Len(q)]
  BY OnlyUnfolds
<1>2. \A n \in 0 .. Len(q) :
        g[n] = IF n = 0 THEN <<>> ELSE IF n \in K THEN Append(g[n - 1], q[n]) ELSE g[n - 1]
  BY <1>1 DEF KeepsTo
<1> DEFINE Bad == {n \in 0 .. Len(q) : ~Fine(g[n])}
<1>3. ASSUME Bad # {} PROVE FALSE
  <2>1. PICK n \in Bad : \A m \in Bad : n <= m
    <3>1. Bad \subseteq Nat
      OBVIOUS
    <3> QED BY <1>3, <3>1, Least
  <2>2. n \in 0 .. Len(q) /\ ~Fine(g[n])
    BY <2>1
  <2> HIDE DEF Fine
  <2>3. n # 0
    <3>1. Fine(<<>>)
      BY EmptySeq DEF Fine
    <3> QED BY <1>2, <2>2, <3>1
  <2>4. n - 1 \in 0 .. Len(q) /\ Fine(g[n - 1])
    BY <2>1, <2>2, <2>3
  <2>5. CASE n \in K
    <3>1. q[n] \in M
      BY <2>2, <2>3
    <3>2. g[n] = Append(g[n - 1], q[n])
      BY ONLY <1>2, <2>2, <2>3, <2>5
    <3>3. g[n - 1] \in Seq(M)
      BY <2>4 DEF Fine
    <3>4. /\ g[n] \in Seq(M) /\ Len(g[n]) = Len(g[n - 1]) + 1 /\ Len(g[n - 1]) \in Nat
          /\ g[n][Len(g[n - 1]) + 1] = q[n]
          /\ \A j \in 1 .. Len(g[n - 1]) : g[n][j] = g[n - 1][j]
      BY ONLY <3>1, <3>2, <3>3, AppendProperties, LenProperties
    <3>5. ASSUME NEW j \in 1 .. Len(g[n]) PROVE \E k \in K : g[n][j] = q[k]
      <4>1. CASE j = Len(g[n - 1]) + 1
        BY <2>5, <3>4, <4>1
      <4>2. CASE j \in 1 .. Len(g[n - 1])
        BY <2>4, <3>4, <4>2 DEF Fine
      <4> QED BY <3>4, <4>1, <4>2
    <3>6. Fine(g[n])
      BY <3>4, <3>5 DEF Fine
    <3> QED BY <2>2, <3>6
  <2>6. CASE n \notin K
    BY ONLY <1>2, <2>2, <2>3, <2>4, <2>6
  <2> QED BY <2>5, <2>6
<1>4. Len(q) \in 0 .. Len(q)
  BY LenProperties
<1> QED BY <1>1, <1>3, <1>4

-----------------------------------------------------------------------------
(* The invariant.                                                          *)

RelayTypes ==
  /\ bound \subseteq Device
  /\ known \subseteq Party
  /\ attempts \in [Sid -> AttemptRec]
  /\ inbox \in Seq(RelayMessage)
  /\ lapsed \subseteq Sid

\* An attempt's legs and rejects account for its outcome.
Accounted(a) ==
  /\ a.outcome = "none" => \A d \in Device : a.legs[d] # "answered"
  /\ a.outcome = "answered" => \E d \in Device : a.legs[d] = "answered"
  /\ a.outcome \in {"rejected", "cancelled", "no-response"} =>
       \A d \in Device : a.legs[d] \notin {"delivered", "answered"}
  /\ a.outcome = "no-response" => a.rejects = <<>>

Sound(a) ==
  /\ Accounted(a)
  /\ a.initiator # Nobody /\ a.outcome = "none" => Outstanding(a) # {}
  /\ a.initiator = Nobody => a = NoAttempt

IsInvite(k) == inbox[k].type = "invite"

\* A held envelope waits for somebody offline; a held invite is a valid one
\* the relay has no attempt for, and there is one of it.
InboxSound ==
  /\ \A k \in 1 .. Len(inbox) :
       /\ LegsFor(inbox[k].to) = {}
       /\ inbox[k].type = "introduction" \/ inbox[k].to \in known
       /\ IsInvite(k) => inbox[k].sid \notin lapsed /\ ~Held(inbox[k].sid)
  /\ \A j, k \in 1 .. Len(inbox) :
       IsInvite(j) /\ IsInvite(k) /\ inbox[j].sid = inbox[k].sid => inbox[j].to = inbox[k].to

LapsedSound == \A i \in lapsed : Outstanding(attempts[i]) \subseteq attempts[i].heard

RelayInv ==
  /\ RelayTypes
  /\ \A i \in Sid : Sound(attempts[i])
  /\ InboxSound
  /\ LapsedSound

\* A decided attempt keeps its outcome as long as it is held.
OutcomesKept ==
  \A i \in Sid : attempts[i].outcome # "none" =>
     attempts'[i].outcome = attempts[i].outcome \/ attempts'[i] = NoAttempt

-----------------------------------------------------------------------------
LEMMA NoAttemptSound == NoAttempt \in AttemptRec /\ Sound(NoAttempt) /\ Outstanding(NoAttempt) = {}
<1>1. NoAttempt \in AttemptRec
  BY EmptySeq DEF NoAttempt, AttemptRec, LegState, Outcome
<1> QED BY <1>1 DEF NoAttempt, Sound, Accounted, Outstanding

LEMMA MessageFields ==
  ASSUME NEW m \in RelayMessage
  PROVE  m.sid \in Sid /\ m.from \in Party /\ m.to \in Party
  BY DEF RelayMessage

LEMMA InInbox ==
  ASSUME RelayTypes
  PROVE  \A k \in 1 .. Len(inbox) : inbox[k] \in RelayMessage
  BY DEF RelayTypes

LEMMA RelayInitInv == RelayInit => RelayInv
<1> SUFFICES ASSUME RelayInit PROVE RelayInv
  OBVIOUS
<1>1. RelayTypes /\ InboxSound
  BY NoAttemptSound, EmptySeq DEF RelayInit, RelayTypes, InboxSound
<1> QED BY <1>1, NoAttemptSound DEF RelayInit, RelayInv, LapsedSound

\* One attempt gets another record, and the relay's other state stays.
LEMMA OneAttempt ==
  ASSUME RelayInv, NEW i \in Sid, NEW b \in AttemptRec,
         attempts' = [attempts EXCEPT ![i] = b],
         UNCHANGED <<bound, known, inbox, lapsed>>,
         Sound(b),
         b.initiator # Nobody =>
            \A k \in 1 .. Len(inbox) : ~(IsInvite(k) /\ inbox[k].sid = i),
         i \in lapsed => Outstanding(b) \subseteq b.heard,
         attempts[i].outcome # "none" => b.outcome = attempts[i].outcome \/ b = NoAttempt
  PROVE  RelayInv' /\ OutcomesKept
<1>1. /\ RelayTypes /\ attempts'[i] = b
      /\ \A j \in Sid \ {i} : attempts'[j] = attempts[j]
  BY DEF RelayInv, RelayTypes
<1>2. RelayTypes'
  BY <1>1 DEF RelayTypes
<1>3. \A j \in Sid : Sound(attempts'[j])
  BY <1>1 DEF RelayInv
<1>4. \A k \in 1 .. Len(inbox) : inbox[k].sid \in Sid
  BY <1>1, InInbox, MessageFields
<1>5. InboxSound'
  <2>1. ASSUME NEW k \in 1 .. Len(inbox), IsInvite(k)
        PROVE  attempts'[inbox[k].sid].initiator = Nobody
    BY <1>1, <1>4, <2>1 DEF RelayInv, InboxSound, Held
  <2> QED BY <2>1 DEF RelayInv, InboxSound, IsInvite, Held, LegsFor
<1>6. LapsedSound'
  BY <1>1 DEF RelayInv, LapsedSound, RelayTypes
<1>7. OutcomesKept
  BY <1>1 DEF OutcomesKept
<1> QED BY <1>2, <1>3, <1>5, <1>6, <1>7 DEF RelayInv, Sound, Accounted, Outstanding

\* An attempt held already: no invite of it waits in the inbox.
LEMMA HeldIsNotQueued ==
  ASSUME RelayInv, NEW i \in Sid, Held(i)
  PROVE  /\ attempts[i] \in AttemptRec /\ Sound(attempts[i]) /\ attempts[i].initiator # Nobody
         /\ i \in lapsed => Outstanding(attempts[i]) \subseteq attempts[i].heard
         /\ \A k \in 1 .. Len(inbox) : ~(IsInvite(k) /\ inbox[k].sid = i)
  BY DEF RelayInv, RelayTypes, LapsedSound, InboxSound, Held

\* The inbox gets smaller, and nothing else changes.
LEMMA InboxShrinks ==
  ASSUME RelayInv, NEW K, TakeOut(K), UNCHANGED <<bound, known, attempts, lapsed>>
  PROVE  RelayInv' /\ OutcomesKept
<1>1. RelayTypes /\ 1 .. Len(inbox) = DOMAIN inbox
  BY DEF RelayInv, RelayTypes
<1>2. /\ inbox' \in Seq(RelayMessage)
      /\ \A j \in 1 .. Len(inbox') : \E k \in 1 .. Len(inbox) : inbox'[j] = inbox[k]
  <2> DEFINE rest == DOMAIN inbox \ K
  <2>1. rest \subseteq 1 .. Len(inbox) /\ inbox \in Seq(RelayMessage)
    BY <1>1 DEF RelayTypes
  <2>2. inbox' = Only(inbox, rest)
    BY DEF TakeOut
  <2> HIDE DEF rest
  <2>3. /\ Only(inbox, rest) \in Seq(RelayMessage)
        /\ \A j \in 1 .. Len(Only(inbox, rest)) : \E k \in rest : Only(inbox, rest)[j] = inbox[k]
    <3>1. rest \in SUBSET (1 .. Len(inbox))
      BY <2>1
    <3> QED BY ONLY <2>1, <3>1, OnlyMembers
  <2> QED BY ONLY <2>1, <2>2, <2>3
<1>3. InboxSound'
  BY <1>2 DEF RelayInv, InboxSound, IsInvite, Held, LegsFor
<1> QED
  BY <1>1, <1>2, <1>3 DEF RelayInv, RelayTypes, LapsedSound, OutcomesKept, Sound, Accounted, Outstanding

\* An envelope is held for somebody who is offline.
LEMMA InboxGrows ==
  ASSUME RelayInv, NEW m \in RelayMessage, inbox' = Append(inbox, m),
         UNCHANGED <<bound, known, attempts, lapsed>>,
         LegsFor(m.to) = {}, m.type = "introduction" \/ m.to \in known,
         m.type = "invite" => FreshInvite(m.sid)
  PROVE  RelayInv' /\ OutcomesKept
<1>1. RelayTypes /\ 1 .. Len(inbox) = DOMAIN inbox /\ Len(inbox) \in Nat
  BY DEF RelayInv, RelayTypes
<1>2. /\ inbox' \in Seq(RelayMessage) /\ Len(inbox') = Len(inbox) + 1
      /\ inbox'[Len(inbox) + 1] = m
      /\ \A k \in 1 .. Len(inbox) : inbox'[k] = inbox[k]
  BY <1>1 DEF RelayTypes
<1>3. \A k \in 1 .. Len(inbox') : k = Len(inbox) + 1 \/ k \in 1 .. Len(inbox)
  BY <1>1, <1>2
<1>4. \A k \in 1 .. Len(inbox') :
        /\ LegsFor(inbox'[k].to) = {}
        /\ inbox'[k].type = "introduction" \/ inbox'[k].to \in known
        /\ inbox'[k].type = "invite" => inbox'[k].sid \notin lapsed /\ ~Held(inbox'[k].sid)
  BY <1>2, <1>3 DEF RelayInv, InboxSound, IsInvite, FreshInvite
<1>5. \A j, k \in 1 .. Len(inbox') :
        inbox'[j].type = "invite" /\ inbox'[k].type = "invite" /\ inbox'[j].sid = inbox'[k].sid
          => inbox'[j].to = inbox'[k].to
  BY <1>1, <1>2, <1>3 DEF RelayInv, InboxSound, IsInvite, FreshInvite
<1>6. InboxSound'
  BY <1>4, <1>5 DEF InboxSound, IsInvite, Held, LegsFor
<1> QED
  BY <1>1, <1>2, <1>6 DEF RelayInv, RelayTypes, LapsedSound, OutcomesKept, Sound, Accounted, Outstanding

\* The relay's own state stays.
LEMMA NothingChanges ==
  ASSUME RelayInv, UNCHANGED <<bound, known, attempts, inbox, lapsed>>
  PROVE  RelayInv' /\ OutcomesKept
  BY DEF RelayInv, RelayTypes, InboxSound, IsInvite, Held, LegsFor, LapsedSound, OutcomesKept,
         Sound, Accounted, Outstanding

-----------------------------------------------------------------------------
(* Received envelopes.                                                     *)

LEMMA RouteStep ==
  ASSUME RelayInv, NEW m \in RelayMessage, NEW rest, RoutePlain(m, rest),
         m.type = "invite" => FreshInvite(m.sid)
  PROVE  RelayInv' /\ OutcomesKept
<1>1. CASE LegsFor(m.to) = {} /\ m.to \in known /\ Enqueue(m, rest)
  BY <1>1, InboxGrows DEF RoutePlain, Enqueue
<1>2. CASE UNCHANGED inbox
  BY <1>2, NothingChanges DEF RoutePlain
<1> QED BY <1>1, <1>2 DEF RoutePlain

LEMMA IntroductionStep ==
  ASSUME RelayInv, NEW m \in RelayMessage, NEW rest, RelayIntroduction(m, rest)
  PROVE  RelayInv' /\ OutcomesKept
<1>1. CASE LegsFor(m.to) = {} /\ Enqueue(m, rest)
  BY <1>1, InboxGrows DEF RelayIntroduction, Enqueue
<1>2. CASE UNCHANGED inbox
  BY <1>2, NothingChanges DEF RelayIntroduction
<1> QED BY <1>1, <1>2 DEF RelayIntroduction

\* The record of a new attempt with the legs D.
LEMMA NewAttempt ==
  ASSUME NEW from \in Party, NEW to \in Party, NEW D, D # {}, D \subseteq Device
  PROVE  /\ Attempt(from, to, D) \in AttemptRec /\ Sound(Attempt(from, to, D))
         /\ Attempt(from, to, D).initiator = from /\ from # Nobody
<1> DEFINE b == Attempt(from, to, D)
           legs == [d \in Device |-> IF d \in D THEN "delivered" ELSE "none"]
<1>1. b.initiator = from /\ b.outcome = "none" /\ b.legs = legs
  BY DEF Attempt, NoAttempt
<1>2. b \in AttemptRec
  <2>1. legs \in [Device -> LegState]
    BY DEF LegState
  <2> QED BY <2>1, NoAttemptSound DEF Attempt, AttemptRec
<1>3. from # Nobody
  BY PartyAssumption
<1>4. Sound(b)
  BY <1>1, <1>3 DEF Sound, Accounted, Outstanding
<1> QED BY <1>1, <1>2, <1>3, <1>4

LEMMA InviteStep ==
  ASSUME RelayInv, NEW m \in RelayMessage, NEW rest, RelayInvite(m, rest), FreshInvite(m.sid)
  PROVE  RelayInv' /\ OutcomesKept
<1> DEFINE b == Attempt(m.from, m.to, LegsFor(m.to))
<1>1. m.sid \in Sid /\ m.from \in Party /\ m.to \in Party
  BY MessageFields
<1>2. LegsFor(m.to) # {} /\ LegsFor(m.to) \subseteq Device
  BY DEF RelayInvite, LegsFor, RelayInv, RelayTypes
<1>3. b \in AttemptRec /\ Sound(b)
  BY <1>1, <1>2, NewAttempt
<1>4. attempts[m.sid].outcome = "none"
  BY <1>1 DEF FreshInvite, Held, RelayInv, Sound, NoAttempt
<1>5. /\ attempts' = [attempts EXCEPT ![m.sid] = b]
      /\ UNCHANGED <<bound, known, inbox, lapsed>>
      /\ m.sid \notin lapsed
      /\ \A k \in 1 .. Len(inbox) : ~(IsInvite(k) /\ inbox[k].sid = m.sid)
  BY DEF RelayInvite, FreshInvite, RelayInv, RelayTypes
<1> HIDE DEF b
<1> QED BY <1>1, <1>3, <1>4, <1>5, OneAttempt

\* An attempt the relay holds gets another record.
LEMMA HeldAttempt ==
  ASSUME RelayInv, NEW i \in Sid, Held(i), NEW b \in AttemptRec,
         attempts' = [attempts EXCEPT ![i] = b],
         UNCHANGED <<bound, known, inbox, lapsed>>,
         Sound(b), attempts[i].heard \subseteq b.heard,
         Outstanding(b) \subseteq Outstanding(attempts[i]),
         attempts[i].outcome # "none" => b.outcome = attempts[i].outcome
  PROVE  RelayInv' /\ OutcomesKept
<1>1. /\ i \in lapsed => Outstanding(b) \subseteq b.heard
      /\ \A k \in 1 .. Len(inbox) : ~(IsInvite(k) /\ inbox[k].sid = i)
  BY HeldIsNotQueued
<1> QED BY <1>1, OneAttempt

LEMMA CancelStep ==
  ASSUME RelayInv, NEW m \in RelayMessage, NEW rest, RelayCancel(m, rest)
  PROVE  RelayInv' /\ OutcomesKept
<1> DEFINE a == attempts[m.sid]
           hit == IF Leg(a, m.to) THEN Outstanding(a) \cap {m.to} ELSE Outstanding(a)
           legs == [d \in Device |-> IF d \in hit THEN "cancelled" ELSE a.legs[d]]
           outcome == IF a.outcome = "none" /\ Outstanding(a) \subseteq hit
                      THEN "cancelled" ELSE a.outcome
           b == [a EXCEPT !.legs = legs, !.outcome = outcome]
<1>1. m.sid \in Sid /\ Held(m.sid) /\ a \in AttemptRec /\ Sound(a) /\ a.initiator # Nobody
  BY MessageFields, HeldIsNotQueued DEF RelayCancel
<1>2. hit \subseteq Outstanding(a)
  OBVIOUS
<1> HIDE DEF hit
<1>3. legs \in [Device -> LegState] /\ outcome \in Outcome
  BY <1>1 DEF AttemptRec, LegState, Outcome
<1>4. /\ b \in AttemptRec /\ b.legs = legs /\ b.outcome = outcome
      /\ b.heard = a.heard /\ b.initiator = a.initiator /\ b.rejects = a.rejects
  BY <1>1, <1>3 DEF AttemptRec
<1>5. Outstanding(b) = Outstanding(a) \ hit
  BY <1>2, <1>4 DEF Outstanding
<1>6. Sound(b)
  <2>1. CASE outcome = "none"
    BY <1>1, <1>2, <1>4, <1>5, <2>1 DEF Sound, Accounted, Outstanding
  <2>2. CASE outcome # "none" /\ a.outcome = "none"
    BY <1>1, <1>2, <1>4, <1>5, <2>2 DEF Sound, Accounted, Outstanding
  <2>3. CASE a.outcome # "none"
    BY <1>1, <1>2, <1>4, <1>5, <2>3 DEF Sound, Accounted, Outstanding
  <2> QED BY <2>1, <2>2, <2>3
<1>7. attempts' = [attempts EXCEPT ![m.sid] = b] /\ UNCHANGED <<bound, known, inbox, lapsed>>
  BY DEF RelayCancel, hit
<1> HIDE DEF b
<1> QED BY <1>1, <1>4, <1>5, <1>6, <1>7, HeldAttempt

\* What a leg's message says of it.
LEMMA HeardRec ==
  ASSUME RelayInv, NEW m \in RelayMessage, FromLeg(m)
  PROVE  /\ m.sid \in Sid /\ Held(m.sid) /\ m.from \in Device
         /\ Heard(m) \in AttemptRec /\ Sound(Heard(m))
         /\ Heard(m).initiator = attempts[m.sid].initiator
         /\ Heard(m).legs = attempts[m.sid].legs
         /\ Heard(m).rejects = attempts[m.sid].rejects
         /\ Heard(m).outcome = attempts[m.sid].outcome
         /\ Heard(m).heard = attempts[m.sid].heard \cup {m.from}
<1>1. /\ m.sid \in Sid /\ Held(m.sid) /\ attempts[m.sid] \in AttemptRec /\ Sound(attempts[m.sid])
      /\ attempts[m.sid].initiator # Nobody /\ m.from \in Device
  BY MessageFields, HeldIsNotQueued DEF FromLeg, Leg
<1>2. Heard(m) \in AttemptRec
  BY <1>1 DEF Heard, AttemptRec
<1>3. /\ Heard(m).initiator = attempts[m.sid].initiator
      /\ Heard(m).legs = attempts[m.sid].legs
      /\ Heard(m).rejects = attempts[m.sid].rejects
      /\ Heard(m).outcome = attempts[m.sid].outcome
      /\ Heard(m).heard = attempts[m.sid].heard \cup {m.from}
  BY <1>1 DEF Heard, AttemptRec
<1>4. Sound(Heard(m))
  BY <1>1, <1>3 DEF Sound, Accounted, Outstanding
<1> QED BY <1>1, <1>2, <1>3, <1>4

LEMMA AnswerStep ==
  ASSUME RelayInv, NEW m \in RelayMessage, NEW rest, RelayAnswer(m, rest)
  PROVE  RelayInv' /\ OutcomesKept
<1> DEFINE a == Heard(m)
           live == a.legs[m.from] = "delivered"
           leg == IF live THEN "answered" ELSE a.legs[m.from]
           outcome == IF live /\ a.outcome = "none" THEN "answered" ELSE a.outcome
           b == [a EXCEPT !.legs[m.from] = leg, !.outcome = outcome]
<1>1. /\ m.sid \in Sid /\ Held(m.sid) /\ m.from \in Device /\ a \in AttemptRec /\ Sound(a)
      /\ a.initiator = attempts[m.sid].initiator /\ a.initiator # Nobody
      /\ a.legs = attempts[m.sid].legs /\ a.outcome = attempts[m.sid].outcome
      /\ attempts[m.sid].heard \subseteq a.heard
  BY HeardRec DEF RelayAnswer, Held
<1>2. attempts' = [attempts EXCEPT ![m.sid] = b] /\ UNCHANGED <<bound, known, inbox, lapsed>>
  BY DEF RelayAnswer
<1> HIDE DEF a
<1>3. leg \in LegState /\ outcome \in Outcome /\ a.legs \in [Device -> LegState]
  BY <1>1 DEF AttemptRec, LegState, Outcome
<1>4. /\ b \in AttemptRec /\ b.legs = [a.legs EXCEPT ![m.from] = leg] /\ b.outcome = outcome
      /\ b.heard = a.heard /\ b.initiator = a.initiator /\ b.rejects = a.rejects
  BY <1>1, <1>3 DEF AttemptRec
<1>5. Outstanding(b) \subseteq Outstanding(a)
  BY <1>1, <1>3, <1>4 DEF Outstanding
<1>6. Sound(b)
  <2>1. CASE live
    <3>1. b.legs[m.from] = "answered" /\ a.outcome \in {"none", "answered"}
      BY <1>1, <1>3, <1>4, <2>1 DEF Sound, Accounted, AttemptRec, Outcome
    <3> QED BY <1>1, <1>4, <2>1, <3>1 DEF Sound, Accounted
  <2>2. CASE ~live
    <3>1. b.legs = a.legs /\ b.outcome = a.outcome
      BY <1>3, <1>4, <2>2
    <3> QED BY <1>1, <1>4, <3>1 DEF Sound, Accounted, Outstanding
  <2> QED BY <2>1, <2>2
<1>7. Outstanding(a) = Outstanding(attempts[m.sid])
  BY <1>1 DEF Outstanding
<1>8. attempts[m.sid].outcome # "none" => b.outcome = attempts[m.sid].outcome
  BY <1>1, <1>4
<1> HIDE DEF b
<1> QED BY <1>1, <1>2, <1>4, <1>5, <1>6, <1>7, <1>8, HeldAttempt

\* The record a check for completion leaves.
LEMMA Completes ==
  ASSUME NEW i, NEW a \in AttemptRec, NEW rest, Accounted(a), a.initiator # Nobody,
         CheckComplete(i, a, rest)
  PROVE  \E b \in AttemptRec :
            /\ attempts' = [attempts EXCEPT ![i] = b]
            /\ Sound(b) /\ b.initiator = a.initiator /\ b.legs = a.legs /\ b.heard = a.heard
            /\ a.outcome # "none" => b.outcome = a.outcome
<1>1. PICK outcome \in Outcome :
        /\ attempts' = [attempts EXCEPT ![i] = [a EXCEPT !.outcome = outcome]]
        /\ \/ outcome = a.outcome /\ (a.outcome # "none" \/ Outstanding(a) # {})
           \/ /\ a.outcome = "none" /\ Outstanding(a) = {}
              /\ outcome = "rejected" \/ (outcome = "no-response" /\ a.rejects = <<>>)
  BY DEF CheckComplete, AttemptRec, Outcome
<1> DEFINE b == [a EXCEPT !.outcome = outcome]
<1>2. /\ b \in AttemptRec /\ b.outcome = outcome /\ b.initiator = a.initiator
      /\ b.legs = a.legs /\ b.heard = a.heard /\ b.rejects = a.rejects
  BY DEF AttemptRec
<1>3. attempts' = [attempts EXCEPT ![i] = b]
  BY <1>1
<1> HIDE DEF b
<1>4. Outstanding(b) = Outstanding(a)
  BY <1>2 DEF Outstanding
<1>5. Sound(b)
  <2>1. CASE outcome = a.outcome /\ (a.outcome # "none" \/ Outstanding(a) # {})
    BY <1>2, <1>4, <2>1 DEF Sound, Accounted
  <2>2. CASE /\ a.outcome = "none" /\ Outstanding(a) = {}
             /\ outcome = "rejected" \/ (outcome = "no-response" /\ a.rejects = <<>>)
    <3>1. \A d \in Device : a.legs[d] \notin {"delivered", "answered"}
      BY <2>2 DEF Accounted, Outstanding
    <3> QED BY <1>2, <2>2, <3>1 DEF Sound, Accounted
  <2> QED BY <1>1, <2>1, <2>2
<1> QED BY <1>1, <1>2, <1>3, <1>5

\* A leg ends without an answer, and the attempt with it if it was the last.
LEMMA LegEnds ==
  ASSUME RelayInv, NEW i \in Sid, Held(i), NEW d \in Device, NEW a \in AttemptRec, NEW rest,
         Sound(a), a.initiator # Nobody, a.legs[d] = "delivered",
         Outstanding(a) = Outstanding(attempts[i]), attempts[i].heard \subseteq a.heard,
         a.outcome = attempts[i].outcome,
         NEW b \in AttemptRec, NEW leg \in {"rejected", "expired"},
         b.legs = [a.legs EXCEPT ![d] = leg], b.outcome = a.outcome, b.heard = a.heard,
         b.initiator = a.initiator,
         CheckComplete(i, b, rest),
         UNCHANGED <<bound, known, inbox, lapsed>>
  PROVE  RelayInv' /\ OutcomesKept
<1>1. a.legs \in [Device -> LegState] /\ a.outcome \in Outcome
  BY DEF AttemptRec
<1>2. a.outcome \in {"none", "answered"}
  BY <1>1 DEF Sound, Accounted, Outcome
<1>3. Accounted(b)
  BY <1>1, <1>2 DEF Sound, Accounted
<1>4. Outstanding(b) \subseteq Outstanding(a)
  BY <1>1 DEF Outstanding
<1>5. PICK c \in AttemptRec :
        /\ attempts' = [attempts EXCEPT ![i] = c]
        /\ Sound(c) /\ c.initiator = b.initiator /\ c.legs = b.legs /\ c.heard = b.heard
        /\ b.outcome # "none" => c.outcome = b.outcome
  BY <1>3, Completes
<1>6. Outstanding(c) = Outstanding(b)
  BY <1>5 DEF Outstanding
<1> QED BY <1>4, <1>5, <1>6, HeldAttempt

LEMMA RejectStep ==
  ASSUME RelayInv, NEW m \in RelayMessage, NEW rest, RelayReject(m, rest)
  PROVE  RelayInv' /\ OutcomesKept
<1> DEFINE a == Heard(m)
           r == Append(a.rejects, [leg |-> m.from, reason |-> m.tag])
           b == [a EXCEPT !.legs[m.from] = "rejected", !.rejects = r]
<1>1. /\ m.sid \in Sid /\ Held(m.sid) /\ m.from \in Device /\ a \in AttemptRec /\ Sound(a)
      /\ a.initiator # Nobody /\ a.legs[m.from] = "delivered"
      /\ a.outcome = attempts[m.sid].outcome /\ attempts[m.sid].heard \subseteq a.heard
      /\ a.legs = attempts[m.sid].legs
  BY HeardRec DEF RelayReject, Held
<1>2. CheckComplete(m.sid, b, rest) /\ UNCHANGED <<bound, known, inbox, lapsed>>
  BY DEF RelayReject
<1>3. Outstanding(a) = Outstanding(attempts[m.sid])
  BY <1>1 DEF Outstanding
<1> HIDE DEF a
<1>4. r \in Seq([leg : Device, reason : Tag])
  <2>1. m.tag \in Tag
    BY DEF RelayMessage
  <2>2. a.rejects \in Seq([leg : Device, reason : Tag])
    BY <1>1 DEF AttemptRec
  <2>3. [leg |-> m.from, reason |-> m.tag] \in [leg : Device, reason : Tag]
    BY <1>1, <2>1
  <2> QED BY <2>2, <2>3, AppendProperties
<1> HIDE DEF r
<1>5. /\ b \in AttemptRec /\ b.legs = [a.legs EXCEPT ![m.from] = "rejected"]
      /\ b.outcome = a.outcome /\ b.heard = a.heard /\ b.initiator = a.initiator
  <2>1. a.legs \in [Device -> LegState] /\ [a.legs EXCEPT ![m.from] = "rejected"] \in [Device -> LegState]
    BY <1>1 DEF AttemptRec, LegState
  <2> QED BY <1>1, <1>4, <2>1 DEF AttemptRec
<1> HIDE DEF b
<1> QED BY <1>1, <1>2, <1>3, <1>5, LegEnds

LEMMA LegExpiredStep ==
  ASSUME RelayInv, NEW i \in Sid, NEW d \in Device, NEW rest, LegExpired(i, d, rest)
  PROVE  RelayInv' /\ OutcomesKept
<1> DEFINE a == attempts[i]
           b == [a EXCEPT !.legs[d] = "expired"]
<1>1. /\ Held(i) /\ a \in AttemptRec /\ Sound(a) /\ a.initiator # Nobody
      /\ a.legs[d] = "delivered"
  BY HeldIsNotQueued DEF LegExpired
<1>2. CheckComplete(i, b, rest) /\ UNCHANGED <<bound, known, inbox, lapsed>>
  BY DEF LegExpired
<1>3. /\ b \in AttemptRec /\ b.legs = [a.legs EXCEPT ![d] = "expired"]
      /\ b.outcome = a.outcome /\ b.heard = a.heard /\ b.initiator = a.initiator
  BY <1>1 DEF AttemptRec, LegState
<1> HIDE DEF b
<1> QED BY <1>1, <1>2, <1>3, LegEnds

\* The leg is only heard of.
LEMMA HeardStep ==
  ASSUME RelayInv, NEW m \in RelayMessage, NEW rest,
         RelayProgress(m, rest) \/ RelayScreened(m, rest)
  PROVE  RelayInv' /\ OutcomesKept
<1>1. /\ FromLeg(m) /\ attempts' = [attempts EXCEPT ![m.sid] = Heard(m)]
      /\ UNCHANGED <<bound, known, inbox, lapsed>>
  BY DEF RelayProgress, RelayScreened
<1>2. Outstanding(Heard(m)) \subseteq Outstanding(attempts[m.sid])
  BY <1>1, HeardRec DEF Outstanding
<1> QED BY <1>1, <1>2, HeardRec, HeldAttempt

LEMMA RecvStep ==
  ASSUME RelayInv, NEW m \in RelayMessage, NEW rest, RelayRecv(m, rest),
         m.type = "invite" => FreshInvite(m.sid)
  PROVE  RelayInv' /\ OutcomesKept
<1>1. CASE RelayIntroduction(m, rest)
  BY <1>1, IntroductionStep
<1>2. CASE RelayInvite(m, rest)
  BY <1>2, InviteStep DEF RelayInvite
<1>3. CASE RelayInviteOffline(m, rest)
  BY <1>3, RouteStep DEF RelayInviteOffline
<1>4. CASE RelayCancelQueued(m, rest)
  BY <1>4, InboxShrinks DEF RelayCancelQueued
<1>5. CASE RelayPlain(m, rest)
  BY <1>5, RouteStep DEF RelayPlain
<1>6. CASE RelayCancel(m, rest)
  BY <1>6, CancelStep
<1>7. CASE RelayAnswer(m, rest)
  BY <1>7, AnswerStep
<1>8. CASE RelayProgress(m, rest) \/ RelayScreened(m, rest)
  BY <1>8, HeardStep
<1>9. CASE RelayReject(m, rest)
  BY <1>9, RejectStep
<1> QED
  BY <1>1, <1>2, <1>3, <1>4, <1>5, <1>6, <1>7, <1>8, <1>9 DEF RelayRecv

-----------------------------------------------------------------------------
(* Bindings.                                                               *)

\* Part of the inbox.
LEMMA InboxAt ==
  ASSUME RelayTypes, NEW K \in SUBSET DOMAIN inbox
  PROVE  /\ Only(inbox, K) \in Seq(RelayMessage)
         /\ \A j \in DOMAIN Only(inbox, K) : \E k \in K : Only(inbox, K)[j] = inbox[k]
<1>1. inbox \in Seq(RelayMessage) /\ K \in SUBSET (1 .. Len(inbox))
  BY DEF RelayTypes
<1>2. /\ Only(inbox, K) \in Seq(RelayMessage)
      /\ \A j \in 1 .. Len(Only(inbox, K)) : \E k \in K : Only(inbox, K)[j] = inbox[k]
  BY ONLY <1>1, OnlyMembers
<1> QED BY ONLY <1>2

\* What each attempt is after d has bound.
LEMMA BindAttempts ==
  ASSUME RelayInv, NEW d \in Device, NEW rest, Bind(d, rest), NEW i \in Sid
  PROVE  \/ attempts'[i] = attempts[i]
         \/ /\ i \notin lapsed /\ Held(i) /\ attempts[i].outcome = "none"
            /\ attempts'[i] = [attempts[i] EXCEPT !.legs[d] = "delivered"]
         \/ /\ i \notin lapsed /\ ~Held(i)
            /\ \E from \in Party, to \in Party : attempts'[i] = Attempt(from, to, {d})
            /\ \E k \in HeldFor(d) : IsInvite(k) /\ inbox[k].sid = i
<1> DEFINE q == Only(inbox, HeldFor(d))
<1>1. RelayTypes /\ HeldFor(d) \in SUBSET DOMAIN inbox /\ DOMAIN inbox = 1 .. Len(inbox)
  BY DEF RelayInv, RelayTypes, HeldFor
<1>2. q \in Seq(RelayMessage) /\ \A j \in DOMAIN q : \E k \in HeldFor(d) : q[j] = inbox[k]
  BY <1>1, InboxAt
<1>3. attempts'[i] =
        CASE i \in Invited(q) /\ ~Held(i) -> Attempt(InviteIn(q, i).from, InviteIn(q, i).to, {d})
          [] i \in Joins(d) \ Invited(q) \/ (i \in Invited(q) /\ Held(i)) ->
               [attempts[i] EXCEPT !.legs[d] = "delivered"]
          [] OTHER -> attempts[i]
  BY DEF Bind
<1> HIDE DEF q
<1>4. CASE i \in Invited(q)
  <2>1. PICK j \in DOMAIN q : q[j].type = "invite" /\ q[j].sid = i
    BY <1>4 DEF Invited
  <2>2. PICK k \in HeldFor(d) : IsInvite(k) /\ inbox[k].sid = i
    BY <1>2, <2>1 DEF IsInvite
  <2>3. i \notin lapsed /\ ~Held(i)
    BY <1>1, <2>2 DEF RelayInv, InboxSound
  <2>4. InviteIn(q, i) \in RelayMessage
    <3>1. PICK n \in DOMAIN q : InviteIn(q, i) = q[n]
      <4> DEFINE P(x) == x \in DOMAIN q /\ q[x].type = "invite" /\ q[x].sid = i
      <4>1. \E x : P(x)
        BY <2>1
      <4>2. P(CHOOSE x : P(x))
        BY <4>1, Zenon
      <4>3. (CHOOSE x : P(x)) = CHOOSE x \in DOMAIN q : q[x].type = "invite" /\ q[x].sid = i
        OBVIOUS
      <4> QED BY <4>2, <4>3 DEF InviteIn
    <3> QED BY <1>2, <3>1
  <2>5. attempts'[i] = Attempt(InviteIn(q, i).from, InviteIn(q, i).to, {d})
    BY <1>3, <1>4, <2>3
  <2> QED BY <2>2, <2>3, <2>4, <2>5, MessageFields
<1>5. CASE i \notin Invited(q) /\ i \in Joins(d)
  <2>1. attempts'[i] = [attempts[i] EXCEPT !.legs[d] = "delivered"]
    BY <1>3, <1>5
  <2> QED BY <1>5, <2>1 DEF Joins
<1>6. CASE i \notin Invited(q) /\ i \notin Joins(d)
  BY <1>3, <1>6
<1> QED BY <1>4, <1>5, <1>6

LEMMA BindStep ==
  ASSUME RelayInv, NEW d \in Device, NEW rest, Bind(d, rest)
  PROVE  RelayInv' /\ OutcomesKept
<1>1. /\ RelayTypes /\ bound' = bound \cup {d} /\ known' = known \cup {d, IdentityOf[d]}
      /\ UNCHANGED lapsed /\ DOMAIN inbox = 1 .. Len(inbox)
  BY DEF Bind, RelayInv, RelayTypes
\* The attempts.
<1>2. ASSUME NEW i \in Sid
      PROVE  /\ attempts'[i] \in AttemptRec /\ Sound(attempts'[i])
             /\ attempts[i].outcome # "none" => attempts'[i].outcome = attempts[i].outcome
             /\ i \in lapsed => attempts'[i] = attempts[i]
             /\ Held(i)' <=> \/ Held(i)
                             \/ \E k \in HeldFor(d) : IsInvite(k) /\ inbox[k].sid = i /\ Held(i)'
  <2>1. attempts[i] \in AttemptRec /\ Sound(attempts[i])
    BY <1>1 DEF RelayInv, RelayTypes
  <2>2. CASE attempts'[i] = attempts[i]
    BY <2>1, <2>2 DEF Held
  <2>3. CASE /\ i \notin lapsed /\ Held(i) /\ attempts[i].outcome = "none"
             /\ attempts'[i] = [attempts[i] EXCEPT !.legs[d] = "delivered"]
    <3> DEFINE a == attempts[i]
               b == [a EXCEPT !.legs[d] = "delivered"]
    <3>1. /\ b \in AttemptRec /\ b.legs = [a.legs EXCEPT ![d] = "delivered"]
          /\ b.outcome = "none" /\ b.initiator = a.initiator /\ a.legs \in [Device -> LegState]
      BY <2>1, <2>3 DEF AttemptRec, LegState
    <3>2. attempts'[i] = b
      BY <2>3
    <3> HIDE DEF b
    <3>3. d \in Outstanding(b)
      BY <3>1 DEF Outstanding
    <3>4. Sound(b)
      BY <2>1, <2>3, <3>1, <3>3 DEF Sound, Accounted, Held
    <3> QED BY <2>3, <3>1, <3>2, <3>4 DEF Held
  <2>4. CASE /\ i \notin lapsed /\ ~Held(i)
             /\ \E from \in Party, to \in Party : attempts'[i] = Attempt(from, to, {d})
             /\ \E k \in HeldFor(d) : IsInvite(k) /\ inbox[k].sid = i
    <3>1. PICK from \in Party, to \in Party : attempts'[i] = Attempt(from, to, {d})
      BY <2>4
    <3>2. /\ attempts'[i] \in AttemptRec /\ Sound(attempts'[i])
          /\ attempts'[i].initiator # Nobody
      BY <3>1, NewAttempt
    <3>3. attempts[i].outcome = "none"
      BY <2>1, <2>4 DEF Held, Sound, NoAttempt
    <3> QED BY <2>4, <3>2, <3>3 DEF Held
  <2> QED BY <2>2, <2>3, <2>4, BindAttempts
\* The inbox.
<1>3. /\ inbox' \in Seq(RelayMessage)
      /\ \A j \in 1 .. Len(inbox') :
           \E k \in 1 .. Len(inbox) : k \notin HeldFor(d) /\ inbox'[j] = inbox[k]
  <2> DEFINE K == DOMAIN inbox \ HeldFor(d)
  <2>1. K \in SUBSET DOMAIN inbox /\ \A k \in K : k \in 1 .. Len(inbox) /\ k \notin HeldFor(d)
    BY <1>1
  <2>2. inbox' = Only(inbox, K)
    BY DEF Bind, TakeOut
  <2> HIDE DEF K
  <2>3. /\ Only(inbox, K) \in Seq(RelayMessage)
        /\ \A j \in DOMAIN Only(inbox, K) : \E k \in K : Only(inbox, K)[j] = inbox[k]
    BY <1>1, <2>1, InboxAt
  <2> QED BY <2>1, <2>2, <2>3
<1>4. ASSUME NEW k \in 1 .. Len(inbox), k \notin HeldFor(d)
      PROVE  /\ {x \in bound' : inbox[k].to = x \/ inbox[k].to = IdentityOf[x]} = {}
             /\ inbox[k].type = "introduction" \/ inbox[k].to \in known'
             /\ IsInvite(k) => /\ inbox[k].sid \notin lapsed
                               /\ attempts'[inbox[k].sid].initiator = Nobody
  <2>1. inbox[k].to # d /\ inbox[k].to # IdentityOf[d]
    BY <1>1, <1>4 DEF HeldFor
  <2>2. /\ LegsFor(inbox[k].to) = {}
        /\ inbox[k].type = "introduction" \/ inbox[k].to \in known
        /\ IsInvite(k) => inbox[k].sid \notin lapsed /\ ~Held(inbox[k].sid)
    BY DEF RelayInv, InboxSound
  <2>3. inbox[k].sid \in Sid
    BY <1>1, InInbox, MessageFields
  <2>4. ASSUME IsInvite(k), NEW n \in HeldFor(d), IsInvite(n), inbox[n].sid = inbox[k].sid
        PROVE  FALSE
    <3>1. n \in 1 .. Len(inbox) /\ inbox[n].to \in {d, IdentityOf[d]}
      BY <1>1 DEF HeldFor
    <3> QED BY <2>1, <2>4, <3>1 DEF RelayInv, InboxSound
  <2>5. IsInvite(k) => attempts'[inbox[k].sid].initiator = Nobody
    BY <1>2, <2>2, <2>3, <2>4 DEF Held
  <2>6. {x \in bound' : inbox[k].to = x \/ inbox[k].to = IdentityOf[x]} = {}
    BY <1>1, <2>1, <2>2 DEF LegsFor
  <2> QED BY <1>1, <2>2, <2>5, <2>6
<1>5. InboxSound'
  <2>1. ASSUME NEW j \in 1 .. Len(inbox')
        PROVE  /\ {x \in bound' : inbox'[j].to = x \/ inbox'[j].to = IdentityOf[x]} = {}
               /\ inbox'[j].type = "introduction" \/ inbox'[j].to \in known'
               /\ inbox'[j].type = "invite" => /\ inbox'[j].sid \notin lapsed'
                                               /\ attempts'[inbox'[j].sid].initiator = Nobody
    <3>1. PICK k \in 1 .. Len(inbox) : k \notin HeldFor(d) /\ inbox'[j] = inbox[k]
      BY <1>3
    <3> QED BY <1>1, <1>4, <3>1 DEF IsInvite
  <2>2. \A j, k \in 1 .. Len(inbox') :
          inbox'[j].type = "invite" /\ inbox'[k].type = "invite" /\ inbox'[j].sid = inbox'[k].sid
            => inbox'[j].to = inbox'[k].to
    BY <1>3 DEF RelayInv, InboxSound, IsInvite
  <2> QED BY <2>1, <2>2 DEF InboxSound, IsInvite, Held, LegsFor
<1>6. RelayTypes'
  <2>1. attempts' \in [Sid -> AttemptRec]
    <3>1. DOMAIN attempts' = Sid /\ attempts' = [i \in Sid |-> attempts'[i]]
      BY DEF Bind
    <3> QED BY <1>2, <3>1
  <2>2. d \in Party /\ IdentityOf[d] \in Party
    BY PartyAssumption
  <2> QED BY <1>1, <1>3, <2>1, <2>2 DEF RelayTypes
<1>7. LapsedSound'
  BY <1>1, <1>2 DEF RelayInv, LapsedSound, RelayTypes, Outstanding
<1>8. (\A i \in Sid : Sound(attempts[i]))'
  BY <1>2 DEF Sound, Accounted, Outstanding
<1> QED BY <1>2, <1>5, <1>6, <1>7, <1>8 DEF RelayInv, OutcomesKept

LEMMA UnbindStep ==
  ASSUME RelayInv, NEW d \in Device, NEW rest, Unbind(d, rest)
  PROVE  RelayInv' /\ OutcomesKept
  BY DEF Unbind, RelayInv, RelayTypes, InboxSound, IsInvite, Held, LegsFor, LapsedSound,
         OutcomesKept, Sound, Accounted, Outstanding

-----------------------------------------------------------------------------
(* The clock.                                                              *)

\* The silent legs of an attempt expire.
LEMMA SilentLegs ==
  ASSUME RelayInv, NEW i \in Sid, NEW rest, Advance(i, rest)
  PROVE  \E b \in AttemptRec :
            /\ attempts' = [attempts EXCEPT ![i] = b]
            /\ Sound(b) /\ b.initiator = attempts[i].initiator
            /\ Outstanding(b) \subseteq b.heard
            /\ attempts[i].outcome # "none" => b.outcome = attempts[i].outcome
<1> DEFINE a == attempts[i]
           silent == Outstanding(a) \ a.heard
           legs == [d \in Device |-> IF d \in silent THEN "expired" ELSE a.legs[d]]
           b == [a EXCEPT !.legs = legs]
<1>1. a \in AttemptRec /\ Sound(a) /\ attempts \in [Sid -> AttemptRec]
  BY DEF RelayInv, RelayTypes
<1>2. CASE Held(i) /\ silent # {}
  <2>1. CheckComplete(i, b, rest)
    BY <1>2 DEF Advance
  <2>2. legs \in [Device -> LegState]
    <3>1. a.legs \in [Device -> LegState] /\ "expired" \in LegState
      BY <1>1 DEF AttemptRec, LegState
    <3> QED BY <3>1
  <2> HIDE DEF legs
  <2>3. /\ b \in AttemptRec /\ b.legs = legs /\ b.outcome = a.outcome
        /\ b.heard = a.heard /\ b.initiator = a.initiator /\ b.rejects = a.rejects
    BY <1>1, <2>2 DEF AttemptRec
  <2> HIDE DEF b
  <2>4. Outstanding(b) \subseteq b.heard
    BY <2>3 DEF Outstanding, legs
  <2>5. Accounted(b)
    <3>1. a.outcome \in {"none", "answered"}
      BY <1>1, <1>2 DEF Sound, Accounted, AttemptRec, Outcome, Outstanding
    <3>2. \A d \in Device : (b.legs[d] = "answered") <=> (a.legs[d] = "answered")
      BY <2>3 DEF Outstanding, legs
    <3> QED BY <1>1, <2>3, <3>1, <3>2 DEF Sound, Accounted
  <2>6. PICK c \in AttemptRec :
          /\ attempts' = [attempts EXCEPT ![i] = c]
          /\ Sound(c) /\ c.initiator = b.initiator /\ c.legs = b.legs /\ c.heard = b.heard
          /\ b.outcome # "none" => c.outcome = b.outcome
    <3>1. b.initiator # Nobody
      BY <1>2, <2>3 DEF Held
    <3>2. b \in AttemptRec
      BY <2>3
    <3> QED BY <2>1, <2>5, <3>1, <3>2, Completes
  <2>7. Outstanding(c) = Outstanding(b)
    BY <2>6 DEF Outstanding
  <2> QED BY <2>3, <2>4, <2>6, <2>7
<1>3. CASE ~(Held(i) /\ silent # {})
  <2>1. attempts' = attempts /\ attempts' = [attempts EXCEPT ![i] = a]
    BY <1>1, <1>3 DEF Advance
  <2>2. Outstanding(a) \subseteq a.heard
    BY <1>1, <1>3, NoAttemptSound DEF Held, Sound
  <2> QED BY <1>1, <2>1, <2>2
<1> QED BY <1>2, <1>3

LEMMA AdvanceStep ==
  ASSUME RelayInv, NEW i \in Sid, NEW rest, Advance(i, rest)
  PROVE  RelayInv' /\ OutcomesKept
<1>1. /\ RelayTypes /\ lapsed' = lapsed \cup {i} /\ UNCHANGED <<bound, known>>
      /\ DOMAIN inbox = 1 .. Len(inbox)
  BY DEF Advance, RelayInv, RelayTypes
<1>2. PICK b \in AttemptRec :
        /\ attempts' = [attempts EXCEPT ![i] = b]
        /\ Sound(b) /\ b.initiator = attempts[i].initiator
        /\ Outstanding(b) \subseteq b.heard
        /\ attempts[i].outcome # "none" => b.outcome = attempts[i].outcome
  BY SilentLegs
<1>3. attempts'[i] = b /\ \A j \in Sid \ {i} : attempts'[j] = attempts[j]
  BY <1>1, <1>2 DEF RelayTypes
<1>4. /\ inbox' \in Seq(RelayMessage)
      /\ \A j \in 1 .. Len(inbox') :
           \E k \in 1 .. Len(inbox) : ~(IsInvite(k) /\ inbox[k].sid = i) /\ inbox'[j] = inbox[k]
  <2> DEFINE K == DOMAIN inbox \ {k \in DOMAIN inbox : inbox[k].type = "invite" /\ inbox[k].sid = i}
  <2>1. K \in SUBSET DOMAIN inbox /\ \A k \in K : k \in 1 .. Len(inbox) /\ ~(IsInvite(k) /\ inbox[k].sid = i)
    BY <1>1 DEF IsInvite
  <2>2. inbox' = Only(inbox, K)
    BY DEF Advance, TakeOut
  <2> HIDE DEF K
  <2>3. /\ Only(inbox, K) \in Seq(RelayMessage)
        /\ \A j \in DOMAIN Only(inbox, K) : \E k \in K : Only(inbox, K)[j] = inbox[k]
    BY <1>1, <2>1, InboxAt
  <2> QED BY <2>1, <2>2, <2>3
<1>5. InboxSound'
  <2>1. ASSUME NEW j \in 1 .. Len(inbox')
        PROVE  /\ LegsFor(inbox'[j].to) = {}
               /\ inbox'[j].type = "introduction" \/ inbox'[j].to \in known
               /\ inbox'[j].type = "invite" => /\ inbox'[j].sid \notin lapsed'
                                               /\ attempts'[inbox'[j].sid].initiator = Nobody
    <3>1. PICK k \in 1 .. Len(inbox) : ~(IsInvite(k) /\ inbox[k].sid = i) /\ inbox'[j] = inbox[k]
      BY <1>4
    <3>2. inbox[k].sid \in Sid
      BY <1>1, InInbox, MessageFields
    <3> QED BY <1>1, <1>2, <1>3, <3>1, <3>2 DEF RelayInv, InboxSound, IsInvite, Held
  <2>2. \A j, k \in 1 .. Len(inbox') :
          inbox'[j].type = "invite" /\ inbox'[k].type = "invite" /\ inbox'[j].sid = inbox'[k].sid
            => inbox'[j].to = inbox'[k].to
    BY <1>4 DEF RelayInv, InboxSound, IsInvite
  <2> QED BY <1>1, <2>1, <2>2 DEF InboxSound, IsInvite, Held, LegsFor
<1>6. RelayTypes'
  BY <1>1, <1>2, <1>4 DEF RelayTypes
<1>7. LapsedSound'
  BY <1>1, <1>2, <1>3 DEF RelayInv, LapsedSound, RelayTypes, Outstanding
<1>8. (\A j \in Sid : Sound(attempts[j]))'
  BY <1>2, <1>3 DEF RelayInv, Sound, Accounted, Outstanding
<1> QED BY <1>2, <1>3, <1>5, <1>6, <1>7, <1>8 DEF RelayInv, OutcomesKept

LEMMA ForgetAttemptStep ==
  ASSUME RelayInv, NEW i \in Sid, NEW rest, ForgetAttempt(i, rest)
  PROVE  RelayInv' /\ OutcomesKept
<1>1. /\ attempts' = [attempts EXCEPT ![i] = NoAttempt]
      /\ UNCHANGED <<bound, known, inbox, lapsed>>
      /\ NoAttempt.initiator = Nobody
  BY DEF ForgetAttempt, NoAttempt
<1> QED BY <1>1, NoAttemptSound, OneAttempt

LEMMA ForgetPartyStep ==
  ASSUME RelayInv, NEW p \in Party, NEW rest, ForgetParty(p, rest)
  PROVE  RelayInv' /\ OutcomesKept
<1>1. /\ RelayTypes /\ known' = known \ {p} /\ UNCHANGED <<bound, attempts, inbox, lapsed>>
      /\ \A k \in 1 .. Len(inbox) : inbox[k].to # p
  BY DEF ForgetParty, RelayInv, RelayTypes
<1>2. InboxSound'
  BY <1>1 DEF RelayInv, InboxSound, IsInvite, Held, LegsFor
<1> QED
  BY <1>1, <1>2 DEF RelayInv, RelayTypes, LapsedSound, OutcomesKept, Sound, Accounted, Outstanding

-----------------------------------------------------------------------------
(* The relay.                                                              *)

LEMMA RelayNextStep == ASSUME RelayInv, RelayNext PROVE RelayInv' /\ OutcomesKept
<1>1. CASE RelayIncoming
  <2>1. PICK type \in RelayMessageTypes, from \in bound, to \in Party \ {RelayDid}, i \in Sid :
        \E tag \in TagsOf(type) \cap EnvTag, u \in UpdatesOf(type) :
           /\ type = "invite" => FreshInvite(i)
           /\ RelayRecv(Msg(type, from, to, i, tag, u), NothingDown)
    BY <1>1 DEF RelayIncoming
  <2>2. PICK tag \in TagsOf(type) \cap EnvTag, u \in UpdatesOf(type) :
           /\ type = "invite" => FreshInvite(i)
           /\ RelayRecv(Msg(type, from, to, i, tag, u), NothingDown)
    BY <2>1
  <2> DEFINE m == Msg(type, from, to, i, tag, u)
  <2>3. m.type = type /\ m.sid = i
    BY DEF Msg
  <2>4. m \in RelayMessage
    <3>1. from \in Party
      BY PartyAssumption DEF RelayInv, RelayTypes
    <3>2. tag \in Tag
      BY RelayAssumption
    <3>3. u \in UpdateId \cup {0}
      BY DEF UpdatesOf
    <3> QED BY <3>1, <3>2, <3>3 DEF Msg, RelayMessage
  <2> HIDE DEF m
  <2> QED BY <2>2, <2>3, <2>4, RecvStep DEF m
<1>2. CASE RelayBinding
  BY <1>2, BindStep, UnbindStep DEF RelayBinding
<1>3. CASE RelayClock
  <2>1. ASSUME NEW k \in 1 .. MaxInbox, ExpireQueued(k, NothingDown)
        PROVE  RelayInv' /\ OutcomesKept
    BY <2>1, InboxShrinks DEF ExpireQueued
  <2> QED
    BY <1>3, <2>1, AdvanceStep, ForgetAttemptStep, ForgetPartyStep, LegExpiredStep DEF RelayClock
<1> QED BY <1>1, <1>2, <1>3 DEF RelayNext

LEMMA RelayStep == ASSUME RelayInv, [RelayNext]_relayVars PROVE RelayInv' /\ OutcomesKept
<1>1. CASE UNCHANGED relayVars
  BY <1>1, NothingChanges DEF relayVars
<1> QED BY <1>1, RelayNextStep

LEMMA RelayInvImplies ==
  ASSUME RelayInv
  PROVE  OpenAttemptHasLeg /\ OutcomeMatchesLegs /\ HeldOnlyWhileOffline /\ NothingWaitsOnExpiredInvite
<1>1. DOMAIN inbox = 1 .. Len(inbox)
  BY DEF RelayInv, RelayTypes
<1> QED
  BY <1>1 DEF RelayInv, RelayTypes, Sound, Accounted, InboxSound, IsInvite, LapsedSound, Held,
       OpenAttemptHasLeg, OutcomeMatchesLegs, HeldOnlyWhileOffline, NothingWaitsOnExpiredInvite

\* The relay's state hangs together whatever connected devices send it.
THEOREM RelayInvariant == RelaySpec => []RelayInv
<1> QED
  BY RelayInitInv, RelayStep, PTL DEF RelaySpec

\* An attempt without an outcome always has a leg that can still give it one
\* (check_complete is called wherever a leg ends).
THEOREM NoAttemptHangs == RelaySpec => []OpenAttemptHasLeg
<1> QED
  BY RelayInvariant, RelayInvImplies, PTL

\* The outcome the relay records is the one its legs had.
THEOREM OutcomesAreTrue == RelaySpec => []OutcomeMatchesLegs
<1> QED
  BY RelayInvariant, RelayInvImplies, PTL

\* Nothing is held for a recipient that is connected or that has been
\* forgotten (bind flushes, forget asks first).
THEOREM HeldForTheOffline == RelaySpec => []HeldOnlyWhileOffline
<1> QED
  BY RelayInvariant, RelayInvImplies, PTL

\* An expired invite is neither held nor waited for (expire_queues,
\* expire_silent_legs).
THEOREM ExpiryIsComplete == RelaySpec => []NothingWaitsOnExpiredInvite
<1> QED
  BY RelayInvariant, RelayInvImplies, PTL

\* What the initiator was told of an attempt is never changed afterwards.
THEOREM OutcomesAreFinal == RelaySpec => OutcomeIsFinal
<1>1. OutcomesKept => [\A i \in Sid : attempts[i].outcome # "none" =>
                         \/ attempts'[i].outcome = attempts[i].outcome
                         \/ attempts'[i] = NoAttempt]_relayVars
  BY DEF OutcomesKept
<1> QED
  BY <1>1, RelayInitInv, RelayStep, PTL DEF RelaySpec, OutcomeIsFinal
=============================================================================
