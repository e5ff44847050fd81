--------------------------------- MODULE Gaps ---------------------------------
(***************************************************************************)
(* The gap rule of a device: class GapTracker of                           *)
(* impl/tools/dsipvec/messaging.py.  The items of one group, numbered by   *)
(* its hub, arrive in any order, more than once or not at all.  A          *)
(* handshake is not processed while something below it is missing, nor is  *)
(* anything after a held item; after gap_timeout the device rejoins the    *)
(* group and passes over what it holds and what it misses.                 *)
(***************************************************************************)
EXTENDS Integers, Sequences, FiniteSets, FiniteSetsExt, Functions

CONSTANTS LastSeq,    \* bound: the numbers the hub gives out
          GapTimeout  \* gap_timeout, in ticks

ASSUME GapAssumption == LastSeq \in Nat /\ GapTimeout \in Nat \ {0}

ItemSeq == 1 .. LastSeq

VARIABLES classOf,     \* item -> "handshake" or "application"
          contiguous,  \* everything up to it has been seen or passed over
          seen, held,  \* items above contiguous; held is what waits
          gapAge,      \* how long something has been held (now - gap_since)
          emitted      \* what the tracker has said, in order, a rejoin with where it leads

gapVars == <<classOf, contiguous, seen, held, gapAge, emitted>>

GapInit ==
  /\ classOf \in [ItemSeq -> {"handshake", "application"}]
  /\ contiguous = 0 /\ seen = {} /\ held = {} /\ gapAge = 0
  /\ emitted = <<>>

Say(kind, seqs) == [i \in 1 .. Len(seqs) |-> <<kind, seqs[i]>>]

\* The numbers in seqs, each once, in order.
InOrder(seqs) ==
  CHOOSE w \in [1 .. Cardinality(seqs) -> seqs] :
     Range(w) = seqs /\ \A j, k \in DOMAIN w : j < k => w[j] < w[k]

\* The end of the numbers that follow contiguous without a gap.
Reach(arrived) ==
  Max({n \in contiguous .. LastSeq : \A m \in contiguous + 1 .. n : m \in arrived})

\* Mutant: only the handshake waits, not what comes after it.
OnlyHandshakesWait(n) == classOf[n] = "handshake" /\ n > contiguous + 1

\* A handshake beyond a gap waits, and whatever comes after an item that waits.
Waits(n) ==
  \/ classOf[n] = "handshake" /\ n > contiguous + 1
  \/ \E h \in held : n > h

\* Mutant: only the lowest item that waits is released.
ReleasedOne(waits, reach) == {n \in waits : n <= reach /\ n = Min(waits)}

\* Nothing is missing any more below what is released.
Released(waits, reach) == {n \in waits : n <= reach}

\* A duplicate, at or below contiguous or seen, changes nothing.
ItemArrives(n) ==
  /\ n > contiguous /\ n \notin seen
  /\ LET waits == IF Waits(n) THEN held \cup {n} ELSE held
         reach == Reach(seen \cup {n})
         out == Released(waits, reach)
     IN /\ contiguous' = reach
        /\ seen' = {m \in seen \cup {n} : m > reach}
        /\ held' = waits \ out
        /\ emitted' = emitted \o Say(IF Waits(n) THEN "hold" ELSE "process", <<n>>)
                              \o Say("process", InOrder(out))
        /\ gapAge' = IF held' = {} THEN 0 ELSE gapAge
  /\ UNCHANGED classOf

GapClock ==
  /\ held # {}
  /\ IF gapAge + 1 < GapTimeout
     THEN gapAge' = gapAge + 1 /\ UNCHANGED <<contiguous, seen, held, emitted>>
     ELSE /\ contiguous' = Max(held \cup seen)
          /\ emitted' = Append(emitted, <<"rejoin", Max(held \cup seen)>>)
          /\ seen' = {} /\ held' = {} /\ gapAge' = 0
  /\ UNCHANGED classOf

GapNext == GapClock \/ \E n \in ItemSeq : ItemArrives(n)

GapSpec == GapInit /\ [][GapNext]_gapVars

-----------------------------------------------------------------------------
(* Properties.                                                             *)

SaidBefore(kind, n, i) == \E j \in 1 .. i - 1 : emitted[j] = <<kind, n>>

\* A rejoin has passed over n.
PassedBefore(n, i) == \E j \in 1 .. i - 1 : emitted[j][1] = "rejoin" /\ emitted[j][2] >= n

\* A handshake is processed after everything below it, and nothing is processed
\* before a lower item that was held already, unless a rejoin passed over that;
\* and no item is processed twice.
EpochsInOrder ==
  \A i \in 1 .. Len(emitted) : emitted[i][1] = "process" =>
     LET n == emitted[i][2] IN
     /\ ~SaidBefore("process", n, i)
     /\ \A m \in 1 .. n - 1 :
           classOf[n] = "handshake" \/ SaidBefore("hold", m, i)
              => SaidBefore("process", m, i) \/ PassedBefore(m, i)

\* Nothing is held for ever: what is held is behind an item that has not
\* arrived, the tracker counts its age, and an item once seen that is not held
\* was processed or passed over.
HeldBehindGap ==
  /\ held # {} => \E m \in 1 .. Min(held) : m > contiguous /\ m \notin seen
  /\ \A n \in ItemSeq : n \in seen \ held => <<"process", n>> \in Range(emitted)
  /\ \A n \in ItemSeq : LET end == Len(emitted) + 1 IN
        SaidBefore("hold", n, end) =>
           n \in held \/ SaidBefore("process", n, end) \/ PassedBefore(n, end)
=============================================================================
