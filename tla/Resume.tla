-------------------------------- MODULE Resume --------------------------------
(***************************************************************************)
(* What a device keeps about one group so that a crash loses nothing and   *)
(* nothing is processed twice: class Resume of                             *)
(* impl/tools/dsipvec/messaging.py.  A position holds the last cursor the  *)
(* device has committed, whether it has joined the group, the number up to *)
(* which it has every item, and the numbers it has beyond that.  An item   *)
(* is processed and its position committed together or not at all, so a    *)
(* crash leaves the position as it was.                                    *)
(***************************************************************************)
EXTENDS Integers

NoPosition == -1

\* A device before its welcome.
Fresh == [cursor |-> 0, joined |-> FALSE, contiguous |-> NoPosition, seen |-> {}]

Sequenced(it) == it.class \in {"handshake", "application"}

\* Mutant: what was seen beyond a gap is not remembered.
DuplicateBelow(p, it) ==
  \/ Sequenced(it) /\ p.contiguous # NoPosition /\ it.seq <= p.contiguous
  \/ it.class = "welcome" /\ p.joined

\* _duplicate: recognised by its number, never by decrypting it.
IsDuplicate(p, it) ==
  \/ Sequenced(it) /\ p.contiguous # NoPosition /\ (it.seq <= p.contiguous \/ it.seq \in p.seen)
  \/ it.class = "welcome" /\ p.joined

\* The numbers a device has once seq is among them; the first is where it starts.
Positioned(p, seq) ==
  LET have == p.seen \cup {s \in {seq} : s > p.contiguous}
      upTo == CHOOSE n \in {p.contiguous} \cup have :
                 n + 1 \notin have /\ \A k \in (p.contiguous + 1) .. n : k \in have
  IN IF p.contiguous = NoPosition THEN [p EXCEPT !.contiguous = seq]
     ELSE [p EXCEPT !.contiguous = upTo, !.seen = {k \in have : k > upTo}]

\* The position committed with an item; a welcome says where its device starts.
Committed(p, it) ==
  LET q == [p EXCEPT !.cursor = it.n] IN
  IF IsDuplicate(p, it) THEN q
  ELSE IF Sequenced(it) THEN Positioned(q, it.seq)
  ELSE IF it.class = "welcome" THEN [q EXCEPT !.joined = TRUE, !.contiguous = it.seq, !.seen = {}]
  ELSE q
=============================================================================
