-------------------------------- MODULE Alarms --------------------------------
(***************************************************************************)
(* From a device's report to the alarm list of the operators: classes      *)
(* HoldDown, InformTracker and AlarmList of impl/tools/dsipvec/events.py.  *)
(* A report comes as a trap or as an inform, which is retransmitted until  *)
(* it is answered; the gateway deposits it, or holds a clear back; the hub *)
(* orders the deposit, or refuses that of an inform.  Timers may expire at *)
(* any moment.                                                             *)
(***************************************************************************)
EXTENDS Integers, Sequences

CONSTANTS Alarm,        \* what alarms are about: (resource, type, qualifier)
          Inform,       \* informs: (source, request id)
          Severity,     \* what an alarm is raised with, by rank
          MinSeverity,  \* the escalation policy
          HoldsClears,  \* hold_s is not 0
          MaxDeposits   \* bound: the deposits on their way

ASSUME AlarmAssumption ==
  /\ Severity \subseteq Nat \ {0} /\ MinSeverity \in Nat
  /\ HoldsClears \in BOOLEAN /\ MaxDeposits \in Nat

Clear   == 0
Trap    == "trap"  \* the inform of a report that is none
Unsent  == [alarm |-> "none", severity |-> Clear]
NotStored == 0 - 1

VARIABLES sent,      \* inform -> the report it carries (external)
          informs,   \* inform -> what the gateway remembers of it
          heldClear, \* alarm -> whether a clear of it is held back
          deposits,  \* what the gateway has deposited and the hub not decided
          list,      \* the alarm list
          latest     \* what the gateway was last told of each alarm

alarmVars == <<sent, informs, heldClear, deposits, list, latest>>

NoAlarm == [state |-> "none", severity |-> Clear, operator |-> "none",
            armed |-> FALSE, escalated |-> FALSE]

AlarmInit ==
  /\ sent = [n \in Inform |-> Unsent]
  /\ informs = [n \in Inform |-> "unknown"]
  /\ heldClear = [a \in Alarm |-> FALSE]
  /\ deposits = <<>>
  /\ list = [a \in Alarm |-> NoAlarm]
  /\ latest = [a \in Alarm |-> [severity |-> Clear, inform |-> Trap]]

-----------------------------------------------------------------------------
(* The gateway.                                                            *)

Deposit(a, severity, n) ==
  deposits' = Append(deposits, [alarm |-> a, severity |-> severity, inform |-> n])

\* Mutant: an inform passes by the clears held back.
HoldDownOfTraps(a, severity, n) ==
  IF HoldsClears /\ severity = Clear /\ n = Trap
  THEN heldClear' = [heldClear EXCEPT ![a] = TRUE] /\ UNCHANGED deposits
  ELSE Deposit(a, severity, n) /\ heldClear' = [heldClear EXCEPT ![a] = @ /\ n # Trap]

\* A clear is held; any other report drops a held clear and is deposited, and so
\* is the clear of an inform.
HoldDown(a, severity, n) ==
  IF HoldsClears /\ severity = Clear /\ n = Trap
  THEN heldClear' = [heldClear EXCEPT ![a] = TRUE] /\ UNCHANGED deposits
  ELSE Deposit(a, severity, n) /\ heldClear' = [heldClear EXCEPT ![a] = FALSE]

ReceiveTrap(a, severity) ==
  /\ Len(deposits) < MaxDeposits
  /\ HoldDown(a, severity, Trap)
  /\ latest' = [latest EXCEPT ![a] = [severity |-> severity, inform |-> Trap]]
  /\ UNCHANGED <<sent, informs, list>>

\* Whether an inform makes an event.  One that is pending does not, and one that
\* is answered is answered again.
Deposits(n) == informs[n] = "unknown"

\* An inform, or its retransmission: the device sends the same report again.
ReceiveInform(n, a, severity) ==
  /\ Len(deposits) < MaxDeposits
  /\ sent[n] \in {Unsent, [alarm |-> a, severity |-> severity]}
  /\ Deposits(n)
  /\ sent' = [sent EXCEPT ![n] = [alarm |-> a, severity |-> severity]]
  /\ informs' = [informs EXCEPT ![n] = "pending"]
  /\ HoldDown(a, severity, n)
  /\ latest' = IF informs[n] = "unknown"
               THEN [latest EXCEPT ![a] = [severity |-> severity, inform |-> n]] ELSE latest
  /\ UNCHANGED list

\* A held clear has been held for hold_s.
HoldEnds(a) ==
  /\ heldClear[a] /\ Len(deposits) < MaxDeposits
  /\ heldClear' = [heldClear EXCEPT ![a] = FALSE]
  /\ Deposit(a, Clear, Trap)
  /\ UNCHANGED <<sent, informs, list, latest>>

\* An answered inform is remembered no longer.
ForgetInform(n) ==
  /\ informs[n] = "answered"
  /\ informs' = [informs EXCEPT ![n] = "unknown"]
  /\ UNCHANGED <<sent, heldClear, deposits, list, latest>>

-----------------------------------------------------------------------------
(* The alarm list.                                                         *)

\* _arm: the escalation timer of an alarm runs or it does not.
Arm(r) == [r EXCEPT !.armed = /\ r.state = "open" /\ r.operator = "none"
                              /\ ~r.escalated /\ r.severity >= MinSeverity]

Reported(r, severity) ==
  CASE severity = Clear /\ r.state # "open"  -> r
    [] severity = Clear /\ r.state = "open"  -> Arm([r EXCEPT !.state = "cleared"])
    [] severity # Clear /\ r.state # "open"  ->
         Arm([NoAlarm EXCEPT !.state = "open", !.severity = severity])
    [] severity # Clear /\ r.state = "open"  ->
         IF severity = r.severity THEN r ELSE Arm([r EXCEPT !.severity = severity])

\* The hub orders the oldest deposit: the list takes it, an inform is answered.
Stored ==
  /\ deposits # <<>>
  /\ deposits' = Tail(deposits)
  /\ LET d == Head(deposits) IN
     /\ list' = [list EXCEPT ![d.alarm] = Reported(@, d.severity)]
     /\ informs' = [n \in Inform |-> IF n = d.inform /\ informs[n] = "pending"
                                     THEN "answered" ELSE informs[n]]
  /\ UNCHANGED <<sent, heldClear, latest>>

\* The hub refuses an inform's: it is forgotten, for the device to send again.
RefusedInform ==
  /\ deposits # <<>> /\ Head(deposits).inform # Trap
  /\ deposits' = Tail(deposits)
  /\ LET d == Head(deposits) IN
     /\ informs' = [informs EXCEPT ![d.inform] = IF @ = "pending" THEN "unknown" ELSE @]
     /\ latest' = [latest EXCEPT ![d.alarm].severity =
                     IF latest[d.alarm].inform = d.inform THEN NotStored ELSE @]
  /\ UNCHANGED <<sent, heldClear, list>>

\* An operator takes an alarm, or closes it.
AlarmAck(a, state) ==
  /\ list[a].state # "none" /\ list[a].operator \notin {"closed", state}
  /\ list' = [list EXCEPT ![a] = Arm([@ EXCEPT !.operator = state])]
  /\ UNCHANGED <<sent, informs, heldClear, deposits, latest>>

Escalate(a) ==
  /\ list[a].armed
  /\ list' = [list EXCEPT ![a].armed = FALSE, ![a].escalated = TRUE]
  /\ UNCHANGED <<sent, informs, heldClear, deposits, latest>>

AlarmNext ==
  \/ \E a \in Alarm, severity \in Severity \cup {Clear} :
       \/ ReceiveTrap(a, severity)
       \/ \E n \in Inform : ReceiveInform(n, a, severity)
  \/ \E a \in Alarm : HoldEnds(a)
  \/ \E n \in Inform : ForgetInform(n)
  \/ Stored
  \/ RefusedInform
  \/ \E a \in Alarm, state \in {"ack", "closed"} : AlarmAck(a, state)
  \/ \E a \in Alarm : Escalate(a)

AlarmSpec == AlarmInit /\ [][AlarmNext]_alarmVars

-----------------------------------------------------------------------------
(* Properties.                                                             *)

Shown(a) == IF list[a].state = "open" THEN list[a].severity ELSE Clear

\* Once no clear is held and nothing is on its way, the operators see of each
\* alarm what the gateway was last told of it: neither a clear that was held
\* back nor an inform that is repeated or answered late undoes what came after
\* it.  The exception is an inform that the hub refused.
ListShowsTheLatest ==
  deposits = <<>> =>
    \A a \in Alarm : ~heldClear[a] /\ latest[a].severity # NotStored => Shown(a) = latest[a].severity
=============================================================================
