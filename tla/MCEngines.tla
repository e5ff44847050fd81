------------------------------- MODULE MCEngines -------------------------------
(* The engines that do not meet each other, in one run: each behaviour is one  *)
(* of the subject, the others staying where they start.                        *)
EXTENDS Gateway, Outbox, Successors, Gaps, CommitRetry, Waker, Subscriptions, Alarms

VARIABLE subject

Subjects == {"gateway", "outbox", "successors", "gaps", "retry", "waker", "subscriptions",
             "alarms"}

EnginesInit ==
  /\ subject \in Subjects
  /\ GatewayInit /\ OutboxInit /\ SuccessorInit /\ GapInit /\ RetryInit /\ WakerInit
  /\ SubscriptionInit /\ AlarmInit
  /\ subject # "gateway" => direction = "inbound"
  /\ subject # "outbox" => refusable = {}
  /\ subject # "gaps" => classOf = [n \in ItemSeq |-> "handshake"]
  /\ subject # "retry" => wanted = [c \in Committer |-> CHOOSE o \in Operation : TRUE]
  /\ subject # "waker" => component = "relay"
  /\ subject # "subscriptions" => target = CHOOSE t \in TargetState : TRUE

Moves(name, next, vars) ==
  IF subject = name THEN next ELSE UNCHANGED vars

EnginesNext ==
  /\ UNCHANGED subject
  /\ Moves("gateway", GatewayNext, gatewayVars)
  /\ Moves("outbox", OutboxNext, outboxVars)
  /\ Moves("successors", SuccessorNext, successorVars)
  /\ Moves("gaps", GapNext, gapVars)
  /\ Moves("retry", RetryNext, retryVars)
  /\ Moves("waker", WakerNext, wakerVars)
  /\ Moves("subscriptions", SubscriptionNext, subscriptionVars)
  /\ Moves("alarms", AlarmNext, alarmVars)

EnginesVars == <<subject, gatewayVars, outboxVars, successorVars, gapVars, retryVars, wakerVars,
                 subscriptionVars, alarmVars>>

EnginesSpec == EnginesInit /\ [][EnginesNext]_EnginesVars /\ OutboxFairness
=============================================================================
