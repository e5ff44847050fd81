\* Each engine alone: a gateway call, an outage, the successors of a group,
\* gaps, racing commits (who gives up after two proposals), wakes, subscriptions,
\* alarms.
CONSTANTS
  EarlyMedia = TRUE
  MaxUnderWay = 2
  ItemId = {i1, i2}
  HubTimeout = 2
  Heir = {m1, m2, m3}
  MaxGroupId = 3
  LastSeq = 4
  GapTimeout = 2
  Committer = {c1, c2, c3}
  Operation = {o1, o2, o3}
  MaxAttempts = 2
  Sleeper = {d1, d2}
  Invite = {s1}
  Coalesce = 2
  MaxTime = 3
  Watcher = {w1, w2}
  MaxSub = 2
  MaxLease = 2
  MaxNotices = 2
  TargetState = {t1, t2}
  Alarm = {line}
  Inform = {n1, n2}
  Severity = {1, 2}
  MinSeverity = 2
  HoldsClears = TRUE
  MaxDeposits = 2
SPECIFICATION EnginesSpec
INVARIANTS LegsEndTogether OneSuccessorAtRest EpochsInOrder  AppliedOnce LosersHadTheirTries ShownCallIsHeld SubscriberKnows ListShowsTheLatest
PROPERTIES EverythingSettles
CHECK_DEADLOCK FALSE
