\* The group moves to h2 and comes back to h1.
CONSTANTS
  h1 = h1
  h2 = h2
  d1 = d1
  d2 = d2
  HubName = {h1, h2}
  Device = {d1}
  Group = {g}
  TheGroup = g
  Sender = {d1}
  FirstHub = h1
  Quota = 9
  PendingTtl = 9
  PendingMax = 9
  HandoverWait = 1
  Limit = 9
  MaxCounter = 9
  MaxSeq = 4
  MaxMoves = 2
  MaxFaults = 0
SPECIFICATION DeliverySpec
INVARIANTS NothingIsLost
CHECK_DEADLOCK FALSE
