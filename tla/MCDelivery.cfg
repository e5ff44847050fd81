\* The group moves once; h1 may be slower than the mailbox is patient.
CONSTANTS
  h1 = h1
  h2 = h2
  d1 = d1
  d2 = d2
  HubName = {h1, h2}
  Device = {d1, d2}
  Group = {g}
  TheGroup = g
  Sender = {d1}
  FirstHub = h1
  Quota = 9
  PendingTtl = 9
  PendingMax = 9
  HandoverWait = 1
  Limit = 9
  MaxCounter = 9
  MaxSeq = 3
  MaxMoves = 1
  MaxFaults = 1
SPECIFICATION DeliverySpec
INVARIANTS  NothingIsLost InOrderUnlessAnnounced
PROPERTIES EverythingArrives
CHECK_DEADLOCK FALSE
