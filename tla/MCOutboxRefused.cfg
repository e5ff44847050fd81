\* An outage in which the hub refuses an item.
CONSTANTS
  ItemId = {i1, i2}
  HubTimeout = 2
SPECIFICATION OutboxSpec
INVARIANTS DownKeepsTrying
CHECK_DEADLOCK FALSE
