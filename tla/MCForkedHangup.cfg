\* As MCForkedCall, and the callee's users hang up as well.
CONSTANTS
  c = c  x = x  y = y  B = B  relay = relay
  Nobody = Nobody
  Device = {c, x, y}
  Party = {c, x, y, B, relay}
  IdentityOf <- MCIdentityOf
  Sid = {1}
  UpdateId = {}
  FirstContact = {}
  MaxInFlight = 0
  RelayDid = relay
  MaxInbox = 2
  EnvTag = {}
  Caller = c
  Callee = B
  BoundAtStart = {c, x}
  MayUnbind = {x, y}
  MayHangUp = {c, x, y}
SPECIFICATION ForkSpec
INVARIANT OneLegActiveAtRest
CHECK_DEADLOCK FALSE
