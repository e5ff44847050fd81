\* x is connected when the call comes in, y connects at some time, both may
\* lose their connection.
CONSTANTS
  c = c  x = x  y = y  B = B  relay = relay
  Nobody = Nobody
  Device = {c, x, y}
  Party = {c, x, y, B, relay}
  IdentityOf <- MCIdentityOf
  Sid = {1}
  UpdateId = {}
  FirstContact = {}
  MaxInFlight = 0
  RelayDid = relay
  MaxInbox = 2
  EnvTag = {}
  Caller = c
  Callee = B
  BoundAtStart = {c, x}
  MayUnbind = {x, y}
  MayHangUp = {c}
SPECIFICATION FairForkSpec
INVARIANTS OneLegActiveAtRest LegRecordsAgreeAtRest WaitsForSomebody
PROPERTIES NobodyLeftBehind AnswersResolve
CHECK_DEADLOCK FALSE
