\* One call with renegotiation from both sides: updates cross updates, replies and bye.
CONSTANTS
  a = a  b = b  A = A  B = B
  Nobody = Nobody
  Device = {a, b}
  Party <- MCParty
  IdentityOf <- MCIdentityOf
  Sid = {1}
  UpdateId = {1, 2, 3, 4}
  FirstContact = {}
  MaxInFlight = 1
  Owner <- MCOwner
  UpdateOwner <- MCUpdateOwner
  Callable = {a, b, A, B}
SPECIFICATION FairCallSpec
INVARIANTS UpdatesAgreeAtRest NoFalseUpdatePending
PROPERTY UpdatesSettle
CHECK_DEADLOCK FALSE
