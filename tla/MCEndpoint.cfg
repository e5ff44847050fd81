\* One device, two sessions, any message from anybody at any time.
CONSTANTS
  a = a  B = B  b = b
  Nobody = Nobody
  Device = {a}
  Party = {a, B, b}
  IdentityOf <- MCIdentityOf
  Sid = {1, 2}
  UpdateId = {}
  FirstContact = {a}
  MaxInFlight = 1
SPECIFICATION Spec
INVARIANTS TypeOK   CancelIsAuthoritative
 
CHECK_DEADLOCK FALSE
