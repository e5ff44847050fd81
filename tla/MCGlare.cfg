\* Both devices call each other: crossing invites, cancels and answers.
CONSTANTS
  a = a  b = b  A = A  B = B
  Nobody = Nobody
  Device = {a, b}
  Party <- MCParty
  IdentityOf <- MCIdentityOf
  Sid = {1, 2}
  UpdateId = {}
  FirstContact = {b}
  MaxInFlight = 0
  Owner <- MCOwner
  UpdateOwner <- MCUpdateOwner
  Callable = {b, A}
SPECIFICATION FairCallSpec
INVARIANTS CallsAgreeAtRest GlareConverges
PROPERTY EndsTogether
CHECK_DEADLOCK FALSE
