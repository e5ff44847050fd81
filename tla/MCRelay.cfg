\* One relay, one attempt at a time, devices that send anything.
CONSTANTS
  c = c  x = x  y = y  B = B  relay = relay
  Nobody = Nobody
  Device = {c, x, y}
  Party = {c, x, y, B, relay}
  IdentityOf <- MCIdentityOf
  Sid = {1}
  UpdateId = {}
  RelayDid = relay
  MaxInbox = 1
  EnvTag = {"none", "ringing", "user.declined", "endpoint.busy", "session.expired",
            "user.cancelled", "user.hangup", "session.invalid-state"}
SPECIFICATION RelaySpec
INVARIANTS OpenAttemptHasLeg OutcomeMatchesLegs HeldOnlyWhileOffline NothingWaitsOnExpiredInvite
PROPERTY OutcomeIsFinal
CHECK_DEADLOCK FALSE
