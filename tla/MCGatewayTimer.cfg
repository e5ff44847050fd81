\* A call whose answer may cross the CANCEL of Timer C.
CONSTANTS
  EarlyMedia = TRUE
  MaxUnderWay = 2
SPECIFICATION GatewaySpec
INVARIANTS TimerCEndsTheCall
CHECK_DEADLOCK FALSE
