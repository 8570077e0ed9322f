CONSTANTS
  r1 = r1
  r2 = r2
  r3 = r3
  k1 = k1
  k2 = k2
  None = None
  LockTTL = 1
  ResultTTL = 2
  WaitTimeout = 1
  MaxHold = 1
  Request <- MCRequest
  Key <- MCKey
SPECIFICATION Safety
INVARIANT SingleFlight
