CONSTANTS
  r1 = r1
  r2 = r2
  r3 = r3
  k1 = k1
  k2 = k2
  None = None
  LockTTL = 1
  ResultTTL = 2
  WaitTimeout = 1
  MaxHold = 2
  Request <- MCRequest
  Key <- MCKey
SPECIFICATION Safety
SYMMETRY Symmetry
INVARIANTS TypeOK SingleFlightUnlessOverrun NoLostWakeup SharedResponses
PROPERTY SharesCalls
