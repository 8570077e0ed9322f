CONSTANTS
  r1 = r1
  r2 = r2
  r3 = r3
  k1 = k1
  None = None
  LockTTL = 1
  ResultTTL = 1
  WaitTimeout = 1
  MaxHold = 0
  CacheTTL = 1
  Limit = 1
  PoolSize = 2
  Request <- MCRequest
  Key <- MCKey
SPECIFICATION Spec
INVARIANTS TypeOK OvershootBounded CountsOwnSuccess CacheHoldsSuccess
PROPERTIES UsesDedup FirstRequestEnds
