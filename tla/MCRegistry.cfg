CONSTANTS
  r1 = r1
  r2 = r2
  r3 = r3
  None = None
  Request <- MCRequest
  Refresh = 1
  MaxQuery = 1
  Life = 2
  Buffer = 1
  MaxFetch = 1
  MaxVersion = 2
SPECIFICATION Spec
INVARIANTS TypeOK StalenessBounded AdapterOfConfig
PROPERTIES NeverOlder TokensSpaced SentAlive FirstPassesLocks
