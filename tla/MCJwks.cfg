CONSTANTS
  r1 = r1
  r2 = r2
  k1 = k1
  k2 = k2
  Request <- MCRequest
  Key <- MCKey
  FirstKey = k1
  KeysTTL = 1
  MaxFetch = 1
SYMMETRY Symmetry
SPECIFICATION Spec
INVARIANT TypeOK
PROPERTIES RetiredKeyRefused NamedKeyFound
