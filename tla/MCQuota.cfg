CONSTANTS
  s1 = s1
  s2 = s2
  k1 = k1
  k2 = k2
  None = None
  Slot <- MCSlot
  Key <- MCKey
  Limits <- MCLimits
  FirstRow <- MCFirstRow
  Length <- MCLength
  PeriodTTL <- MCPeriodTTL
  LastNo <- MCLastNo
  MaxFaults = 1
  MaxUpdates = 1
  MaxRequests = 4
SPECIFICATION Spec
SYMMETRY Symmetry
INVARIANTS TypeOK NoCountLost RefusedWhenUsedUp OvershootBounded CountersExpire
CHECK_DEADLOCK FALSE
