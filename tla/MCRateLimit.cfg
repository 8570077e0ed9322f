CONSTANTS
  s1 = s1
  s2 = s2
  Slot <- MCSlot
  Rate <- MCRate
  Top = 2
  Window = 3
  MaxDelay = 1
  MaxClock = 9
SYMMETRY MCSymmetry
SPECIFICATION Spec
INVARIANTS TypeOK RateBounded
