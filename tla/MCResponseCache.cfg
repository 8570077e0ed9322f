CONSTANTS
  s1 = s1
  s2 = s2
  k1 = k1
  k2 = k2
  k3 = k3
  v1 = v1
  v2 = v2
  None = None
  Slot <- MCSlot
  Key <- MCKey
  Vendor <- MCVendor
  Owner <- MCOwner
  VendorTTL <- MCVendorTTL
  Override <- MCOverride
  MaxTTL = 2
  MaxAge = 1
SYMMETRY MCSymmetry
SPECIFICATION Spec
INVARIANTS TypeOK FlushedGone FewOutdated OutdatedExpire
