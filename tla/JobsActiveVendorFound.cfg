CONSTANTS
  j1 = j1
  j2 = j2
  j3 = j3
  v1 = v1
  None = None
  Job <- MCJob
  Vendor <- MCVendor
  Batch = 2
  MaxFaults = 1
SPECIFICATION Spec
PROPERTY ActiveVendorFound
