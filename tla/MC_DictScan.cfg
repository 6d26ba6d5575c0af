CONSTANTS
  k1 = k1
  k2 = k2
  k3 = k3
  k4 = k4
  Keys = {k1, k2, k3, k4}
  Vals = {v1}
  NoVal = NoVal
  Hash <- MCHash
  HashBits = 3
SPECIFICATION Spec
INVARIANTS
  ScanTypeOK
  ScanComplete
