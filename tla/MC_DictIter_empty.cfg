CONSTANTS
  k1 = k1
  k2 = k2
  k3 = k3
  Keys = {k1, k2, k3}
  Vals = {v1}
  NoVal = NoVal
  NULL = NULL
  Hash <- MCHash
  HashBits = 3
  CallerMay = {"empty"}
SPECIFICATION Spec
INVARIANTS
  IteratorsCounted
\* A failed assert in dictReleaseIterator aborts the process: no step follows.
CHECK_DEADLOCK FALSE
