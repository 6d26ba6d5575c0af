CONSTANTS
  Payloads <- MCPayloads
  NoNum = NoNum
  ZLLEN_MAX = 3
  MAX_ENTRIES = 6
SPECIFICATION Spec
VIEW ZiplistView
CHECK_DEADLOCK FALSE
INVARIANT
  NoOverrun
