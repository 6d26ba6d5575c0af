CONSTANTS
  Payloads <- MCPayloads
  NoNum = NoNum
  ZLLEN_MAX = 3
  MAX_ENTRIES = 6
SPECIFICATION Spec
VIEW ZiplistView
\* A memmove outside the blob is undefined behaviour; the model stops there.
CHECK_DEADLOCK FALSE
INVARIANTS
  ZiplistTypeOK
  LayoutConsistent
  ZllenSound
PROPERTY
  PackedListSpec
