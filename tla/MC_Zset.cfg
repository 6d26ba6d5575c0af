CONSTANTS
  Elems = {4, 5, 6, 7}
  Scores = {1, 2}
  RangeScores = {0, 1, 2, 3}
  NoScore = NoScore
  ZSKIPLIST_MAXLEVEL = 1
  ZSET_MAX_ZIPLIST_ENTRIES = 2
  LongElems = {7}
  MAX_ARGS = 2
SPECIFICATION CallSpec
VIEW KeyView
INVARIANTS
  ZsetTypeOK
  DualConsistent
  ZiplistSorted
  EncodingBound
  NoEmptyKey
  NoAssertFails
PROPERTY
  ZsetCommandsSpec
