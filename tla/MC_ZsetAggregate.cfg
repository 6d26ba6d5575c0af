CONSTANTS
  KeyNames = {k1, k2}
  Elems = {a, b}
  LongElems = {b}
  PosInf = PosInf
  NegInf = NegInf
  NaN = NaN
  NoScore = NoScore
  InitScores = {1, PosInf, NegInf}
  Weights = {0, 1}
  MAX_SRC = 2
  MAX_SCORE = 3
  ZSET_MAX_ZIPLIST_ENTRIES = 1
SPECIFICATION Spec
VIEW AggView
INVARIANTS
  ZaggTypeOK
  NoNaNInserted
PROPERTY
  StoreMatchesReference
