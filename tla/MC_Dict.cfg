CONSTANTS
  k1 = k1
  k2 = k2
  k3 = k3
  k4 = k4
  Keys = {k1, k2, k3, k4}
  Vals = {v1, v2}
  NoVal = NoVal
  Hash <- MCHash
  HashBits = 3
  DICT_HT_INITIAL_SIZE <- MCInitialSize
  dict_force_resize_ratio <- MCRatio
SPECIFICATION DictSpec
INVARIANTS
  TypeOK
  TablesConsistent
  FindCorrect
  LoadBounded
PROPERTIES
  DictMapSpec
  RehashAdvances
