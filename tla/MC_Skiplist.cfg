CONSTANTS
  Elems = {1, 2, 3}
  Scores = {1, 2}
  RangeScores = {0, 1, 2, 3}
  NoScore = NoScore
  ZSKIPLIST_MAXLEVEL = 3
SPECIFICATION CallSpec
VIEW ListView
INVARIANTS
  SkiplistTypeOK
  SkiplistWellFormed
  SpansCorrect
  RankCorrect
  RangeCorrect
PROPERTY
  SortedSetSpec
