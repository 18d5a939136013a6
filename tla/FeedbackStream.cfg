CONSTANTS
  Values <- MCValues
  Later = {"fit", "badHint", "badTrace"}
  MaxPiece = 4
  MaxSentences = 2
SPECIFICATION Spec
INVARIANT ShownIsChecked
INVARIANT CacheIsHonest
PROPERTY KeepsContract
CHECK_DEADLOCK FALSE
