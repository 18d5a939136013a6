CONSTANTS
  t1 = t1
  c1 = c1
  e1 = e1
  e2 = e2
  Topics = {t1}
  Categories = {c1}
  Events = {e1, e2}
  None = None
  MaxCalls = 9
  ABANDON_JUNCTION_THRESHOLD = 1
  ABANDON_SESSION_GAP = 2
  BOTTOM_OUT_REMEDIATION_COUNT = 2
  Last = 4
  Junctions <- MCJunctions
  TileCount <- MCTileCount
  Probing <- MCProbing
  Requests <- MCRequests
  MaxAttempts = 2
  MaxAnswers = 2
  Clicks = {k1}
  Environments <- MCEnvironments
SPECIFICATION FairSpec
CHECK_DEADLOCK FALSE
INVARIANT JunctionsAreCounted
INVARIANT QuickCheckAtItsJunction
PROPERTY NeverAdvancesUnderQuickCheck
PROPERTY RunMovesOn
