CONSTANTS
  Topics = {t1, t2}
  Categories = {c1}
  Events = {e1, e2}
  Requests = {r1, r2}
  None = None
  MaxCalls = 5
  ABANDON_JUNCTION_THRESHOLD = 1
  ABANDON_SESSION_GAP = 2
  BOTTOM_OUT_REMEDIATION_COUNT = 2
SPECIFICATION Spec
SYMMETRY Symmetry
CHECK_DEADLOCK FALSE
INVARIANT TypeOK
INVARIANT HistoryInv
INVARIANT PersistentEarned
INVARIANT ProbeCountExact
INVARIANT AbandonedForCause
