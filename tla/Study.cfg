SPECIFICATION Spec
SYMMETRY MCSymmetry
CONSTANTS
  ann = ann
  bob = bob
  cal = cal
  sort = sort
  search = search
  r1 = r1
  r2 = r2
  None = None
  Users <- MCUsers
  isDemo = {}
  mayOverlap = {bob}
  STUDY_TOPICS <- MCTopics
  Items = {item}
  Requests = {r1, r2}
  ENROL_ATTEMPTS = 2
  Budgets <- MCBudgets
INVARIANT CodesAreSound
INVARIANT RecordsAreHonest
PROPERTY RecordedOnce
CHECK_DEADLOCK FALSE
