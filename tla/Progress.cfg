SPECIFICATION Spec
SYMMETRY MCSymmetry
CONSTANTS
  r1 = r1
  r2 = r2
  badge = badge
  None = None
  Answers <- MCAnswers
  Applicable = {"ACCURACY", "BREADTH", "FEYNMAN"}
  accuracyThreshold = 85
  accuracyWindow = 2
  accuracyMinAttempts = 2
  breadthThreshold = 2
  feynmanThreshold = 80
  challengeThreshold = 1
  Badges = {badge}
  Requests = {r1, r2}
  Budgets <- MCBudgets
INVARIANT RewardsAreEarned
PROPERTY MasteredOnce
CHECK_DEADLOCK FALSE
