CONSTANTS
  Runs <- MCRuns
  StudyRuns <- MCStudyRuns
  PERFORM_ONE_IN <- MCPerformOneIn
  MaxOperations = 5
SPECIFICATION FairSpec
CHECK_DEADLOCK FALSE
INVARIANT OneDriverShown
PROPERTY RunKeepsItsRules
PROPERTY MotionEnds
