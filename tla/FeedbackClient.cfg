CONSTANTS
  Sentences = {"s"}
  MaxSentences = 2
  Levels = {"HIGH", "MEDIUM", "LOW", "NONE"}
  MaxSubmissions = 2
  Steps = 2
SPECIFICATION Spec
INVARIANT CardIsHonest
PROPERTY CardOnlyGrows
PROPERTY JudgedIsReported
CHECK_DEADLOCK FALSE
