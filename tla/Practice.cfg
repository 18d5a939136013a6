CONSTANTS
    Half = Half
    Infinite = Infinite
    Word = Word
    Blank = Blank
    TypedTexts <- MCTypedTexts
    TypedNumbers <- MCTypedNumbers
    TypedWords <- MCTypedWords
    Difficulty = "BEGINNER"
    Shown <- MCShown
    Visited <- MCVisited
    MaxEdits = 2
    MaxReseeds = 1
    MaxVisits = 2
SPECIFICATION Spec
INVARIANT RunsAreDefined
INVARIANT BoxTellsTheRun
INVARIANT AuthoredIsRight
PROPERTY ChallengesAreHonest
CHECK_DEADLOCK FALSE
