SPECIFICATION Spec
CONSTANTS
    Arrays <- MCArrays
    Haystacks <- MCHaystacks
    Targets <- MCTargets
    Rows <- MCRows
    NewValue = 9
    Capacity = 3
    Chains <- MCChains
    Strangers = {0}
    Keys <- MCKeys
    Unknown = {0, 99}
    Orders <- MCOrders
    HeapOrders <- MCOrders
    WordLists <- MCWordLists
    Sought <- MCSought
    KeyLists <- MCKeyLists
    HashTargets <- MCHashTargets
    HashCapacity = 4
    OpLists <- MCOpLists
    Networks <- MCNetworks
    MatrixSize = 5
    Grids <- MCGrids
    Depths <- MCDepths
    Strips <- MCStrips
    Goals <- MCGoals
    Series <- MCSeries
    Activities <- MCActivities
    WordPairs <- MCWordPairs
    Purses <- MCPurses
    Boards <- MCBoards
INVARIANT RotationFits
