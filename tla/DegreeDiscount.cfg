CONSTANTS
    NumberOfNodes = 3
    One = 1
    DiscountGraphs <- MCGraphs
    MaxK = 4
SPECIFICATION DiscountSpec
CHECK_DEADLOCK FALSE
INVARIANTS
    DegreeIsUncovered
    SeedsAreDistinct
PROPERTIES
    PicksTheMostUncovered
