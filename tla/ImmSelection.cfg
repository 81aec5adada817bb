CONSTANTS
    NumberOfNodes = 3
    One = 2
    RrSets <- MCRrSets
    Inputs <- MCInputs
    MaxK = 4
SPECIFICATION ImmSpec
CHECK_DEADLOCK FALSE
INVARIANTS
    MembersAreDistinct
    CoverageIsExact
    CountersAreUncovered
PROPERTIES
    WalksAreCascades
    PicksAreGreedy
