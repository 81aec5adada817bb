CONSTANTS
    NumberOfNodes = 4
    One = 2
    Whole = 4096
    MaxEdges = 4
    CertainReaches <- MCCertainReaches
    NoisyReaches <- MCNoisyReaches
    MaxK = 4
    PathGraphs <- MCPathGraphs
    Dividers = {0, 3, 320}
    PathSeedNumbers = {0, 4}
SPECIFICATION FairSpec
CHECK_DEADLOCK FALSE
INVARIANTS
    QueueAndSeedsPartitionTheNodes
    DeltasBoundGains
    RecordedSpreadsAreCurrent
    InfluenceBoundsTheCascade
PROPERTIES
    LaterPicksAreGreedy
    ReturnsKSeeds
