CONSTANTS
    NumberOfNodes = 3
    One = 2
    Graphs <- MCGraphs
    Iterations = {0, 1, 2, 3, 4}
    SeedNumbers = {0, 3, 4}
    RankGraphs <- MCRankGraphs
    RankIterations = {0, 2}
    RankSeedNumbers = {2, 4}
    RankOne = 100
    Epsilon = 10
SPECIFICATION FairSpec
CHECK_DEADLOCK FALSE
INVARIANTS
    ReadScoresAreExact
    ResultIsTheTop
    SettledRanksSolveTheEquation
PROPERTIES
    PicksTheBest
    Returns
