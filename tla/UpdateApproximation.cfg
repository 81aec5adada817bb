CONSTANTS
    NumberOfNodes = 3
    One = 4
    Graphs <- MCGraphs
    MaxK = 3
    Iterations = {0, 1, 2, 3}
SPECIFICATION FairSpec
CHECK_DEADLOCK FALSE
INVARIANTS
    WeightedDegreesAreExact
    StaleScoresAreUpperBounds
    RacesOverestimate
PROPERTIES
    SelectsTheHighestScore
    ReturnsKSeeds
