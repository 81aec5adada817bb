CONSTANTS
    NumberOfNodes = 3
    One = 2
    Whole = 4096
    MaxEdges = 0
    CertainReaches <- MCCertainReaches
    NoisyReaches <- None
    MaxK = 3
    PathGraphs <- None
    Dividers = {}
    PathSeedNumbers = {}
SPECIFICATION Spec
CHECK_DEADLOCK FALSE
PROPERTIES
    SelectsGreedily
