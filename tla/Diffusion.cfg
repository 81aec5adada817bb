CONSTANTS
    NumberOfNodes = 3
    One = 3
    Graphs <- MCGraphs
    SeedLists <- MCSeedLists
    Loops <- MCLoops
    MostNodes = 2
SPECIFICATION DiffusionSpec
CHECK_DEADLOCK FALSE
INVARIANTS
    SpreadIsExact
    ExpandedNodesAreSettled
    ActivatesTheModelsNodes
    EveryIndexRunsOnce
PROPERTIES
    CascadesAreTheProcess
