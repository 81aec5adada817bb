CONSTANTS
    NumberOfNodes = 4
    One = 6
    Graphs <- RaceGraphs
    MaxK = 1
    Iterations = {3}
SPECIFICATION Spec
CHECK_DEADLOCK FALSE
INVARIANTS
    SubtractionsAddUp
