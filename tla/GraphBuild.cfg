CONSTANTS
    VertexListFiles <- MCVertexListFiles
    EdgeListFiles <- MCEdgeListFiles
    One = 60
    RandomWeights = {1, 2}
SPECIFICATION Spec
CHECK_DEADLOCK FALSE
INVARIANTS
    GraphIsTheFile
    ViewsMirror
    InWeightsSumToOne
