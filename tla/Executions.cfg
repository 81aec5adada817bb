CONSTANTS
    Benchmarkers = {"b1", "b2"}
    Evaluators = {"e"}
    RegularFiles = {"graph"}
    Garbage <- MCGarbage
    Scenarios <- MCScenarios
SPECIFICATION FairSpec
CHECK_DEADLOCK FALSE
INVARIANTS
    RunsWhatIsAsked
    EveryResultIsKept
    EvaluatorSeesTheRun
PROPERTIES
    Ends
