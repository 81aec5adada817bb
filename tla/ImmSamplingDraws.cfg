\* No round (4 nodes), one (6 nodes) and two rounds (12 nodes), with up to six
\* tasks at a time.
CONSTANTS
    NodeNumbers = {4, 6, 12}
    LambdaA = {1, 4, 6}
    LambdaStar = {1, 2, 3, 5}
SPECIFICATION SolveSpec
CHECK_DEADLOCK FALSE
INVARIANTS
    EachRrSetIsRandom
