----------------------------- MODULE WalkScores -----------------------------
(***************************************************************************)
(* The scores that WeightedDegree, EaSyIM, EasyImDelta and                 *)
(* UpdateApproximation give to nodes: sums of edge weights, passed on from *)
(* hop to hop.  A score is an integer in units of 1/One^4, in which walks  *)
(* of up to four hops are exact; the rounding of the floats is left out.   *)
(***************************************************************************)
EXTENDS InfluenceGraph, Sums, SequencesExt, FiniteSets, Combinatorics

\* The weight of an edge as a score.
Hop(e) == e.weight * One * One * One

\* A score passed on over an edge.
Along(e, x) == (e.weight * x) \div One

\* Reference: the weight of the walks of exactly l hops (at most four) from a
\* node that enter no node of S before their last hop.
WalkWeightAvoiding(graph, S) ==
    LET W[l \in 1..4] ==
            [n \in NodeId |->
                SumOver(graph.forward[n],
                        LAMBDA e : IF l = 1 THEN Hop(e)
                                   ELSE IF e.destination \in S THEN 0
                                   ELSE Along(e, W[l - 1][e.destination]))]
    IN  W

\* Reference: what i iterations on top of each other amount to.  A walk of l
\* hops is spread over them in this many ways, since an iteration carries the
\* score of the node itself over.
Spreads(i, l) == choose(i - 1, l - 1)

\* Reference: the score of a node after i >= 1 iterations.
WalkScoreAvoiding(graph, S, i, n) ==
    LET W == WalkWeightAvoiding(graph, S)
    IN  SumOver([l \in 1..i |-> l], LAMBDA l : Spreads(i, l) * W[l][n])

=============================================================================
