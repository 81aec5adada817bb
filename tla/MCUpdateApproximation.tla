----------------------- MODULE MCUpdateApproximation -----------------------
(* Three nodes and the weights that calculateEdgeWeights gives: 1 / in-degree. *)
EXTENDS UpdateApproximation

G == INSTANCE SmallGraphs

InDegreesAtMost(d, arcs) ==
    \A n \in NodeId : G!InDegree(arcs, n) <= d

\* Every simple graph of in-degree at most two, and some multigraphs.
MCGraphs ==
    {G!GraphOf(G!Weighted(arcs)) :
        arcs \in {a \in {G!ArcsOf(S) : S \in SUBSET (NodeId \X NodeId)} : InDegreesAtMost(2, a)}
               \cup { << <<0, 1>>, <<0, 1>>, <<1, 2>>, <<2, 0>> >>,
                      << <<0, 1>>, <<2, 1>>, <<1, 0>>, <<1, 0>>, <<2, 2>> >>,
                      \* 2 is the first seed, with two in-edges from either of 0 and 1:
                      \* two tasks lower the score of 1 and two that of 0
                      << <<0, 2>>, <<0, 2>>, <<1, 2>>, <<1, 2>>, <<0, 1>>, <<1, 0>>,
                         <<2, 0>>, <<2, 0>>, <<2, 0>>, <<2, 1>>, <<2, 1>>, <<2, 1>> >> }}

\* Four nodes: 1 and 2 lead to 0 and 3 leads to both of them; 0 has some
\* out-edges of its own, which make it the first seed in some of the graphs.
RaceGraphs ==
    {G!GraphOf(G!Weighted(G!ArcsOf({<<1, 0>>, <<2, 0>>, <<3, 1>>, <<3, 2>>, <<1, 3>>, <<2, 3>>}
                                   \cup ({0} \X heads)))) : heads \in SUBSET NodeId}

=============================================================================
