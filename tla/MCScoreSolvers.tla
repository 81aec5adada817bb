--------------------------- MODULE MCScoreSolvers ---------------------------
(* Three nodes and the weights that calculateEdgeWeights gives: 1 / in-degree. *)
EXTENDS ScoreSolvers

G == INSTANCE SmallGraphs

Simple(max) == {G!ArcsOf(S) : S \in {T \in SUBSET {p \in NodeId \X NodeId : p[1] # p[2]} :
                                        Cardinality(T) <= max}}

Multi == { << <<0, 1>>, <<0, 1>>, <<1, 2>>, <<2, 0>>, <<1, 0>> >>,
           << <<0, 1>>, <<2, 1>>, <<1, 0>>, <<1, 0>>, <<2, 2>> >> }

\* Every simple graph without self-loops, and two multigraphs with some.
MCGraphs == {G!GraphOf(G!Weighted(arcs)) : arcs \in Simple(6) \cup Multi}

\* A ring, one cycle that another node feeds or is fed by, a node without in-edges
\* between two without out-edges, the multigraphs, and weights that -e could draw.
MCRankGraphs ==
    {G!GraphOf(G!Weighted(arcs)) :
        arcs \in Multi \cup { << <<0, 1>>, <<1, 2>>, <<2, 0>> >>,
                             << <<0, 1>>, <<1, 0>>, <<2, 0>> >>,
                             << <<0, 1>>, <<0, 2>>, <<1, 0>> >>,
                             << <<1, 0>>, <<1, 2>> >> }}
        \cup {G!GraphOf(<< <<0, 1, 1>>, <<1, 0, 1>>, <<2, 0, 1>>, <<1, 2, 2>> >>),
              G!GraphOf(<< <<0, 1, 2>>, <<2, 1, 2>>, <<1, 0, 2>> >>)}

=============================================================================
