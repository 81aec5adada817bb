--------------------------- MODULE MCImmSelection ---------------------------
(* Three nodes; one RR set on every simple graph with at most three edges    *)
(* and a few with parallel edges; four of them on a ring, where every set of *)
(* nodes but the empty one can be an RR set.                                 *)
EXTENDS ImmSelection

G == INSTANCE SmallGraphs

\* The weight of the edge <<from, to>>, of One = 2.
Mixed(a) == << <<1, 1, 2>>, <<0, 1, 1>>, <<2, 1, 1>> >>[a[1] + 1][a[2] + 1]

Multigraphs == {G!GraphOf(<< <<0, 1, 1>>, <<0, 1, 1>>, <<1, 2, 2>>, <<2, 0, 1>> >>),
                G!GraphOf(<< <<0, 0, 1>>, <<2, 0, 1>>, <<2, 0, 1>>, <<0, 2, 0>> >>),
                G!GraphOf(<< <<0, 1, 1>>, <<1, 0, 1>>, <<2, 1, 1>>, <<2, 1, 1>>, <<0, 2, 1>> >>)}

Ring == G!GraphOf(<< <<0, 1, 1>>, <<1, 2, 1>>, <<2, 0, 1>> >>)

MCInputs == [graph : G!SimpleGraphs(3, Mixed) \cup Multigraphs, theta : {1}]
            \cup [graph : {Ring}, theta : {4}]

\* rr_sets_ starts empty.
MCRrSets == {<<>>}

=============================================================================
