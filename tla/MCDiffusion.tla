----------------------------- MODULE MCDiffusion ----------------------------
(* Three nodes; every simple graph with at most four edges of weight 0 to 3  *)
(* (of One = 3), some with parallel edges and more edges; every list of up   *)
(* to two seeds and some of three, with repetitions too, as EaSyIM and IMM   *)
(* can return them.  Reductions of up to eleven simulations, in which a part *)
(* can hold a multiple of four indices, other loops over up to five indices. *)
EXTENDS Diffusion

G == INSTANCE SmallGraphs

\* The loops that the program runs.
L == INSTANCE ParallelLoops WITH Loops <- {}

\* The weight of the edge <<from, to>>.
Mixed(a) == << <<1, 1, 2>>, <<0, 1, 3>>, <<2, 1, 1>> >>[a[1] + 1][a[2] + 1]

Multigraphs == {G!GraphOf(<< <<0, 1, 1>>, <<0, 1, 1>>, <<1, 2, 3>>, <<2, 0, 1>> >>),
                G!GraphOf(<< <<0, 2, 1>>, <<1, 2, 1>>, <<2, 2, 1>>, <<0, 1, 2>>, <<2, 1, 1>> >>),
                G!GraphOf(<< <<0, 0, 1>>, <<0, 0, 1>>, <<0, 2, 2>>, <<0, 2, 0>> >>),
                G!GraphOf(<< <<0, 1, 1>>, <<1, 0, 2>>, <<1, 2, 1>>, <<1, 2, 1>>, <<2, 0, 1>> >>)}

MCLoops ==
    {L!cascadeForwardN(n) : n \in 0..11} \cup {L!cascadeBackwardN(n) : n \in 0..11}
        \cup {L!evaluateSpread(n) : n \in 0..11}
        \cup {L!getNodes(n) : n \in 0..5} \cup {L!rrSets(3, n) : n \in 0..5}

MCGraphs == G!SimpleGraphs(4, Mixed) \cup Multigraphs

MCSeedLists == BoundedSeq(NodeId, 2) \cup {<<0, 1, 2>>, <<2, 0, 2>>, <<1, 1, 1>>}

=============================================================================
