-------------------------- MODULE MCDegreeDiscount --------------------------
(* Three nodes, every simple graph (self-loops allowed) and some with       *)
(* parallel edges; k up to one more than there are nodes.                   *)
EXTENDS DegreeDiscount

G == INSTANCE SmallGraphs

Unit(a) == One

ParallelEdges == {G!GraphOf(<< <<0, 1, 1>>, <<0, 1, 1>>, <<1, 2, 1>>, <<2, 2, 1>> >>),
                  G!GraphOf(<< <<0, 2, 1>>, <<1, 2, 1>>, <<1, 2, 1>>, <<2, 1, 1>>, <<2, 1, 1>> >>),
                  G!GraphOf(<< <<0, 0, 1>>, <<0, 0, 1>>, <<1, 0, 1>>, <<2, 1, 1>> >>)}

MCGraphs == G!SimpleGraphs(9, Unit) \cup ParallelEdges

=============================================================================
