--------------------------- MODULE InfluenceGraph ---------------------------
(***************************************************************************)
(* The read-only graph that every diffusion model and every solver holds   *)
(* by reference (class Graph).  How the parser builds it is the subject of *)
(* module GraphBuild; here a graph is what its two accessors return: the   *)
(* sequence of out-edges and the sequence of in-edges of a node, in the    *)
(* order of the offset arrays.  Parallel edges and self-loops are legal.   *)
(*                                                                         *)
(* An edge weight is a float in [0, 1] in the code and an integer number   *)
(* of 1/One-ths here, so that the certain edge is weight One, the          *)
(* impossible one is 0 and a draw of dSFMT from [0, 1) is 0..One-1.        *)
(***************************************************************************)
EXTENDS Integers, Sequences

CONSTANTS NumberOfNodes, \* getNumberOfNodes()
          One            \* the integer that stands for the weight 1.0f

ASSUME GraphAssumption == /\ NumberOfNodes \in Nat \ {0}
                          /\ One \in Nat \ {0}

NodeId == 0..(NumberOfNodes - 1)

Weight == 0..One

Edge == [destination : NodeId, weight : Weight]

Adjacency == [NodeId -> Seq(Edge)]

Graph == [forward : Adjacency, backward : Adjacency]

getEdgesOf(graph, node) == graph.forward[node]

getInverseEdgesOf(graph, node) == graph.backward[node]

getOutDegreeOf(graph, node) == Len(getEdgesOf(graph, node))

getInDegreeOf(graph, node) == Len(getInverseEdgesOf(graph, node))

\* dsfmt_genrand_close_open: uniform on [0, 1).  Every value is possible.
genrand_close_open == 0..(One - 1)

=============================================================================
