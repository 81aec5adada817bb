---------------------------- MODULE SmallGraphs ----------------------------
(***************************************************************************)
(* Small graphs for the model checker, given as sequences of               *)
(* <<from, to, weight>>, with the in-edges in the order in which           *)
(* calculateBackwardEdges lists them.                                      *)
(***************************************************************************)
EXTENDS InfluenceGraph, SequencesExt

\* The graph that a sequence of <<from, to, weight>> denotes.
GraphOf(arcs) ==
    LET Out(n) == SelectSeq(arcs, LAMBDA a : a[1] = n)
        \* all edges, by tail, then by their order at that tail
        ByTail == FoldLeft(LAMBDA acc, i : acc \o Out(i - 1), <<>>,
                           [i \in 1..NumberOfNodes |-> i])
        In(n)  == SelectSeq(ByTail, LAMBDA a : a[2] = n)
    IN  [forward  |-> [n \in NodeId |-> [i \in 1..Len(Out(n)) |->
                          [destination |-> Out(n)[i][2], weight |-> Out(n)[i][3]]]],
         backward |-> [n \in NodeId |-> [i \in 1..Len(In(n)) |->
                          [destination |-> In(n)[i][1], weight |-> In(n)[i][3]]]]]

Pairs == [i \in 1..(NumberOfNodes * NumberOfNodes) |->
             <<(i - 1) \div NumberOfNodes, (i - 1) % NumberOfNodes>>]

\* Every simple graph (self-loops allowed) with at most max edges; weight(a)
\* is the weight of the edge a.
SimpleGraphs(max, weight(_)) ==
    LET Arcs(S) == SelectSeq(Pairs, LAMBDA a : a \in S)
    IN  {GraphOf([i \in 1..Cardinality(S) |->
                     <<Arcs(S)[i][1], Arcs(S)[i][2], weight(Arcs(S)[i])>>]) :
            S \in {T \in SUBSET (NodeId \X NodeId) : Cardinality(T) <= max}}

ArcsOf(S) == SelectSeq(Pairs, LAMBDA a : a \in S)

InDegree(arcs, n) == Len(SelectSeq(arcs, LAMBDA a : a[2] = n))

\* Pairs <<from, to>> with the weights of calculateEdgeWeights, 1 / in-degree.
Weighted(arcs) ==
    [i \in 1..Len(arcs) |-> <<arcs[i][1], arcs[i][2], One \div InDegree(arcs, arcs[i][2])>>]

=============================================================================
