--------------------------- MODULE MCLazySolvers ---------------------------
(* For CelfGreedy the reachability relation of every graph on the nodes, and *)
(* for noisy averages those in which a node reaches itself or everything.    *)
(* For IPASolver every simple graph with at most MaxEdges edges, no self-    *)
(* loops and no node of more than One in-edges, weighted by the in-degrees,  *)
(* its nodes numbered by falling out-degree; and a multigraph with parallel  *)
(* edges, a self-loop and a certain edge.                                    *)
EXTENDS LazySolvers, SmallGraphs

CONSTANT MaxEdges

IsReachability(r) == /\ \A n \in NodeId : n \in r[n]
                     /\ \A n \in NodeId : \A m \in r[n] : r[m] \subseteq r[n]

MCCertainReaches == {r \in [NodeId -> SUBSET NodeId] : IsReachability(r)}

MCNoisyReaches == {r \in MCCertainReaches : \A n \in NodeId : r[n] \in {{n}, NodeId}}

OutDegree(S, n) == Cardinality({a \in S : a[1] = n})

Simple == {S \in SUBSET {a \in NodeId \X NodeId : a[1] # a[2]} :
              /\ Cardinality(S) <= MaxEdges
              /\ \A n \in NodeId : Cardinality({a \in S : a[2] = n}) <= One
              /\ \A n \in NodeId \ {0} : OutDegree(S, n) <= OutDegree(S, n - 1)}

MultiGraph == GraphOf(<<<<0, 1, 1>>, <<0, 1, 1>>, <<1, 2, One>>, <<2, 0, 1>>, <<2, 2, 1>>>>)

MCPathGraphs == {GraphOf(Weighted(ArcsOf(S))) : S \in Simple} \cup {MultiGraph}

None == {}

=============================================================================
