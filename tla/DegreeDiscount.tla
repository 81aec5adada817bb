--------------------------- MODULE DegreeDiscount ---------------------------
(***************************************************************************)
(* DegreeDiscountSolver::solve: k times take the node of the highest       *)
(* remaining out-degree, mark it with -1 and take one from the degree of   *)
(* each node that has an edge to it.  The two parallel algorithms of the   *)
(* code, for_each and max_element, write disjoint entries and only read,   *)
(* so each of them is one step; of several maxima max_element returns the  *)
(* first.  The inner loop is one step per in-edge.  What ScoreSolvers has  *)
(* as well is named apart, so that one module can speak of both.           *)
(***************************************************************************)
EXTENDS InfluenceGraph, SequencesExt

CONSTANTS DiscountGraphs, \* the graphs to solve
          MaxK            \* the largest k asked for

ASSUME DegreeDiscountAssumption == /\ DiscountGraphs \subseteq Graph
                                   /\ MaxK \in Nat

\* The number of edges from u to v, in either view of a graph.
EdgesTo(g, u, v) ==
    {i \in 1..Len(g.forward[u]) : g.forward[u][i].destination = v}

BackEdgesTo(g, u, v) ==
    {i \in 1..Len(g.backward[v]) : g.backward[v][i].destination = u}

\* Both views list the same edges, as module GraphBuild shows of the parser.
ViewsMirror(g) == \A u, v \in NodeId :
    Cardinality(EdgesTo(g, u, v)) = Cardinality(BackEdgesTo(g, u, v))

ASSUME MirrorAssumption == \A g \in DiscountGraphs : ViewsMirror(g)

VARIABLES graph, discount_k,
          degree_,     \* the member vector
          seeds,
          discount_pc, \* "init", "pick", "discount", "done"
          current,     \* *max_iter
          position     \* the in-edge of current the inner loop is at

discount_vars == <<graph, discount_k, degree_, seeds, discount_pc, current, position>>

DiscountInit == /\ graph \in DiscountGraphs
                /\ discount_k \in 0..MaxK
                /\ degree_ = [n \in NodeId |-> 0]
                /\ seeds = <<>>
                /\ discount_pc = "init"
                /\ current = 0
                /\ position = 1

CountDegrees == /\ discount_pc = "init"
                /\ degree_' = [n \in NodeId |-> getOutDegreeOf(graph, n)]
                /\ discount_pc' = "pick"
                /\ UNCHANGED <<graph, discount_k, seeds, current, position>>

IsMaximum(n) == \A m \in NodeId : \/ degree_[m] < degree_[n]
                                  \/ degree_[m] = degree_[n] /\ n <= m

MoreSeeds == Len(seeds) < discount_k

\* Mutant: the mark of a seed is a degree a node can have.
MarkedZero(n) == [degree_ EXCEPT ![n] = 0]

Marked(n) == [degree_ EXCEPT ![n] = -1]

\* Lines 25-34.
Pick == /\ discount_pc = "pick" /\ MoreSeeds
        /\ \E n \in NodeId : /\ IsMaximum(n)
                             /\ seeds' = Append(seeds, n)
                             /\ degree_' = Marked(n)
                             /\ current' = n
        /\ position' = 1
        /\ discount_pc' = "discount"
        /\ UNCHANGED <<graph, discount_k>>

\* Mutant: the edges in the direction of the influence.
OutEdges == getEdgesOf(graph, current)

InEdges == getInverseEdgesOf(graph, current)

\* Mutant: no discount.
Undiscounted == degree_

\* What one in-edge of the picked node takes from its other end, lines 35-37.
Discounted == [degree_ EXCEPT ![InEdges[position].destination] = @ - 1]

Discount == /\ discount_pc = "discount"
            /\ position <= Len(InEdges)
            /\ degree_' = Discounted
            /\ position' = position + 1
            /\ UNCHANGED <<graph, discount_k, seeds, discount_pc, current>>

DiscountDone == /\ discount_pc = "discount"
                /\ position > Len(InEdges)
                /\ discount_pc' = "pick"
                /\ UNCHANGED <<graph, discount_k, degree_, seeds, current, position>>

Return == /\ discount_pc = "pick" /\ ~MoreSeeds
          /\ discount_pc' = "done"
          /\ UNCHANGED <<graph, discount_k, degree_, seeds, current, position>>

DiscountNext == CountDegrees \/ Pick \/ Discount \/ DiscountDone \/ Return

DiscountSpec == DiscountInit /\ [][DiscountNext]_discount_vars

-----------------------------------------------------------------------------
(* Properties.                                                             *)

Selected == Range(seeds)

DiscountTypeOK == /\ graph \in Graph
                  /\ discount_k \in 0..MaxK
                  /\ degree_ \in [NodeId -> Int]
                  /\ seeds \in Seq(NodeId) /\ Len(seeds) <= discount_k
                  /\ discount_pc \in {"init", "pick", "discount", "done"}
                  /\ current \in NodeId
                  /\ position \in Nat \ {0}

\* The out-edges of a node that lead to nodes which are not seeds.
Uncovered(n) == {i \in 1..getOutDegreeOf(graph, n) :
                    graph.forward[n][i].destination \notin Selected}

\* The in-edges of the picked node that come from n and are still to be
\* discounted.
Pending(n) == {j \in BackEdgesTo(graph, n, current) : discount_pc = "discount" /\ j >= position}

\* The degree of an unselected node is the number of its edges to unselected
\* nodes, but for what the running discount has not taken yet, and that of a
\* selected one stays negative.  So no discount is lost, none is made twice,
\* also with parallel edges and self-loops, and a seed never looks unselected.
DegreeIsUncovered ==
    discount_pc # "init" =>
        /\ \A n \in NodeId \ Selected :
              degree_[n] = Cardinality(Uncovered(n)) + Cardinality(Pending(n))
        /\ \A n \in Selected : degree_[n] < 0

\* As long as there are nodes left, no node is selected twice; a k above the
\* number of nodes is the only way to get a repeated seed.
SeedsAreDistinct == /\ DiscountTypeOK
                    /\ Len(seeds) <= NumberOfNodes => IsInjective(seeds)

\* A picked node is new, if there is a new one, and no other unselected node
\* has more edges to unselected nodes at that moment.
PicksTheMostUncovered ==
    [][discount_pc = "pick" /\ discount_pc' = "discount" /\ Selected # NodeId =>
          /\ current' \notin Selected
          /\ \A m \in NodeId \ Selected :
                Cardinality(Uncovered(m)) <= Cardinality(Uncovered(current'))]_discount_vars

=============================================================================
