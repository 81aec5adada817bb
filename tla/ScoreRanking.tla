---------------------------- MODULE ScoreRanking ----------------------------
(***************************************************************************)
(* The solvers that score every node once and return the k best: HighDegree *)
(* (out-degrees), WeightedDegree (sums of edge weights) and EasyImDelta,   *)
(* whose iterations alternate between two vectors.  Scores are computed in *)
(* parallel, a task per node; the last step of all three is the same       *)
(* partial_sort, which leaves the order of equal nodes open.               *)
(***************************************************************************)
EXTENDS WalkScores, FiniteSetsExt

CONSTANTS Graphs, Iterations, SeedNumbers

VARIABLES graph_, k, solver,
          iterations_,        \* of EasyImDelta
          weighted_degree_0_, \* avg_ of WeightedDegree, degree_ of HighDegree
          weighted_degree_1_,
          result,
          pc,                 \* "init": first for_each; "iterate"; "done"
          iteration,
          pending             \* the nodes whose task of the for_each is to come

input  == <<graph_, k, solver, iterations_>>
scores == <<weighted_degree_0_, weighted_degree_1_>>
vars   == <<input, scores, result, pc, iteration, pending>>

Solvers == {"HighDegree", "WeightedDegree", "EasyImDelta"}

Zero == [n \in NodeId |-> 0]

Init == /\ graph_ \in Graphs
        /\ k \in SeedNumbers
        /\ solver \in Solvers
        /\ iterations_ \in IF solver = "EasyImDelta" THEN Iterations ELSE {1}
        /\ weighted_degree_0_ = Zero
        /\ weighted_degree_1_ = Zero
        /\ result = <<>>
        /\ pc = "init"
        /\ iteration = 1
        /\ pending = NodeId

FirstScore(node) == IF solver = "HighDegree" THEN getOutDegreeOf(graph_, node)
                    ELSE SumOver(getEdgesOf(graph_, node), Hop)

ScoreTask(node) ==
    /\ pc = "init" /\ node \in pending
    /\ weighted_degree_0_' = [weighted_degree_0_ EXCEPT ![node] = FirstScore(node)]
    /\ pending' = pending \ {node}
    /\ UNCHANGED <<input, weighted_degree_1_, result, pc, iteration>>

ScoreDone == /\ pc = "init" /\ pending = {}
             /\ pc' = "iterate"
             /\ pending' = NodeId
             /\ UNCHANGED <<input, scores, result, iteration>>

Iterating == pc = "iterate" /\ iteration < iterations_

\* Mutant: a task reads the vector that the others write.
LookupInPlace == IF iteration % 2 = 0 THEN weighted_degree_0_ ELSE weighted_degree_1_

Lookup == IF iteration % 2 = 0 THEN weighted_degree_1_ ELSE weighted_degree_0_

NextScore(node) ==
    Lookup[node] + SumOver(getEdgesOf(graph_, node), LAMBDA e : Along(e, Lookup[e.destination]))

IterationTask(node) ==
    /\ Iterating /\ node \in pending
    /\ IF iteration % 2 = 0
       THEN /\ weighted_degree_0_' = [weighted_degree_0_ EXCEPT ![node] = NextScore(node)]
            /\ UNCHANGED weighted_degree_1_
       ELSE /\ weighted_degree_1_' = [weighted_degree_1_ EXCEPT ![node] = NextScore(node)]
            /\ UNCHANGED weighted_degree_0_
    /\ pending' = pending \ {node}
    /\ UNCHANGED <<input, result, pc, iteration>>

IterationDone == /\ Iterating /\ pending = {}
                 /\ iteration' = iteration + 1
                 /\ pending' = NodeId
                 /\ UNCHANGED <<input, scores, result, pc>>

\* EaSyIM_Delta.cpp, lines 41-46; the other solvers have one vector.
weighted_degree == IF iterations_ % 2 = 0 /\ iterations_ > 1 THEN weighted_degree_1_
                   ELSE weighted_degree_0_

Size == Min({k, NumberOfNodes})

\* Mutant: the comparison is the other way round.
AscendingFirst(nodes) ==
    \A i, j \in DOMAIN nodes : i < j => weighted_degree[nodes[i]] <= weighted_degree[nodes[j]]

\* What partial_sort leaves up to end_iter: the best nodes in order.
BestFirst(nodes) ==
    \A i, j \in DOMAIN nodes : i < j => weighted_degree[nodes[i]] >= weighted_degree[nodes[j]]

Selection(nodes) == SubSeq(nodes, 1, Size)

Orders == {nodes \in [1..NumberOfNodes -> NodeId] : IsInjective(nodes)}

Sort == /\ pc = "iterate" /\ ~Iterating
        /\ \E nodes \in Orders : BestFirst(nodes) /\ result' = Selection(nodes)
        /\ pc' = "done"
        /\ UNCHANGED <<input, scores, iteration, pending>>

Next == \/ \E node \in NodeId : ScoreTask(node) \/ IterationTask(node)
        \/ ScoreDone \/ IterationDone \/ Sort

Spec == Init /\ [][Next]_vars

-----------------------------------------------------------------------------
(* Properties.                                                             *)

Result == Min({k, NumberOfNodes})

\* What a solver scores a node by, independently of its vectors.
ScoreOf(n) ==
    IF solver = "HighDegree" THEN getOutDegreeOf(graph_, n)
    ELSE WalkScoreAvoiding(graph_, {}, Max({1, iterations_}), n)

\* The vector that the sort reads holds every node's score, whatever the order
\* of the tasks: none has read an entry of its own iteration.
ScoresAreExact ==
    pc # "init" /\ ~Iterating => \A n \in NodeId : weighted_degree[n] = ScoreOf(n)

\* The result is k different nodes, or all of them, the best first, and no node
\* that was left out has a higher score than one that was taken.
ResultIsTheTop ==
    pc = "done" =>
        /\ Len(result) = Result
        /\ IsInjective(result)
        /\ \A i \in DOMAIN result : \A n \in NodeId \ {result[j] : j \in 1..i} :
              ScoreOf(n) <= ScoreOf(result[i])

=============================================================================
