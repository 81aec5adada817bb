------------------------------- MODULE EaSyIM -------------------------------
(***************************************************************************)
(* EaSyIM: k times compute, for every node, the weight of the walks of up  *)
(* to iterations_ hops that avoid the selected nodes, and select the best. *)
(* The iterations alternate between two vectors, so that the tasks of a    *)
(* parallel loop read one and write the other; a third vector holds the    *)
(* scores of one hop for iterations_ = 1.  A step is a task of a parallel  *)
(* loop, or a piece of solve between two of them.                          *)
(***************************************************************************)
EXTENDS WalkScores, FiniteSetsExt

CONSTANTS Graphs, Iterations, SeedNumbers

VARIABLES graph_, k, iterations_,
          weighted_degree_even_, weighted_degree_odd_, weighted_degree_0_,
          selected_nodes_, seed_set,
          pc,        \* "init": first for_each; "while"; "iterate"; "reset"; "done"
          iteration,
          pending    \* the nodes whose task of the current for_each is to come

input  == <<graph_, k, iterations_>>
scores == <<weighted_degree_even_, weighted_degree_odd_, weighted_degree_0_>>
seeds  == <<selected_nodes_, seed_set>>
vars   == <<input, scores, seeds, pc, iteration, pending>>

Zero == [n \in NodeId |-> 0]

Init == /\ graph_ \in Graphs
        /\ k \in SeedNumbers
        /\ iterations_ \in Iterations
        /\ weighted_degree_even_ = Zero
        /\ weighted_degree_odd_ = Zero
        /\ weighted_degree_0_ = Zero
        /\ selected_nodes_ = {}
        /\ seed_set = <<>>
        /\ pc = "init"
        /\ iteration = 2
        /\ pending = NodeId

calculateWD(node) == SumOver(getEdgesOf(graph_, node), Hop)

InitTask(node) ==
    /\ pc = "init" /\ node \in pending
    /\ weighted_degree_odd_' = [weighted_degree_odd_ EXCEPT ![node] = calculateWD(node)]
    /\ weighted_degree_0_' = [weighted_degree_0_ EXCEPT ![node] = calculateWD(node)]
    /\ pending' = pending \ {node}
    /\ UNCHANGED <<input, seeds, weighted_degree_even_, pc, iteration>>

InitDone == /\ pc = "init" /\ pending = {}
            /\ pc' = "while"
            /\ UNCHANGED <<input, scores, seeds, iteration, pending>>

SeedsMissing == Len(seed_set) < k

BeginIterations == /\ pc = "while" /\ SeedsMissing
                   /\ iteration' = 2
                   /\ pending' = NodeId
                   /\ pc' = "iterate"
                   /\ UNCHANGED <<input, scores, seeds>>

-----------------------------------------------------------------------------
(* performWeightedDegreeIteration.                                         *)

Lookup == IF iteration % 2 = 0 THEN weighted_degree_odd_ ELSE weighted_degree_even_

\* Lines 80-96.
NextScore(node) ==
    Lookup[node] + SumOver(getEdgesOf(graph_, node),
                           LAMBDA e : IF e.destination \in selected_nodes_ THEN 0
                                      ELSE Along(e, Lookup[e.destination]))

WriteUpdated(node, x) ==
    IF iteration % 2 = 0
    THEN /\ weighted_degree_even_' = [weighted_degree_even_ EXCEPT ![node] = x]
         /\ UNCHANGED weighted_degree_odd_
    ELSE /\ weighted_degree_odd_' = [weighted_degree_odd_ EXCEPT ![node] = x]
         /\ UNCHANGED weighted_degree_even_

IterationTask(node) ==
    /\ pc = "iterate" /\ iteration <= iterations_ /\ node \in pending
    /\ IF node \in selected_nodes_
       THEN UNCHANGED <<weighted_degree_even_, weighted_degree_odd_>>
       ELSE WriteUpdated(node, NextScore(node))
    /\ pending' = pending \ {node}
    /\ UNCHANGED <<input, seeds, weighted_degree_0_, pc, iteration>>

IterationDone == /\ pc = "iterate" /\ iteration <= iterations_ /\ pending = {}
                 /\ iteration' = iteration + 1
                 /\ pending' = NodeId
                 /\ UNCHANGED <<input, scores, seeds, pc>>

-----------------------------------------------------------------------------
(* The selection.                                                          *)

\* Lines 40-44.
weighted_degree == IF iterations_ <= 1 THEN weighted_degree_0_
                   ELSE IF iterations_ % 2 = 0 THEN weighted_degree_even_
                   ELSE weighted_degree_odd_

\* Mutant: the range of max_element ends one node early.
IsBestButLast(n) ==
    /\ n # NumberOfNodes - 1
    /\ \A m \in NodeId \ {NumberOfNodes - 1} :
          \/ weighted_degree[m] < weighted_degree[n]
          \/ weighted_degree[m] = weighted_degree[n] /\ n <= m

\* std::max_element: the first of the largest.
IsBest(n) == \A m \in NodeId : \/ weighted_degree[m] < weighted_degree[n]
                               \/ weighted_degree[m] = weighted_degree[n] /\ n <= m

WithoutDegree0(best) == [weighted_degree_0_ EXCEPT ![best] = 0]

IterationsOver == pc = "iterate" /\ iteration > iterations_

Pick == /\ IterationsOver
        /\ \E best \in NodeId :
              /\ IsBest(best)
              /\ seed_set' = Append(seed_set, best)
              /\ selected_nodes_' = selected_nodes_ \cup {best}
              /\ weighted_degree_0_' = WithoutDegree0(best)
        /\ pending' = NodeId
        /\ pc' = "reset"
        /\ UNCHANGED <<input, weighted_degree_even_, weighted_degree_odd_, iteration>>

\* Lines 127-132.
ResetDegree(node) == IF node \in selected_nodes_ THEN 0 ELSE calculateWD(node)

ResetTask(node) ==
    /\ pc = "reset" /\ node \in pending
    /\ weighted_degree_odd_' = [weighted_degree_odd_ EXCEPT ![node] = ResetDegree(node)]
    /\ pending' = pending \ {node}
    /\ UNCHANGED <<input, seeds, weighted_degree_even_, weighted_degree_0_, pc, iteration>>

ResetDone == /\ pc = "reset" /\ pending = {}
             /\ weighted_degree_even_' = Zero
             /\ pc' = "while"
             /\ UNCHANGED <<input, seeds, weighted_degree_odd_, weighted_degree_0_,
                            iteration, pending>>

Return == /\ pc = "while" /\ ~SeedsMissing
          /\ pc' = "done"
          /\ UNCHANGED <<input, scores, seeds, iteration, pending>>

Next == \/ \E node \in NodeId : InitTask(node) \/ IterationTask(node) \/ ResetTask(node)
        \/ InitDone \/ BeginIterations \/ IterationDone \/ Pick \/ ResetDone \/ Return

Spec == Init /\ [][Next]_vars

-----------------------------------------------------------------------------
(* Properties.                                                             *)

Score == [NodeId -> Nat]

TypeOK == /\ graph_ \in Graph /\ k \in SeedNumbers /\ iterations_ \in Iterations
          /\ weighted_degree_even_ \in Score
          /\ weighted_degree_odd_ \in Score
          /\ weighted_degree_0_ \in Score
          /\ seed_set \in Seq(NodeId) /\ Len(seed_set) <= k
          /\ selected_nodes_ = Range(seed_set)
          /\ pc \in {"init", "while", "iterate", "reset", "done"}
          /\ iteration \in Nat
          /\ pending \subseteq NodeId

\* The weight of the walks of up to iterations_ hops that avoid the selection.
WalkScore(n) ==
    IF n \in selected_nodes_ THEN 0
    ELSE WalkScoreAvoiding(graph_, selected_nodes_, Max({1, iterations_}), n)

\* The vector that a pick reads, of the three, holds the scores of the current
\* selection: however the tasks were ordered, nothing of an earlier selection or
\* iteration is left in it.  A selected node has score 0.
ScoresAreExact == IterationsOver => \A n \in NodeId : weighted_degree[n] = WalkScore(n)

\* A pick has the highest score, and is new as long as some score is positive.
PicksTheBest ==
    [][seed_set' # seed_set =>
          \A n \in NodeId : /\ WalkScore(n) <= WalkScore(Last(seed_set'))
                            /\ WalkScore(n) > 0 => Last(seed_set') \notin selected_nodes_]_vars

=============================================================================
