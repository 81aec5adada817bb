--------------------------- MODULE LinearThreshold ---------------------------
(***************************************************************************)
(* One simulation of LinearThresholdEvaluation: forwardInfluence over the  *)
(* out-edges, backwardInfluence over the in-edges.  A node draws its       *)
(* threshold when the first edge reaches it (-1: not drawn yet) and is     *)
(* activated by the edge that brings its input up to the threshold.        *)
(* Weights, inputs and thresholds are numbers of 1/One-ths; the rounding   *)
(* of the float sums is left out.                                          *)
(***************************************************************************)
EXTENDS InfluenceGraph, Sums, SequencesExt

CONSTANTS Graphs, SeedLists

VARIABLES adjacency, seeds,
          pc,        \* "loop", "edges", "done"
          work_queue, activated, activated_counter,
          input, threshold,
          current, position

vars == <<adjacency, seeds, pc, work_queue, activated, activated_counter, input,
          threshold, current, position>>

NoInput == [n \in NodeId |-> 0]

NotDrawn == [n \in NodeId |-> -1]

Start(s) == /\ seeds = s
            /\ pc = "loop"
            /\ work_queue = s
            /\ activated = Range(s)
            /\ activated_counter = Len(s)
            /\ input = NoInput
            /\ threshold = NotDrawn
            /\ current = 0
            /\ position = 1

forwardInfluence(graph, s) ==
    adjacency = [n \in NodeId |-> getEdgesOf(graph, n)] /\ Start(s)

backwardInfluence(graph, s) ==
    adjacency = [n \in NodeId |-> getInverseEdgesOf(graph, n)] /\ Start(s)

Init == \E graph \in Graphs, s \in SeedLists :
            forwardInfluence(graph, s) \/ backwardInfluence(graph, s)

-----------------------------------------------------------------------------

Pop == /\ pc = "loop"
       /\ work_queue # <<>>
       /\ current' = Last(work_queue)
       /\ work_queue' = Front(work_queue)
       /\ position' = 1
       /\ pc' = "edges"
       /\ UNCHANGED <<adjacency, seeds, activated, activated_counter, input, threshold>>

AtEdge == pc = "edges" /\ position <= Len(adjacency[current])

edge == adjacency[current][position]

SkipActivated == /\ AtEdge
                 /\ edge.destination \in activated
                 /\ position' = position + 1
                 /\ UNCHANGED <<adjacency, seeds, pc, work_queue, activated,
                                activated_counter, input, threshold, current>>

\* Lines 82-85: what the threshold of a node can be when an edge has reached it.
AssignedThreshold(node) ==
    IF threshold[node] < 0 THEN genrand_close_open ELSE {threshold[node]}

InputWithEdge == input[edge.destination] + edge.weight

\* Mutant: < in place of <= at line 88.
ExceedsThreshold(drawn, sum) == drawn < sum

MeetsThreshold(drawn, sum) == drawn <= sum

\* Lines 79-92.
Influence == /\ AtEdge
             /\ edge.destination \notin activated
             /\ \E drawn \in AssignedThreshold(edge.destination) :
                   /\ threshold' = [threshold EXCEPT ![edge.destination] = drawn]
                   /\ IF MeetsThreshold(drawn, InputWithEdge)
                      THEN /\ activated' = activated \cup {edge.destination}
                           /\ activated_counter' = activated_counter + 1
                           /\ work_queue' = Append(work_queue, edge.destination)
                      ELSE UNCHANGED <<activated, activated_counter, work_queue>>
             /\ input' = [input EXCEPT ![edge.destination] = InputWithEdge]
             /\ position' = position + 1
             /\ UNCHANGED <<adjacency, seeds, pc, current>>

EdgesDone == /\ pc = "edges"
             /\ position > Len(adjacency[current])
             /\ pc' = "loop"
             /\ UNCHANGED <<adjacency, seeds, work_queue, activated,
                            activated_counter, input, threshold, current, position>>

Return == /\ pc = "loop"
          /\ work_queue = <<>>
          /\ pc' = "done"
          /\ UNCHANGED <<adjacency, seeds, work_queue, activated,
                         activated_counter, input, threshold, current, position>>

Next == Pop \/ SkipActivated \/ Influence \/ EdgesDone \/ Return

Spec == Init /\ [][Next]_vars

-----------------------------------------------------------------------------
(* Properties, for distinct seeds: a node that is expanded twice brings its  *)
(* weight in twice.                                                          *)

\* The weight of the edges from the node u to v, and from the nodes S to v.
WeightOf(u, v) ==
    SumOfSeq([i \in 1..Len(adjacency[u]) |->
                 IF adjacency[u][i].destination = v THEN adjacency[u][i].weight ELSE 0])

WeightFrom(S, v) ==
    SumOfSeq([n \in 1..NumberOfNodes |-> IF n - 1 \in S THEN WeightOf(n - 1, v) ELSE 0])

\* What one more round of the linear threshold model activates.
Round(A) ==
    A \cup {v \in NodeId : /\ \E u \in A : \E i \in 1..Len(adjacency[u]) :
                                 adjacency[u][i].destination = v
                           /\ threshold[v] <= WeightFrom(A, v)}

\* After as many rounds as there are nodes, no round activates any more.
Rounds ==
    LET round[i \in 0..NumberOfNodes] ==
            IF i = 0 THEN Range(seeds) ELSE Round(round[i - 1])
    IN  round[NumberOfNodes]

\* The result does not depend on the order of the stack: for the thresholds that
\* were drawn, a simulation activates the nodes that the rounds of the model
\* activate from the seeds, no more and no fewer, and returns their number.
ActivatesTheModelsNodes ==
    pc = "done" => /\ activated = Rounds
                   /\ activated_counter = Cardinality(activated)

=============================================================================
