------------------------------ MODULE PageRank ------------------------------
(***************************************************************************)
(* PageRankSolver and WeightedPageRank: ranks that flow against the edges  *)
(* until no rank moves by more than a bound, or for a number of            *)
(* iterations, then the k best nodes.  PageRankSolver writes the vector    *)
(* that its parallel tasks read, and keeps a copy of it only to compare;   *)
(* WeightedPageRank writes a second vector.  A task of the former is one   *)
(* step for each rank that it reads and one for the write; a task of the   *)
(* latter, which reads what nobody writes, is one step.                    *)
(*                                                                         *)
(* A rank is an integer number of 1/RankOne-ths, rounded down when it is   *)
(* stored, as the code rounds to a float there.  Epsilon, the 0.0001 of    *)
(* the code, has to be well above the rounding, as it is for floats.       *)
(***************************************************************************)
EXTENDS InfluenceGraph, Sums, SequencesExt, FiniteSetsExt

CONSTANTS RankGraphs, RankIterations, RankSeedNumbers, RankOne, Epsilon

VARIABLES graph_, k, solver,
          iterations_,      \* 0: until the ranks converge; WeightedPageRank has none
          abs_truncates,    \* abs is the overload for int, which is all that some
                            \* standard libraries declare outside of std
          page_rank_, temp_rank_,
          probability_sum_, \* of WeightedPageRank
          result,
          pc,               \* "sums", "iteration", "tasks", "sort", "done"
          iteration,        \* of PageRankSolver, if their number is given
          pending,          \* the nodes whose task has not written its rank
          reads,            \* node -> the edges whose rank its task has to read
          sums              \* node -> the sum of what its task has read

input == <<graph_, k, solver, iterations_, abs_truncates>>
ranks == <<page_rank_, temp_rank_>>
tasks == <<pending, reads, sums>>
vars  == <<input, ranks, probability_sum_, result, pc, iteration, tasks>>

RankSolvers == {"PageRank", "WeightedPageRank"}

NoRank  == [n \in NodeId |-> 0]
NoReads == [n \in NodeId |-> {}]

Init == /\ graph_ \in RankGraphs
        /\ k \in RankSeedNumbers
        /\ solver \in RankSolvers
        /\ iterations_ \in IF solver = "PageRank" THEN RankIterations ELSE {0}
        /\ abs_truncates \in IF iterations_ = 0 THEN BOOLEAN ELSE {FALSE}
        /\ page_rank_ = [n \in NodeId |-> RankOne]
        /\ temp_rank_ = NoRank
        /\ probability_sum_ = NoRank
        /\ result = <<>>
        /\ pc = IF solver = "PageRank" THEN "iteration" ELSE "sums"
        /\ iteration = 1
        /\ pending = NodeId
        /\ reads = NoReads
        /\ sums = NoRank

Edges(node) == getEdgesOf(graph_, node)

\* WeightedPageRank: the weights of the in-edges of every node.
InWeight(graph, node) == SumOver(getInverseEdgesOf(graph, node), LAMBDA e : e.weight)

precalculateWeightedSums ==
    /\ pc = "sums"
    /\ probability_sum_' = [n \in NodeId |-> InWeight(graph_, n)]
    /\ pc' = "iteration"
    /\ UNCHANGED <<input, ranks, result, iteration, tasks>>

-----------------------------------------------------------------------------
(* One iteration.                                                          *)

\* What an edge brings in, in units of 1/(RankOne * One): the rank of its
\* destination, by in-degree or by weight.
Share(e) ==
    LET target == e.destination
    IN  IF solver = "PageRank"
        THEN (page_rank_[target] * One) \div getInDegreeOf(graph_, target)
        ELSE (page_rank_[target] * (e.weight * One)) \div probability_sum_[target]

SumOfShares(node) == SumOver(Edges(node), Share)

\* The dumping_factor is 0.85.
RankOf(sum) == (15 * RankOne * One + 85 * sum) \div (100 * One)

\* Mutant: the ranks to compare with are not copied.
NoCopy == temp_rank_

\* The copy is made by PageRankSolver only.
Copy == IF solver = "PageRank" THEN page_rank_ ELSE temp_rank_

BeginIteration ==
    /\ pc = "iteration"
    /\ temp_rank_' = Copy
    /\ pending' = NodeId
    /\ reads' = IF solver = "PageRank" THEN [n \in NodeId |-> DOMAIN Edges(n)] ELSE NoReads
    /\ sums' = NoRank
    /\ pc' = "tasks"
    /\ UNCHANGED <<input, page_rank_, probability_sum_, result, iteration>>

ReadRank(node) ==
    /\ pc = "tasks"
    /\ \E i \in reads[node] :
          /\ reads' = [reads EXCEPT ![node] = @ \ {i}]
          /\ sums' = [sums EXCEPT ![node] = @ + Share(Edges(node)[i])]
    /\ UNCHANGED <<input, ranks, probability_sum_, result, pc, iteration, pending>>

Write(node) ==
    IF solver = "PageRank"
    THEN /\ page_rank_' = [page_rank_ EXCEPT ![node] = RankOf(sums[node])]
         /\ UNCHANGED temp_rank_
    ELSE /\ temp_rank_' = [temp_rank_ EXCEPT ![node] = RankOf(SumOfShares(node))]
         /\ UNCHANGED page_rank_

WriteRank(node) ==
    /\ pc = "tasks" /\ node \in pending /\ reads[node] = {}
    /\ Write(node)
    /\ pending' = pending \ {node}
    /\ sums' = [sums EXCEPT ![node] = 0]
    /\ UNCHANGED <<input, probability_sum_, result, pc, iteration, reads>>

-----------------------------------------------------------------------------
(* The loop and the selection.                                             *)

Distance(x, y) == IF x < y THEN y - x ELSE x - y

\* abs(...) > 0.0001; the overload for int makes 0 of every distance below 1.
Moved(node) ==
    LET distance == Distance(page_rank_[node], temp_rank_[node])
    IN  IF abs_truncates THEN distance >= RankOne ELSE distance > Epsilon

\* Mutant: the smallest distance in place of the largest.
AllMoved == \A n \in NodeId : Moved(n)

SomeMoved == \E n \in NodeId : Moved(n)

RunsAgain == IF iterations_ # 0 THEN iteration < iterations_ ELSE SomeMoved

IterationDone ==
    /\ pc = "tasks" /\ pending = {}
    /\ iteration' = IF iterations_ # 0 THEN iteration + 1 ELSE iteration
    /\ page_rank_' = IF solver = "PageRank" THEN page_rank_ ELSE temp_rank_
    /\ pc' = IF RunsAgain THEN "iteration" ELSE "sort"
    /\ UNCHANGED <<input, temp_rank_, probability_sum_, result, tasks>>

Size == Min({k, NumberOfNodes})

Orders == {nodes \in [1..NumberOfNodes -> NodeId] : IsInjective(nodes)}

\* What partial_sort leaves up to end_iter: the best nodes in order.
getKMaxNodes ==
    {SubSeq(nodes, 1, Size) : nodes \in {order \in Orders :
        \A i, j \in DOMAIN order :
            i < j => page_rank_[order[i]] >= page_rank_[order[j]]}}

Sort == /\ pc = "sort"
        /\ result' \in getKMaxNodes
        /\ pc' = "done"
        /\ UNCHANGED <<input, ranks, probability_sum_, iteration, tasks>>

Next == \/ precalculateWeightedSums \/ BeginIteration \/ IterationDone \/ Sort
        \/ \E node \in NodeId : ReadRank(node) \/ WriteRank(node)

Spec == Init /\ [][Next]_vars

-----------------------------------------------------------------------------
(* Properties.                                                             *)

TypeOK == /\ page_rank_ \in [NodeId -> Nat] /\ temp_rank_ \in [NodeId -> Nat]
          /\ probability_sum_ \in [NodeId -> Nat]
          /\ pc \in {"sums", "iteration", "tasks", "sort", "done"}
          /\ iteration \in Nat
          /\ \A n \in NodeId : reads[n] \subseteq 1..Len(Edges(n)) /\ sums[n] \in Nat

\* The second vector of WeightedPageRank holds the ranks that follow from the
\* first, whatever the order of the tasks.
RanksFollow ==
    solver = "WeightedPageRank" /\ pc = "tasks" /\ pending = {} =>
        \A n \in NodeId : temp_rank_[n] = RankOf(SumOfShares(n))

\* The part of a rank that goes over an edge, in units of 1/One.
Part(e) ==
    LET target == e.destination
    IN  IF solver = "PageRank" THEN One \div getInDegreeOf(graph_, target)
        ELSE (e.weight * One) \div probability_sum_[target]

\* Edges lead to nodes that have them as in-edges, with a weight, and the units of
\* the weights are such that every part is a whole number of them.
PartsAreExact(graph) ==
    \A n \in NodeId : \A i \in 1..Len(graph.forward[n]) :
        LET e        == graph.forward[n][i]
            inDegree == getInDegreeOf(graph, e.destination)
            inWeight == InWeight(graph, e.destination)
        IN  /\ inDegree > 0 /\ One % inDegree = 0
            /\ inWeight > 0 /\ (e.weight * One) % inWeight = 0

\* The share of Tolerance of which the sum in one rank can be wrong, when each
\* rank that goes into it is.
Sensitivity(node) == SumOver(Edges(node), Part)

Tolerance == IF abs_truncates THEN RankOne - 1 ELSE Epsilon

\* Ranks that have converged solve the rank equation up to the bound on the last
\* move, even where tasks read ranks that others had already overwritten: each of
\* the two values that a task can have read is that close to the final one.
SettledRanksSolveTheEquation ==
    pc \in {"sort", "done"} /\ iterations_ = 0 =>
        \A n \in NodeId :
            100 * One * Distance(page_rank_[n], RankOf(SumOfShares(n)))
                <= 85 * Tolerance * Sensitivity(n) + 100 * One

\* The result is k different nodes, or all of them, the highest ranks first.
ResultIsTheTop ==
    pc = "done" =>
        /\ Len(result) = Size
        /\ IsInjective(result)
        /\ \A i \in DOMAIN result : \A n \in NodeId \ {result[j] : j \in 1..i} :
              page_rank_[n] <= page_rank_[result[i]]

=============================================================================
