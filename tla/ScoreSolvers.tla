---------------------------- MODULE ScoreSolvers ----------------------------
(***************************************************************************)
(* One call of solve(k), as benchmarkAll makes it, on a solver that ranks  *)
(* the nodes by a score of their own: HighDegree, WeightedDegree and       *)
(* EasyImDelta (ScoreRanking), EaSyIM, which scores the nodes again for    *)
(* every seed, PageRankSolver and WeightedPageRank (PageRank), and Random, *)
(* which has no score.  Each has vectors of its own; here they share those *)
(* of one name.                                                            *)
(***************************************************************************)
EXTENDS WalkScores

CONSTANTS Graphs, Iterations, SeedNumbers,
          RankGraphs, RankIterations, RankSeedNumbers, RankOne, Epsilon

ASSUME ScoreAssumption == /\ Graphs \subseteq Graph
                          /\ Iterations \subseteq 0..4
                          /\ SeedNumbers \subseteq Nat
                          /\ RankGraphs \subseteq Graph
                          /\ RankIterations \subseteq Nat /\ RankSeedNumbers \subseteq Nat
                          /\ RankOne \in Nat \ {0} /\ Epsilon \in 1..RankOne

VARIABLES graph_, k, iterations_, solver,
          weighted_degree_0_, weighted_degree_1_,
          weighted_degree_even_, weighted_degree_odd_,
          selected_nodes_, seed_set,
          page_rank_, temp_rank_, probability_sum_, abs_truncates, reads, sums,
          result,
          pc, iteration, pending

degree_vars == <<weighted_degree_0_, weighted_degree_1_>>
easyim_vars == <<weighted_degree_even_, weighted_degree_odd_, selected_nodes_, seed_set>>
rank_vars   == <<page_rank_, temp_rank_, probability_sum_, abs_truncates, reads, sums>>
vars == <<graph_, k, iterations_, solver, degree_vars, easyim_vars, rank_vars, result,
          pc, iteration, pending>>

Ranking == INSTANCE ScoreRanking

EaSyIM == INSTANCE EaSyIM

Ranks == INSTANCE PageRank

ASSUME PartsAssumption == \A g \in RankGraphs : Ranks!PartsAreExact(g)

RandomSolver == INSTANCE RandomSeeds

NoDegrees == weighted_degree_0_ = Ranking!Zero /\ weighted_degree_1_ = Ranking!Zero

NoEaSyIM == /\ weighted_degree_even_ = EaSyIM!Zero
            /\ weighted_degree_odd_ = EaSyIM!Zero
            /\ selected_nodes_ = {}
            /\ seed_set = <<>>

NoRanks == /\ page_rank_ = Ranks!NoRank /\ temp_rank_ = Ranks!NoRank
           /\ probability_sum_ = Ranks!NoRank
           /\ abs_truncates = FALSE
           /\ reads = Ranks!NoReads /\ sums = Ranks!NoRank

Init == \/ Ranking!Init /\ NoEaSyIM /\ NoRanks
        \/ /\ solver = "EaSyIM"
           /\ EaSyIM!Init
           /\ weighted_degree_1_ = EaSyIM!Zero
           /\ result = <<>>
           /\ NoRanks
        \/ Ranks!Init /\ NoDegrees /\ NoEaSyIM
        \/ /\ solver = "Random"
           /\ RandomSolver!Init
           /\ graph_ \in RankGraphs
           /\ iterations_ = 1 /\ iteration = 1
           /\ pending = {}
           /\ NoDegrees /\ NoEaSyIM /\ NoRanks

RankingStep == /\ solver \in Ranking!Solvers
               /\ Ranking!Next
               /\ UNCHANGED <<easyim_vars, rank_vars>>

EaSyIMStep == /\ solver = "EaSyIM"
              /\ EaSyIM!Next
              /\ UNCHANGED <<solver, weighted_degree_1_, rank_vars, result>>

PageRankStep == /\ solver \in Ranks!RankSolvers
                /\ Ranks!Next
                /\ UNCHANGED <<degree_vars, easyim_vars>>

RandomStep == /\ solver = "Random"
              /\ RandomSolver!Next
              /\ UNCHANGED <<graph_, iterations_, solver, degree_vars, easyim_vars, rank_vars,
                             iteration, pending>>

Next == RankingStep \/ EaSyIMStep \/ PageRankStep \/ RandomStep

Spec == Init /\ [][Next]_vars

\* A draw of a node that is a seed already changes nothing, so that fairness also
\* says that a new one is drawn in the end, which has probability 1.
FairSpec == Spec /\ WF_vars(Next)

-----------------------------------------------------------------------------
(* Properties.                                                             *)

TypeOK == /\ solver \in Ranking!Solvers \cup {"EaSyIM", "Random"} \cup Ranks!RankSolvers
          /\ weighted_degree_1_ \in [NodeId -> Nat]
          /\ result \in Seq(NodeId) /\ Len(result) <= k
          /\ solver = "EaSyIM" => EaSyIM!TypeOK
          /\ solver \in Ranks!RankSolvers => Ranks!TypeOK

\* The vector that the sort reads, or a pick of EaSyIM, holds every node's score, whatever
\* the order of the tasks: none has read an entry of its own iteration, and of the
\* vectors of EaSyIM nothing of an earlier selection is left in the one that is read.  Of
\* the ranks, those of WeightedPageRank are computed in that way.
ReadScoresAreExact ==
    /\ TypeOK
    /\ solver = "EaSyIM" => EaSyIM!ScoresAreExact
    /\ solver \in Ranking!Solvers => Ranking!ScoresAreExact
    /\ solver \in Ranks!RankSolvers => Ranks!RanksFollow

\* The result of a ranking is k different nodes, or all of them, the best first,
\* and no node that was left out has a higher score than one that was taken.
\* Random returns k different nodes.
ResultIsTheTop ==
    /\ solver \in Ranking!Solvers => Ranking!ResultIsTheTop
    /\ solver \in Ranks!RankSolvers => Ranks!ResultIsTheTop
    /\ solver = "Random" => IsInjective(result) /\ (pc = "done" => Len(result) = k)

\* Ranks that have converged solve the rank equation, up to the bound on their
\* last move, even where tasks read ranks that others had already overwritten.
SettledRanksSolveTheEquation ==
    solver \in Ranks!RankSolvers => Ranks!SettledRanksSolveTheEquation

\* A pick of EaSyIM has the highest score, and is new as long as some score is
\* positive; once all scores are 0 the first node is selected again and again.
PicksTheBest == EaSyIM!PicksTheBest

\* Every solver returns: ranks converge whatever the order in which the tasks
\* read and write them.  Random does not when there are fewer than k nodes.
Returns == IF solver = "Random" /\ k > NumberOfNodes THEN [](pc # "done") ELSE <>(pc = "done")

=============================================================================
