---------------------------- MODULE LazySolvers ----------------------------
(***************************************************************************)
(* One call of solve(k), as benchmarkAll makes it, on one of the two       *)
(* solvers that select greedily and evaluate a node only when it is on top *)
(* of a priority queue: CelfGreedy, by averages over simulations, or       *)
(* IPASolver, by the influence of path trees.  Each has a queue and seeds  *)
(* of its own; here they share those of one name.                          *)
(***************************************************************************)
EXTENDS InfluenceGraph, SequencesExt

CONSTANTS CertainReaches, NoisyReaches, MaxK,          \* CelfGreedy
          Whole, PathGraphs, Dividers, PathSeedNumbers \* IPASolver

ASSUME CelfAssumption ==
    /\ CertainReaches \cup NoisyReaches \subseteq [NodeId -> SUBSET NodeId]
    /\ \A r \in CertainReaches \cup NoisyReaches : \A n \in NodeId : n \in r[n]
    /\ MaxK \in 1..NumberOfNodes

\* pop() of an empty queue, for more seeds than nodes, is undefined.
ASSUME IPAAssumption ==
    /\ Whole \in Nat \ {0}
    /\ PathGraphs \subseteq Graph
    /\ Dividers \subseteq Nat
    /\ PathSeedNumbers \subseteq 0..NumberOfNodes

VARIABLES solver, k, priority_queue, seed_set, pc,
          reach, certain, spread_delta_, seed_set_spread, updated_with_total_spread,
          graph_, divider_, spread_, updated_

celf_vars == <<reach, certain, spread_delta_, seed_set_spread, updated_with_total_spread>>
ipa_vars  == <<graph_, divider_, spread_, updated_>>
vars == <<solver, k, priority_queue, seed_set, pc, celf_vars, ipa_vars>>

Celf == INSTANCE CelfGreedy

IPA == INSTANCE IPASolver

NoCelf == /\ reach = [n \in NodeId |-> {n}] /\ certain = FALSE
          /\ spread_delta_ = IPA!ZeroSpread
          /\ seed_set_spread = 0
          /\ updated_with_total_spread = Celf!Empty

NoIPA == /\ graph_ = [forward |-> [n \in NodeId |-> <<>>], backward |-> [n \in NodeId |-> <<>>]]
         /\ divider_ = 0
         /\ spread_ = IPA!ZeroSpread
         /\ updated_ = {}

Init == \/ solver = "CelfGreedy" /\ Celf!Init /\ NoIPA
        \/ solver = "IPA" /\ IPA!Init /\ NoCelf

CelfStep == solver = "CelfGreedy" /\ Celf!Next /\ UNCHANGED <<solver, ipa_vars>>

IPAStep == solver = "IPA" /\ IPA!Next /\ UNCHANGED <<solver, celf_vars>>

Next == CelfStep \/ IPAStep

Spec == Init /\ [][Next]_vars

\* solve runs on one thread, and every evaluation of a node ends.
FairSpec == Spec /\ WF_vars(Next)

-----------------------------------------------------------------------------
(* Properties.                                                             *)

Seeds == Range(seed_set)

TypeOK == /\ solver \in {"CelfGreedy", "IPA"}
          /\ solver = "CelfGreedy" => Celf!TypeOK
          /\ solver = "IPA" => IPA!TypeOK

\* A node is either a seed or still in the queue, whatever the simulations or the
\* path trees say.  So no node becomes a seed twice and none gets lost in a push
\* or a pop.
QueueAndSeedsPartitionTheNodes ==
    pc # "deltas" => /\ priority_queue = NodeId \ Seeds
                     /\ IsInjective(seed_set)

\* When spreads are exact the estimate of a queued node never falls below its
\* gain: what makes lazy evaluation safe, as a node that is not on top cannot be
\* the best one.  For path trees this takes weights that sum up to at most 1 at a
\* node, as the generated ones do.
DeltasBoundGains == /\ TypeOK
                    /\ solver = "CelfGreedy" => Celf!DeltasBoundGains
                    /\ solver = "IPA" => IPA!SpreadsBoundGains

\* A spread on record is one of the current seed set and the queued node.
RecordedSpreadsAreCurrent == /\ solver = "CelfGreedy" => Celf!RecordedSpreadsAreCurrent
                             /\ solver = "IPA" => IPA!UpdatedSpreadsAreCurrent

Adds(n) == seed_set' = Append(seed_set, n)

\* When spreads are exact every seed has the largest gain there is, but for the
\* second seed of CelfGreedy.
LaterPicksAreGreedy ==
    [][\A n \in NodeId : Adds(n) =>
           /\ solver = "CelfGreedy" /\ certain /\ Len(seed_set) # 1 => Celf!IsBest(n)
           /\ solver = "IPA" => IPA!IsBest(n)]_vars

EdgeSlots == UNION {{n} \X DOMAIN getEdgesOf(graph_, n) : n \in NodeId}

Live(slot, draw) == draw[slot] < getEdgesOf(graph_, slot[1])[slot[2]].weight

\* The nodes that a cascade from the seeds activates when the edges draw these numbers.
Activated(draw) ==
    LET round[i \in NodeId] ==
            IF i = 0 THEN Seeds
            ELSE round[i - 1] \cup
                     {getEdgesOf(graph_, slot[1])[slot[2]].destination :
                         slot \in {s \in EdgeSlots : s[1] \in round[i - 1] /\ Live(s, draw)}}
    IN  round[NumberOfNodes - 1]

Draws == [EdgeSlots -> genrand_close_open]

NothingPruned == divider_ >= One ^ (NumberOfNodes - 1)

\* The path trees replace the simulations: what IPASolver takes for the influence of
\* its seeds, the sum of the spreads it took them with, is at least the expected
\* size of their cascade, unless the threshold cuts paths off.
InfluenceBoundsTheCascade ==
    solver = "IPA" /\ pc \in {"loop", "done"} =>
        /\ IPA!AcceptedSpreadsAddUp
        /\ NothingPruned =>
               Cardinality({d \in Draws \X NodeId : d[2] \in Activated(d[1])}) * Whole
                   <= IPA!Influence(Seeds) * Cardinality(Draws)

Greedy == INSTANCE GreedySelection WITH sigma <- Celf!sigma, chosen <- Seeds

\* CelfGreedy.cpp:43, "greedy picking", and README.md, "CELF-Greedy": the lazy
\* evaluation of exact spreads selects what the greedy algorithm selects.
SelectsGreedily == Greedy!Spec

\* solve(k) returns k seeds, and a single one for k = 0.
ReturnsKSeeds == <>(pc = "done" /\ Len(seed_set) = Celf!Result)

=============================================================================
