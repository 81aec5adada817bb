----------------------------- MODULE IPASolver -----------------------------
(***************************************************************************)
(* IPASolver::solve, lazy greedy selection by the influence of path trees. *)
(* spread_ is an estimate of the gain of a node that may be out of date;   *)
(* updated_ holds the nodes evaluated since the last seed.  As in module   *)
(* CelfGreedy the priority queue is the set of its nodes; here an updated  *)
(* node is preferred among those with the largest spread.  seed_set lists  *)
(* selected_seeds_ in the order of insertion; solve returns its elements   *)
(* in the order of the hash table, which is left out.                      *)
(***************************************************************************)
EXTENDS InfluencePaths

CONSTANTS PathGraphs, Dividers, PathSeedNumbers

VARIABLES graph_, divider_, k,
          spread_,
          updated_,
          priority_queue,
          seed_set,
          pc              \* "deltas", "first", "loop", "done"

vars == <<graph_, divider_, k, spread_, updated_, priority_queue, seed_set, pc>>

selected_seeds_ == Range(seed_set)

ZeroSpread == [n \in NodeId |-> 0]

Init == /\ graph_ \in PathGraphs
        /\ divider_ \in Dividers
        /\ k \in PathSeedNumbers
        /\ spread_ = ZeroSpread
        /\ updated_ = {}
        /\ priority_queue = {}
        /\ seed_set = <<>>
        /\ pc = "deltas"

Influence(selected) == ForestInfluence(graph_, selected, divider_)

\* Lines 21-45.
EvaluateAll ==
    /\ pc = "deltas"
    /\ spread_' = [n \in NodeId |->
                      calculatePathTreeInfluence(PathTree(graph_, n, divider_, selected_seeds_))]
    /\ priority_queue' = NodeId
    /\ pc' = "first"
    /\ UNCHANGED <<graph_, divider_, k, updated_, seed_set>>

\* seed_comparison.
IsTop(n, queue) ==
    /\ n \in queue
    /\ \A m \in queue : \/ spread_[m] < spread_[n]
                        \/ spread_[m] = spread_[n] /\ (m \in updated_ => n \in updated_)

Popped(n) == priority_queue \ {n}

\* Lines 48-51: the first seed is taken whatever k is.
TakeFirst == /\ pc = "first"
             /\ \E n \in NodeId : /\ IsTop(n, priority_queue)
                                  /\ priority_queue' = Popped(n)
                                  /\ seed_set' = Append(seed_set, n)
             /\ pc' = "loop"
             /\ UNCHANGED <<graph_, divider_, k, spread_, updated_>>

\* Mutant: one seed more than asked for.
SeedsMissingOrEqual == Cardinality(selected_seeds_) <= k

SeedsMissing == Cardinality(selected_seeds_) < k

Looping == pc = "loop" /\ SeedsMissing

\* Mutant: no clear().
NotCleared == updated_

\* What becomes of the updated nodes when a seed is added.
Cleared == {}

\* Lines 57-62: the top node was evaluated against these seeds.
AddUpToDate == /\ Looping
               /\ \E n \in updated_ : /\ IsTop(n, priority_queue)
                                      /\ priority_queue' = Popped(n)
                                      /\ seed_set' = Append(seed_set, n)
               /\ updated_' = Cleared
               /\ UNCHANGED <<graph_, divider_, k, spread_, pc>>

\* Lines 66-68.
Increment(n) == Influence(selected_seeds_ \cup {n}) - Influence(selected_seeds_)

\* Line 72.  When the node was the last one, top() of the empty queue is
\* undefined and the comparison may go either way.
StaysOnTop(n_inc, rest) == rest = {} \/ \E m \in rest : IsTop(m, rest) /\ n_inc >= spread_[m]

FallsBehind(n_inc, rest) == rest = {} \/ \E m \in rest : IsTop(m, rest) /\ n_inc < spread_[m]

\* Lines 63-78: an outdated top node is evaluated again.
Refresh ==
    /\ Looping
    /\ \E n \in NodeId \ updated_ :
          LET rest  == Popped(n)
              n_inc == Increment(n)
          IN  /\ IsTop(n, priority_queue)
              /\ spread_' = [spread_ EXCEPT ![n] = n_inc]
              /\ \/ /\ StaysOnTop(n_inc, rest)
                    /\ priority_queue' = rest
                    /\ seed_set' = Append(seed_set, n)
                    /\ updated_' = Cleared
                 \/ /\ FallsBehind(n_inc, rest)
                    /\ updated_' = updated_ \cup {n}
                    /\ UNCHANGED <<priority_queue, seed_set>>
    /\ UNCHANGED <<graph_, divider_, k, pc>>

Return == /\ pc = "loop" /\ ~SeedsMissing
          /\ pc' = "done"
          /\ UNCHANGED <<graph_, divider_, k, spread_, updated_, priority_queue, seed_set>>

Next == EvaluateAll \/ TakeFirst \/ AddUpToDate \/ Refresh \/ Return

-----------------------------------------------------------------------------
(* Properties, checked by module LazySolvers.                              *)

TypeOK == /\ k \in 0..NumberOfNodes
          /\ spread_ \in [NodeId -> Int]
          /\ updated_ \subseteq NodeId
          /\ priority_queue \subseteq NodeId
          /\ seed_set \in Seq(NodeId)
          /\ pc \in {"deltas", "first", "loop", "done"}

Gain(n) == Influence(selected_seeds_ \cup {n}) - Influence(selected_seeds_)

\* The spread of a queued node is its gain in the beginning, and never falls below it later:
\* no node that is not on top is better than the top one.
SpreadsBoundGains == pc \in {"first", "loop"} =>
                         \A n \in priority_queue : LET gain == Gain(n)
                                                   IN  /\ gain \in Int /\ gain <= spread_[n]
                                                       /\ pc = "first" => gain = spread_[n]

\* The spread of an updated node is its gain for the current seeds, and it is queued.
UpdatedSpreadsAreCurrent ==
    \A n \in updated_ : n \in priority_queue /\ spread_[n] = Gain(n)

\* The spreads with which the seeds were taken add up to the influence of them all.
AcceptedSpreadsAddUp ==
    MapThenSumSet(LAMBDA n : spread_[n], selected_seeds_) = Influence(selected_seeds_)

IsBest(n) == \A m \in NodeId \ selected_seeds_ : Gain(m) <= Gain(n)

=============================================================================
