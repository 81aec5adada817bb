----------------------------- MODULE CelfGreedy -----------------------------
(***************************************************************************)
(* CelfGreedy::solve, lazy greedy selection.  spread_delta_ is an estimate *)
(* of the gain of a node that may be out of date; only the node on top of  *)
(* the priority queue is evaluated again, and it is taken when it stays on *)
(* top.  The priority queue is the set of its nodes: top() is one of those *)
(* with the largest delta, any of them when there are several.             *)
(*                                                                         *)
(* evaluateSpread is an average over simulations.  On a certain graph all  *)
(* weights are 0 or 1, every simulation activates the same nodes and the   *)
(* average is exact, but for its rounding, which is left out.  Otherwise   *)
(* it is any number from the seeds alone to all the nodes they reach.      *)
(***************************************************************************)
EXTENDS Integers, SequencesExt

CONSTANTS NodeId,
          CertainReaches, \* functions from a node to the nodes it reaches, for
                          \* graphs on which a simulation has one outcome only
          NoisyReaches,   \* and for graphs on which it has several
          MaxK

VARIABLES reach, certain, k,
          spread_delta_,
          priority_queue,
          seed_set,
          seed_set_spread,
          updated_with_total_spread, \* node -> spread, for the nodes it is known of
          pc                         \* "deltas", "first", "loop", "done"

vars == <<reach, certain, k, spread_delta_, priority_queue, seed_set, seed_set_spread,
          updated_with_total_spread, pc>>

Empty == [n \in {} |-> 0]

\* The number of nodes a simulation from the nodes S activates, if it is certain.
Spread(S) == Cardinality(UNION {reach[s] : s \in S})

\* Mutant: the simulation starts at the node alone.
evaluateSpreadAlone(node, seeds) == {Spread({node})}

\* singleSimulation and evaluateSpread: what the average can be.
evaluateSpread(node, seeds) ==
    LET S == Range(seeds) \cup {node}
    IN  IF certain THEN {Spread(S)} ELSE Cardinality(S)..Spread(S)

Init == /\ certain \in BOOLEAN
        /\ reach \in IF certain THEN CertainReaches ELSE NoisyReaches
        /\ k \in 0..MaxK
        /\ spread_delta_ = [n \in NodeId |-> 0]
        /\ priority_queue = {}
        /\ seed_set = <<>>
        /\ seed_set_spread = 0
        /\ updated_with_total_spread = Empty
        /\ pc = "deltas"

\* Lines 23-41.
EvaluateAll == /\ pc = "deltas"
               /\ spread_delta_' \in {d \in [NodeId -> 0..Cardinality(NodeId)] :
                      \A n \in NodeId : d[n] \in evaluateSpread(n, seed_set)}
               /\ priority_queue' = NodeId
               /\ pc' = "first"
               /\ UNCHANGED <<reach, certain, k, seed_set, seed_set_spread,
                              updated_with_total_spread>>

IsTop(n, queue) == /\ n \in queue
                   /\ \A m \in queue : spread_delta_[m] <= spread_delta_[n]

\* Mutant: top() without pop().
NotPopped(n) == priority_queue

Popped(n) == priority_queue \ {n}

\* Lines 44-47: the first seed is taken without a note of its spread.
TakeFirst == /\ pc = "first"
             /\ \E n \in NodeId : /\ IsTop(n, priority_queue)
                                  /\ priority_queue' = Popped(n)
                                  /\ seed_set' = Append(seed_set, n)
             /\ pc' = "loop"
             /\ UNCHANGED <<reach, certain, k, spread_delta_, seed_set_spread,
                            updated_with_total_spread>>

SeedsMissing == Len(seed_set) < k

Looping == pc = "loop" /\ SeedsMissing

IsUpdated(n) == n \in DOMAIN updated_with_total_spread

\* What becomes of the known spreads when a seed is added.
Cleared == Empty

\* Lines 53-59: the top node was evaluated against this seed set.
AddUpToDate == /\ Looping
               /\ \E n \in NodeId :
                     /\ IsTop(n, priority_queue)
                     /\ IsUpdated(n)
                     /\ priority_queue' = Popped(n)
                     /\ seed_set' = Append(seed_set, n)
                     /\ seed_set_spread' = updated_with_total_spread[n]
               /\ updated_with_total_spread' = Cleared
               /\ UNCHANGED <<reach, certain, k, spread_delta_, pc>>

\* Mutant: the node that was evaluated is always taken.
AlwaysStays(delta, rest) == TRUE

\* Line 64.  When the node was the last one, top() of the empty queue is
\* undefined and the comparison may go either way.
StaysOnTop(delta, rest) == \/ rest = {}
                           \/ \E m \in NodeId : IsTop(m, rest) /\ delta >= spread_delta_[m]

FallsBehind(delta, rest) == \/ rest = {}
                            \/ \E m \in NodeId : IsTop(m, rest) /\ delta < spread_delta_[m]

WithSpread(spreads, n, spread) ==
    [m \in {n} \cup DOMAIN spreads |-> IF m = n THEN spread ELSE spreads[m]]

\* Lines 61-72: an outdated top node is evaluated again.
Refresh == /\ Looping
           /\ \E n \in NodeId : \E spread \in evaluateSpread(n, seed_set) :
                 LET rest  == Popped(n)
                     delta == spread - seed_set_spread
                 IN  /\ IsTop(n, priority_queue)
                     /\ ~IsUpdated(n)
                     /\ spread_delta_' = [spread_delta_ EXCEPT ![n] = delta]
                     /\ \/ /\ StaysOnTop(delta, rest)
                           /\ priority_queue' = rest
                           /\ seed_set' = Append(seed_set, n)
                           /\ seed_set_spread' = spread
                           /\ updated_with_total_spread' = Cleared
                        \/ /\ FallsBehind(delta, rest)
                           /\ updated_with_total_spread' =
                                 WithSpread(updated_with_total_spread, n, spread)
                           /\ UNCHANGED <<priority_queue, seed_set, seed_set_spread>>
           /\ UNCHANGED <<reach, certain, k, pc>>

Return == /\ pc = "loop" /\ ~SeedsMissing
          /\ pc' = "done"
          /\ UNCHANGED <<reach, certain, k, spread_delta_, priority_queue, seed_set,
                         seed_set_spread, updated_with_total_spread>>

Next == EvaluateAll \/ TakeFirst \/ AddUpToDate \/ Refresh \/ Return

-----------------------------------------------------------------------------
(* Properties, checked by module LazySolvers.                              *)

\* The first seed is taken whatever k is.
Result == IF k = 0 THEN 1 ELSE k

TypeOK == /\ reach \in [NodeId -> SUBSET NodeId]
          /\ certain \in BOOLEAN
          /\ k \in 0..MaxK
          /\ spread_delta_ \in [NodeId -> Int]
          /\ priority_queue \subseteq NodeId
          /\ seed_set \in Seq(NodeId) /\ Len(seed_set) <= Result
          /\ seed_set_spread \in Nat
          /\ DOMAIN updated_with_total_spread \subseteq NodeId
          /\ \A n \in DOMAIN updated_with_total_spread :
                updated_with_total_spread[n] \in Nat
          /\ pc \in {"deltas", "first", "loop", "done"}

Seeds == Range(seed_set)

Gain(n) == Spread(Seeds \cup {n}) - Spread(Seeds)

\* When spreads are exact the estimate of a queued node never falls below its
\* gain: what makes lazy evaluation safe, as a node that is not on top cannot be
\* the best one.
DeltasBoundGains == certain /\ pc \in {"first", "loop"} =>
                        \A n \in priority_queue : Gain(n) <= spread_delta_[n]

\* A spread on record is one of the current seed set and the queued node.
RecordedSpreadsAreCurrent ==
    \A n \in DOMAIN updated_with_total_spread :
        /\ n \in priority_queue
        /\ updated_with_total_spread[n] \in evaluateSpread(n, seed_set)

IsBest(n) == \A m \in NodeId \ Seeds : Gain(m) <= Gain(n)

sigma == [S \in SUBSET NodeId |-> Spread(S)]

=============================================================================
