--------------------------- MODULE GreedySelection --------------------------
(***************************************************************************)
(* The greedy algorithm for influence maximization: as long as seeds are   *)
(* missing, add a node whose marginal gain is the largest.  sigma is the   *)
(* spread function, from sets of nodes to numbers.                         *)
(***************************************************************************)
EXTENDS Integers

CONSTANT NodeId

VARIABLES sigma, chosen

vars == <<sigma, chosen>>

Gain(v) == sigma[chosen \cup {v}] - sigma[chosen]

IsBest(v) == /\ v \in NodeId \ chosen
             /\ \A u \in NodeId \ chosen : Gain(u) <= Gain(v)

Init == chosen = {}

Next == \E v \in NodeId : /\ IsBest(v)
                          /\ chosen' = chosen \cup {v}
                          /\ sigma' = sigma

Spec == Init /\ [][Next]_vars

=============================================================================
