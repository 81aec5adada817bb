----------------------------- MODULE RandomSeeds ----------------------------
(***************************************************************************)
(* Random::solve: nodes are drawn until k different ones have been.  The   *)
(* distribution gives every node a positive probability each time.         *)
(***************************************************************************)
EXTENDS InfluenceGraph, SequencesExt

CONSTANT SeedNumbers

VARIABLES k, result, pc

vars == <<k, result, pc>>

Init == /\ k \in SeedNumbers
        /\ result = <<>>
        /\ pc = "draw"

IsNew(node) == node \notin Range(result)

Draw(node) == /\ pc = "draw" /\ Len(result) < k
              /\ result' = IF IsNew(node) THEN Append(result, node) ELSE result
              /\ UNCHANGED <<k, pc>>

Return == /\ pc = "draw" /\ Len(result) >= k
          /\ pc' = "done"
          /\ UNCHANGED <<k, result>>

Next == Return \/ \E node \in NodeId : Draw(node)

Spec == Init /\ [][Next]_vars

=============================================================================
