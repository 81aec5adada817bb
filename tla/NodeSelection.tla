---------------------------- MODULE NodeSelection ----------------------------
(***************************************************************************)
(* IMM::nodeSelection: k times take the first node that is in the most of  *)
(* the RR sets not covered yet, and cover those sets.  counter[n], in the  *)
(* code a vector of indices of RR sets, each once and in no order that     *)
(* matters, is a set; so is an RR set, whose nodes are distinct            *)
(* (module RrSet).  The code is sequential: a step is a pick.              *)
(***************************************************************************)
EXTENDS Integers, SequencesExt, FiniteSetsExt

CONSTANTS NumberOfNodes,
          RrSets, \* the values of rr_sets_: sequences of sets of nodes
          MaxK

NodeId == 0..(NumberOfNodes - 1)

ASSUME SelectionAssumption == /\ NumberOfNodes \in Nat \ {0}
                              /\ RrSets \subseteq Seq(SUBSET NodeId)
                              /\ MaxK \in Nat

VARIABLES rr_sets_, k,
          rr_set_already_covered, \* the indices whose entry is true
          counter,
          result_set,
          pc                      \* "fill", "pick", "done"

vars == <<rr_sets_, k, rr_set_already_covered, counter, result_set, pc>>

Init == /\ rr_sets_ \in RrSets
        /\ k \in 0..MaxK
        /\ rr_set_already_covered = {}
        /\ counter = [n \in NodeId |-> {}]
        /\ result_set = <<>>
        /\ pc = "fill"

\* The indices of the RR sets of a node.
SetsOf(n) == {i \in 1..Len(rr_sets_) : n \in rr_sets_[i]}

FillCounter == /\ pc = "fill"
               /\ counter' = [n \in NodeId |-> SetsOf(n)]
               /\ pc' = "pick"
               /\ UNCHANGED <<rr_sets_, k, rr_set_already_covered, result_set>>

Size(n) == Cardinality(counter[n])

\* Mutant: the largest counter of the nodes but the last, i < n - 1.
IsMaxButLast(n) ==
    n # NumberOfNodes - 1 /\ \A m \in NodeId \ {NumberOfNodes - 1} :
       Size(m) < Size(n) \/ (Size(m) = Size(n) /\ n <= m)

\* Lines 190-198: the first of the largest counters, node 0 if all are empty.
IsMax(n) == \A m \in NodeId : Size(m) < Size(n) \/ (Size(m) = Size(n) /\ n <= m)

PicksLeft == Len(result_set) < k

\* Mutant: the counters keep the sets that are covered (line 210 is missing).
CounterKept(max_id) == [counter EXCEPT ![max_id] = {}]

\* Lines 201-219: the members of the newly covered sets lose them.
CounterWithout(max_id) ==
    [n \in NodeId |-> IF n = max_id THEN {}
                      ELSE counter[n] \ {i \in counter[max_id] : n \in rr_sets_[i]}]

\* Mutant: the flag is set behind the continue of line 208.
CoveredAmongOthers(max_id) ==
    rr_set_already_covered \cup {i \in counter[max_id] : rr_sets_[i] # {max_id}}

Covered(max_id) == rr_set_already_covered \cup counter[max_id]

Pick == /\ pc = "pick" /\ PicksLeft
        /\ \E max_id \in NodeId :
              /\ IsMax(max_id)
              /\ rr_set_already_covered' = Covered(max_id)
              /\ counter' = CounterWithout(max_id)
              /\ result_set' = Append(result_set, max_id)
        /\ UNCHANGED <<rr_sets_, k, pc>>

Return == /\ pc = "pick" /\ ~PicksLeft
          /\ pc' = "done"
          /\ UNCHANGED <<rr_sets_, k, rr_set_already_covered, counter, result_set>>

Next == FillCounter \/ Pick \/ Return

Spec == Init /\ [][Next]_vars

-----------------------------------------------------------------------------
(* Properties.                                                             *)

TypeOK == /\ rr_sets_ \in Seq(SUBSET NodeId)
          /\ k \in 0..MaxK
          /\ rr_set_already_covered \subseteq 1..Len(rr_sets_)
          /\ counter \in [NodeId -> SUBSET (1..Len(rr_sets_))]
          /\ result_set \in Seq(NodeId) /\ Len(result_set) <= k
          /\ pc \in {"fill", "pick", "done"}

Selected == Range(result_set)

CoveredBy(S) == {i \in 1..Len(rr_sets_) : rr_sets_[i] \cap S # {}}

\* The flags are exactly the sets that a selected node is in, so that their
\* share is the coverage f_r of the result, from which solve estimates the
\* influence and decides to stop sampling.
CoverageIsExact == rr_set_already_covered = CoveredBy(Selected)

\* A counter holds the sets of its node that are not covered yet: no set is
\* counted after it was covered, however many nodes it shares, and none is lost.
CountersAreUncovered ==
    pc # "fill" => \A n \in NodeId : counter[n] = SetsOf(n) \ rr_set_already_covered

Gain(n) == Cardinality(CoveredBy(Selected \cup {n}) \ CoveredBy(Selected))

\* Each pick covers the most RR sets that one more node can cover, and it is a
\* new node as long as one of them is left to cover.
PicksAreGreedy ==
    [][result_set' # result_set =>
          \A m \in NodeId :
             /\ Gain(m) <= Gain(Last(result_set'))
             /\ Gain(m) > 0 => Last(result_set') \notin Selected]_vars

=============================================================================
