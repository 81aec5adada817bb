---------------------------- MODULE ImmSelection ----------------------------
(***************************************************************************)
(* The part of IMM::solve that makes a seed set: theta calls of            *)
(* createRrSet (RrSet), each of which adds a set to rr_sets_, and then     *)
(* nodeSelection (NodeSelection) on what they have added.  The number      *)
(* theta, the rounds and the parallel tasks are the subject of module      *)
(* ImmSampling.  A walk may draw any numbers here; in the code each starts *)
(* with a copy of one generator and draws from the same sequence.          *)
(***************************************************************************)
EXTENDS NodeSelection

CONSTANTS One,
          Inputs \* the records [graph, theta] to solve

VARIABLES theta,  \* the number of RR sets to create
          graph_, walk_pc, visited, rr_set, queue, current_node, position,
          source_node, tried

walk_vars == <<graph_, walk_pc, visited, rr_set, queue, current_node, position,
               source_node, tried>>
imm_vars == <<vars, theta, walk_vars>>

Walk == INSTANCE RrSet WITH pc <- walk_pc, Graphs <- {input.graph : input \in Inputs}

ASSUME InputAssumption == /\ One \in Nat \ {0}
                          /\ Inputs \subseteq [graph : Walk!Graph, theta : Nat]

ImmInit == /\ Init
           /\ Walk!Init
           /\ \E input \in Inputs : graph_ = input.graph /\ theta = input.theta

SetsMissing == Len(rr_sets_) < theta

WalkStep == /\ SetsMissing
            /\ Walk!Next
            /\ UNCHANGED <<vars, theta>>

\* Lines 63-68: the set goes to the end of rr_sets_.
KeepSet == /\ walk_pc = "done"
           /\ rr_sets_' = Append(rr_sets_, Range(rr_set))
           /\ walk_pc' = "idle"
           /\ UNCHANGED <<k, rr_set_already_covered, counter, result_set, pc, theta,
                          graph_, visited, rr_set, queue, current_node, position,
                          source_node, tried>>

SelectionStep == /\ ~SetsMissing
                 /\ Next
                 /\ UNCHANGED <<theta, walk_vars>>

ImmNext == WalkStep \/ KeepSet \/ SelectionStep

ImmSpec == ImmInit /\ [][ImmNext]_imm_vars

-----------------------------------------------------------------------------
(* Properties, next to those of NodeSelection.                              *)

\* An RR set lists the visited nodes, the source first and each once, however
\* often the stack holds them: what lets a set stand for it in rr_sets_.
MembersAreDistinct == /\ TypeOK
                      /\ Walk!MembersAreDistinct

\* Every walk is an independent cascade from its source against the direction of
\* the edges, although it draws for edges to nodes that are members already.
WalksAreCascades == Walk!ImplementsProcess

=============================================================================
