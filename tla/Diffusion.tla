------------------------------ MODULE Diffusion ------------------------------
(***************************************************************************)
(* A simulation as Benchmarker and the evaluator ask for it: the factory   *)
(* creates the diffusion model that was asked for and one run of it starts *)
(* from the seed vector.  The two models walk the graph in the same way    *)
(* and share the variables of IndependentCascade; they differ in what an   *)
(* edge to an inactive node does.  And the loop of cascadeForwardN and the *)
(* like that runs many of them, on its own: a simulation reads only what   *)
(* no other task writes.                                                   *)
(***************************************************************************)
EXTENDS IndependentCascade

VARIABLES model,     \* the DiffusionModel handed to the factory
          input,     \* the linear threshold model's own variables
          threshold

CONSTANTS Loops, MostNodes

\* The program asks for no loop that runs backwards.
ASSUME LoopAssumption ==
    /\ Loops \subseteq [kind : {"reduce", "each"}, from : Nat, to : Nat]
    /\ \A l \in Loops : l.from <= l.to
    /\ MostNodes \in Nat \ {0}

VARIABLES asked, \* "simulation" or "loop"
          loop, parts, calls, visits, returned

simulation_vars == <<vars, model, input, threshold>>
loop_vars == <<loop, parts, calls, visits, returned>>
diffusion_vars == <<asked, simulation_vars, loop_vars>>

LT == INSTANCE LinearThreshold

Parallel == INSTANCE ParallelLoops

\* DiffusionFactory::create.
create(type) ==
    /\ model = type
    /\ \/ /\ type = "INDEPENDENT_CASCADE"
          /\ Init
          /\ input = LT!NoInput
          /\ threshold = LT!NotDrawn
       \/ /\ type = "LINEAR_THRESHOLD"
          /\ LT!Init
          /\ tried = {}

SingleSimulation ==
    /\ \E type \in {"LINEAR_THRESHOLD", "INDEPENDENT_CASCADE"} : create(type)
    /\ Parallel!Idle

NoSimulation == /\ model = "INDEPENDENT_CASCADE"
                /\ adjacency = [n \in NodeId |-> <<>>]
                /\ Start(<<>>)
                /\ input = LT!NoInput /\ threshold = LT!NotDrawn

DiffusionInit == \/ asked = "simulation" /\ SingleSimulation
                 \/ asked = "loop" /\ Parallel!Init /\ NoSimulation

IndependentCascadeStep == /\ model = "INDEPENDENT_CASCADE"
                          /\ Next
                          /\ UNCHANGED <<model, input, threshold>>

\* The history variable tried records the edges that brought their weight in.
LinearThresholdStep ==
    /\ model = "LINEAR_THRESHOLD"
    /\ \/ LT!Influence /\ tried' = tried \cup {<<current, position>>}
       \/ LT!Pop /\ UNCHANGED tried
       \/ LT!SkipActivated /\ UNCHANGED tried
       \/ LT!EdgesDone /\ UNCHANGED tried
       \/ LT!Return /\ UNCHANGED tried
    /\ UNCHANGED model

SimulationStep == /\ asked = "simulation"
                  /\ IndependentCascadeStep \/ LinearThresholdStep
                  /\ UNCHANGED <<asked, loop_vars>>

LoopStep == /\ asked = "loop"
            /\ Parallel!Next
            /\ UNCHANGED <<asked, simulation_vars>>

DiffusionNext == SimulationStep \/ LoopStep

DiffusionSpec == DiffusionInit /\ [][DiffusionNext]_diffusion_vars

-----------------------------------------------------------------------------
(* Properties.  TypeOK, SpreadIsExact and ExpandedNodesAreSettled of         *)
(* IndependentCascade hold of both models.                                   *)

DistinctSeeds == IsInjective(seeds)

\* With distinct seeds the stack order and the lazily drawn thresholds do not
\* matter: a run activates what the rounds of the model activate.
ActivatesTheModelsNodes ==
    /\ TypeOK
    /\ model = "LINEAR_THRESHOLD" /\ DistinctSeeds => LT!ActivatesTheModelsNodes

\* However a parallel loop is split, its body is called once for every index, and
\* the sum that makes the average is that of all simulations.
EveryIndexRunsOnce == asked = "loop" => Parallel!EveryIndexRunsOnce

\* With distinct seeds every step of an independent cascade is a step of the
\* abstract process: no edge is tried twice, none towards an active node, none
\* from an inactive one, and it returns only when no edge is left to try.
CascadesAreTheProcess ==
    [][model = "INDEPENDENT_CASCADE" /\ DistinctSeeds => Process!Next]_(Process!vars)

=============================================================================
