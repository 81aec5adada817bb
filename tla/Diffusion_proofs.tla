-------------------------- MODULE Diffusion_proofs --------------------------
(***************************************************************************)
(* What a simulation guarantees on every graph and for every seed vector,  *)
(* and what a parallel loop over any range does.  Both models walk the     *)
(* graph by the steps of Walk, for which TypeOK is inductive; on top of it *)
(* SpreadIsExact and ExpandedNodesAreSettled are; for distinct seeds       *)
(* EachNodeExpandsOnce is too, and the three of them make every step of an *)
(* independent cascade a step of CascadeProcess.  A run of the linear      *)
(* threshold model ends with a set that its rounds do not leave            *)
(* (EndIsFixed) and that every set they do not leave contains (Closed).    *)
(* For the loops, Sound is inductive: the parts are neighbours that make   *)
(* up the range, what ran in them adds up to the calls, and what they hold *)
(* to what was returned.                                                   *)
(***************************************************************************)
EXTENDS Diffusion, SequenceFacts, FiniteSetTheorems

-----------------------------------------------------------------------------
(* The walk that the two models have in common.                            *)

\* An edge activates the node it leads to, or it does not.
Reaches == /\ AtEdge
           /\ ~AtActivated
           /\ activated' = activated \cup {edge.destination}
           /\ activated_counter' = activated_counter + 1
           /\ work_queue' = Pushed(edge.destination)
           /\ tried' = tried \cup {<<current, position>>}
           /\ position' = position + 1
           /\ UNCHANGED <<adjacency, seeds, pc, current>>

Misses == /\ AtEdge
          /\ ~AtActivated
          /\ tried' = tried \cup {<<current, position>>}
          /\ position' = position + 1
          /\ UNCHANGED <<adjacency, seeds, pc, work_queue, activated,
                         activated_counter, current>>

Walk == Pop \/ SkipActivated \/ Reaches \/ Misses \/ EdgesDone \/ Return

Started == adjacency \in Adjacency /\ \E s \in Seq(NodeId) : Start(s)

LEMMA NextWalks == Next => Walk
  BY DEF Next, Walk, Activate, Fail, Reaches, Misses

LEMMA InitStarts == Init => Started
  <1> SUFFICES ASSUME NEW graph \in Graphs, NEW s \in SeedLists,
                      cascadeForward(graph, s) \/ cascadeBackward(graph, s)
               PROVE  Started
    BY DEF Init
  <1>1. graph \in Graph /\ s \in Seq(NodeId)
    BY CascadeAssumption
  <1>2. adjacency \in Adjacency
    BY <1>1 DEF Graph, Adjacency, cascadeForward, cascadeBackward,
                getEdgesOf, getInverseEdgesOf
  <1> QED BY <1>1, <1>2 DEF Started, cascadeForward, cascadeBackward

\* The linear threshold model starts in the same way ...
LEMMA LinearThresholdStarts == LT!Init /\ tried = {} => Started
  <1> SUFFICES ASSUME NEW graph \in Graphs, NEW s \in SeedLists,
                      LT!forwardInfluence(graph, s) \/ LT!backwardInfluence(graph, s),
                      tried = {}
               PROVE  Started
    BY DEF LT!Init
  <1>1. graph \in Graph /\ s \in Seq(NodeId)
    BY CascadeAssumption
  <1>2. adjacency \in Adjacency
    BY <1>1 DEF Graph, Adjacency, LT!forwardInfluence, LT!backwardInfluence,
                LT!getEdgesOf, LT!getInverseEdgesOf, LT!NodeId, NodeId
  <1>3. LT!Start(s)
    BY DEF LT!forwardInfluence, LT!backwardInfluence
  <1>4. LT!Range(s) = Range(s)
    BY DEF LT!Range, Range
  <1>5. tried = {} => Start(s)
    BY <1>3, <1>4 DEF LT!Start, Start
  <1> QED BY <1>1, <1>2, <1>5 DEF Started

\* ... and walks the graph in the same way.
LEMMA LinearThresholdWalks == LinearThresholdStep => Walk
  <1> SUFFICES ASSUME LinearThresholdStep PROVE Walk
    OBVIOUS
  <1>1. LT!Last(work_queue) = Last(work_queue) /\ LT!Front(work_queue) = Front(work_queue)
    BY DEF LT!Last, LT!Front, Last, Front
  <1>2. (LT!AtEdge <=> AtEdge) /\ LT!edge = edge
    BY DEF LT!AtEdge, AtEdge, LT!edge, edge
  <1>3. CASE LT!Influence /\ tried' = tried \cup {<<current, position>>}
    <2>1. Reaches \/ Misses
      BY <1>2, <1>3 DEF LT!Influence, Reaches, Misses, AtActivated, Pushed
    <2> QED BY <2>1 DEF Walk
  <1>4. CASE LT!Pop /\ UNCHANGED tried
    <2>1. Pop
      BY <1>1, <1>4 DEF LT!Pop, Pop
    <2> QED BY <2>1 DEF Walk
  <1>5. CASE LT!SkipActivated /\ UNCHANGED tried
    <2>1. SkipActivated
      BY <1>2, <1>5 DEF LT!SkipActivated, SkipActivated, AtActivated
    <2> QED BY <2>1 DEF Walk
  <1>6. CASE LT!EdgesDone /\ UNCHANGED tried
    <2>1. EdgesDone
      BY <1>6 DEF LT!EdgesDone, EdgesDone
    <2> QED BY <2>1 DEF Walk
  <1>7. CASE LT!Return /\ UNCHANGED tried
    <2>1. Return
      BY <1>7 DEF LT!Return, Return
    <2> QED BY <2>1 DEF Walk
  <1> QED BY <1>3, <1>4, <1>5, <1>6, <1>7 DEF LinearThresholdStep

\* Where only a loop runs, no node is active.
LEMMA DiffusionStarts == DiffusionInit => Started
  <1> SUFFICES ASSUME DiffusionInit PROVE Started
    OBVIOUS
  <1>1. CASE SingleSimulation
    BY <1>1, InitStarts, LinearThresholdStarts DEF SingleSimulation, create
  <1>2. CASE NoSimulation
    <2>1. <<>> \in Seq(NodeId) /\ adjacency \in Adjacency
      BY <1>2 DEF NoSimulation, Adjacency
    <2> QED BY <1>2, <2>1 DEF NoSimulation, Started
  <1> QED BY <1>1, <1>2 DEF DiffusionInit

LEMMA DiffusionWalks == [DiffusionNext]_diffusion_vars => [Walk]_vars
  <1> SUFFICES ASSUME [DiffusionNext]_diffusion_vars PROVE Walk \/ UNCHANGED vars
    OBVIOUS
  <1>1. CASE SimulationStep
    BY <1>1, NextWalks, LinearThresholdWalks DEF SimulationStep, IndependentCascadeStep
  <1>2. CASE LoopStep
    BY <1>2 DEF LoopStep, simulation_vars
  <1>3. CASE UNCHANGED diffusion_vars
    BY <1>3 DEF diffusion_vars, simulation_vars
  <1> QED BY <1>1, <1>2, <1>3 DEF DiffusionNext

\* The graph's spans and the elements they hold.
LEMMA AdjacencyType ==
    ASSUME TypeOK, NEW u \in NodeId
    PROVE  /\ adjacency[u] \in Seq(Edge)
           /\ Len(adjacency[u]) \in Nat
           /\ \A i \in 1..Len(adjacency[u]) :
                 /\ adjacency[u][i] \in Edge
                 /\ adjacency[u][i].destination \in NodeId
                 /\ adjacency[u][i].weight \in Weight
  <1>1. adjacency[u] \in Seq(Edge)
    BY DEF TypeOK, Adjacency
  <1>2. \A i \in 1..Len(adjacency[u]) : adjacency[u][i] \in Edge
    BY <1>1
  <1> QED BY <1>1, <1>2 DEF Edge

\* Inside the for loop, the edge at hand is one of the current node's.
LEMMA EdgeType ==
    ASSUME TypeOK, AtEdge
    PROVE  /\ position \in 1..Len(adjacency[current])
           /\ edge \in Edge
           /\ edge.destination \in NodeId
           /\ edge.weight \in Weight
  <1>1. current \in NodeId /\ position \in Nat \ {0}
    BY DEF TypeOK
  <1>2. Len(adjacency[current]) \in Nat
    BY <1>1, AdjacencyType
  <1>3. position \in 1..Len(adjacency[current])
    BY <1>1, <1>2 DEF AtEdge
  <1> QED BY <1>1, <1>3, AdjacencyType DEF edge

LEMMA InitTypeOK == Started => TypeOK
  <1> SUFFICES ASSUME adjacency \in Adjacency, NEW s \in Seq(NodeId), Start(s)
               PROVE  TypeOK
    BY DEF Started
  <1>1. Range(s) \subseteq NodeId /\ Len(s) \in Nat
    BY DEF Range
  <1>2. 0 \in NodeId
    BY GraphAssumption DEF NodeId
  <1> QED BY <1>1, <1>2 DEF TypeOK, Start

LEMMA NextTypeOK == TypeOK /\ [Walk]_vars => TypeOK'
  <1> SUFFICES ASSUME TypeOK, [Walk]_vars PROVE TypeOK'
    OBVIOUS
  <1>1. CASE Pop
    <2>1. Last(work_queue) \in NodeId /\ Front(work_queue) \in Seq(NodeId)
      BY <1>1, PopRange DEF Pop, TypeOK
    <2> QED BY <1>1, <2>1 DEF Pop, TypeOK
  <1>2. CASE SkipActivated
    BY <1>2 DEF SkipActivated, TypeOK
  <1>3. CASE Reaches
    <2>1. edge.destination \in NodeId
      BY <1>3, EdgeType DEF Reaches
    <2>2. Append(work_queue, edge.destination) \in Seq(NodeId)
      BY <2>1, PushRange DEF TypeOK
    <2> QED BY <1>3, <2>1, <2>2 DEF Reaches, Pushed, TypeOK
  <1>4. CASE Misses
    BY <1>4 DEF Misses, TypeOK
  <1>5. CASE EdgesDone
    BY <1>5 DEF EdgesDone, TypeOK
  <1>6. CASE Return
    BY <1>6 DEF Return, TypeOK
  <1>7. CASE UNCHANGED vars
    BY <1>7 DEF vars, TypeOK
  <1> QED BY <1>1, <1>2, <1>3, <1>4, <1>5, <1>6, <1>7 DEF Walk

\* Every variable of a simulation keeps its type: no node id outside the graph
\* is ever pushed, activated or expanded.
THEOREM TypeCorrect == DiffusionSpec => []TypeOK
  BY DiffusionStarts, DiffusionWalks, InitTypeOK, NextTypeOK, PTL DEF DiffusionSpec

-----------------------------------------------------------------------------

\* Sets of nodes are finite.
LEMMA FiniteNodes ==
    ASSUME NEW T \in SUBSET NodeId
    PROVE  IsFiniteSet(T) /\ Cardinality(T) \in Nat
  <1>1. NumberOfNodes - 1 \in Int /\ 0 \in Int
    BY GraphAssumption
  <1>2. IsFiniteSet(NodeId)
    BY <1>1, FS_Interval DEF NodeId
  <1>3. IsFiniteSet(T)
    BY <1>2, FS_Subset
  <1> QED BY <1>3, FS_CardinalityType

\* The returned spread counts the activated nodes, and the repetitions in the
\* seed vector on top of them.
THEOREM SpreadCorrect == DiffusionSpec => []SpreadIsExact
  <1>1. Started => SpreadIsExact
    <2> SUFFICES ASSUME NEW s \in Seq(NodeId), Start(s)
                 PROVE  SpreadIsExact
      BY DEF Started
    <2>1. s \in Seq(NodeId) /\ Len(s) \in Nat
      OBVIOUS
    <2>2. Range(s) \subseteq NodeId
      BY <2>1 DEF Range
    <2>3. Cardinality(Range(s)) \in Nat
      BY <2>2, FiniteNodes
    <2> QED BY <2>1, <2>3 DEF Start, SpreadIsExact
  <1>2. TypeOK /\ SpreadIsExact /\ [Walk]_vars => SpreadIsExact'
    <2> SUFFICES ASSUME TypeOK, SpreadIsExact, [Walk]_vars PROVE SpreadIsExact'
      OBVIOUS
    <2>1. CASE Reaches
      <3>1. IsFiniteSet(activated) /\ Cardinality(activated) \in Nat
        BY FiniteNodes DEF TypeOK
      <3>3. Cardinality(activated') = Cardinality(activated) + 1
        BY <2>1, <3>1, FS_AddElement DEF Reaches, AtActivated
      <3>4. /\ activated_counter' = activated_counter + 1
            /\ seeds' = seeds
        BY <2>1 DEF Reaches
      <3>5. seeds \in Seq(NodeId) /\ Len(seeds) \in Nat
        BY DEF TypeOK
      <3>6. Cardinality(Range(seeds)) \in Nat
        <4>1. Range(seeds) \subseteq NodeId
          BY <3>5 DEF Range
        <4> QED BY <4>1, FiniteNodes
      <3> DEFINE c == Cardinality(activated)
                 d == Cardinality(Range(seeds))
      <3>7. activated_counter = c + (Len(seeds) - d)
        BY DEF SpreadIsExact
      <3> HIDE DEF c, d
      <3>8. c \in Nat /\ d \in Nat
        BY <3>1, <3>6 DEF c, d
      <3>9. activated_counter + 1 = (c + 1) + (Len(seeds) - d)
        BY <3>5, <3>7, <3>8
      <3> QED BY <3>3, <3>4, <3>9 DEF SpreadIsExact, c, d
    <2>2. CASE UNCHANGED <<activated, activated_counter, seeds>>
      BY <2>2 DEF SpreadIsExact
    <2> QED BY <2>1, <2>2 DEF Walk, Pop, SkipActivated, Misses, EdgesDone, Return, vars
  <1> QED BY <1>1, <1>2, DiffusionStarts, DiffusionWalks, TypeCorrect, PTL DEF DiffusionSpec

-----------------------------------------------------------------------------

LEMMA InitSettled == Started => ExpandedNodesAreSettled
  BY DEF Started, Start, ExpandedNodesAreSettled

LEMMA NextSettled ==
    TypeOK /\ ExpandedNodesAreSettled /\ [Walk]_vars => ExpandedNodesAreSettled'
  <1> SUFFICES ASSUME TypeOK, ExpandedNodesAreSettled, [Walk]_vars,
                      NEW u \in activated' \ Range(work_queue'),
                      NEW i \in 1..Len(adjacency'[u])
               PROVE  \/ pc' = "edges" /\ u = current' /\ i >= position'
                      \/ adjacency'[u][i].destination \in activated'
                      \/ <<u, i>> \in tried'
    BY DEF ExpandedNodesAreSettled
  <1>1. adjacency' = adjacency
    BY DEF Walk, Pop, SkipActivated, Reaches, Misses, EdgesDone, Return, vars
  <1>2. i \in Nat \ {0} /\ position \in Nat \ {0}
    BY DEF TypeOK
  <1>3. ASSUME u \in activated \ Range(work_queue)
        PROVE  \/ pc = "edges" /\ u = current /\ i >= position
               \/ adjacency[u][i].destination \in activated
               \/ <<u, i>> \in tried
    BY <1>1, <1>3 DEF ExpandedNodesAreSettled
  \* Pop starts the expansion of the node that leaves the stack.
  <1>4. CASE Pop
    <2>1. Range(work_queue) = Range(Front(work_queue)) \cup {Last(work_queue)}
      BY <1>4, PopRange DEF Pop, TypeOK
    <2>2. CASE u = Last(work_queue)
      BY <1>2, <1>4, <2>2 DEF Pop
    <2>3. CASE u # Last(work_queue)
      BY <1>1, <1>3, <1>4, <2>1, <2>3 DEF Pop
    <2> QED BY <2>2, <2>3
  <1>5. CASE SkipActivated
    BY <1>1, <1>2, <1>3, <1>5 DEF SkipActivated, AtActivated, edge
  \* The newly active node is on the stack, so u was active before.
  <1>6. CASE Reaches
    <2>1. Range(work_queue') = Range(work_queue) \cup {edge.destination}
      BY <1>6, EdgeType, PushRange DEF Reaches, Pushed, TypeOK
    <2>2. u \in activated \ Range(work_queue)
      BY <1>6, <2>1 DEF Reaches
    <2> QED BY <1>1, <1>2, <1>3, <1>6, <2>2 DEF Reaches
  <1>7. CASE Misses
    BY <1>1, <1>2, <1>3, <1>7 DEF Misses
  <1>8. CASE EdgesDone
    <2>1. u = current => ~(i >= position)
      <3>1. Len(adjacency[current]) \in Nat
        BY AdjacencyType DEF TypeOK
      <3> QED BY <1>1, <1>2, <1>8, <3>1 DEF EdgesDone
    <2> QED BY <1>1, <1>3, <1>8, <2>1 DEF EdgesDone
  <1>9. CASE Return
    BY <1>1, <1>3, <1>9 DEF Return
  <1>10. CASE UNCHANGED vars
    BY <1>1, <1>3, <1>10 DEF vars
  <1> QED BY <1>4, <1>5, <1>6, <1>7, <1>8, <1>9, <1>10 DEF Walk

\* A node that left the stack has drawn for each of its edges or found the
\* other end active, so the empty stack at which the loop stops leaves no edge
\* out of the active set untried.
THEOREM ExpandedSettled == DiffusionSpec => []ExpandedNodesAreSettled
  BY InitSettled, NextSettled, DiffusionStarts, DiffusionWalks, TypeCorrect, PTL
     DEF DiffusionSpec

-----------------------------------------------------------------------------

LEMMA InitExpandsOnce == Started => EachNodeExpandsOnce
  BY DEF Started, Start, EachNodeExpandsOnce,
         NodesExpandOnce

LEMMA NextNodesExpandOnce ==
    TypeOK /\ NodesExpandOnce /\ [Walk]_vars => NodesExpandOnce'
  <1> SUFFICES ASSUME TypeOK, NodesExpandOnce, [Walk]_vars
               PROVE  NodesExpandOnce'
    OBVIOUS
  <1> DEFINE Drawn(t) == /\ t[1] \in activated \ Range(work_queue)
                         /\ pc = "edges" /\ t[1] = current => t[2] < position
  <1>1. /\ work_queue \in Seq(NodeId)
        /\ position \in Nat \ {0}
        /\ \A t \in tried : t[1] \in NodeId /\ t[2] \in Nat \ {0}
    BY DEF TypeOK
  \* The popped node was on the stack, so none of its edges has drawn yet.
  <1>2. CASE Pop
    <2>1. /\ IsInjective(Front(work_queue))
          /\ Last(work_queue) \notin Range(Front(work_queue))
          /\ Range(work_queue) = Range(Front(work_queue)) \cup {Last(work_queue)}
      BY <1>1, <1>2, PopRange, PopInjective DEF Pop, NodesExpandOnce
    <2>2. \A t \in tried : t[1] # Last(work_queue)
      BY <2>1 DEF NodesExpandOnce
    <2> QED BY <1>2, <2>1, <2>2 DEF Pop, NodesExpandOnce
  <1>3. CASE SkipActivated
    BY <1>1, <1>3 DEF SkipActivated, AtEdge, NodesExpandOnce
  <1>4. CASE Reaches
    <2>1. edge.destination \in NodeId
      BY <1>4, EdgeType DEF Reaches
    <2>2. edge.destination \notin Range(work_queue)
      BY <1>4 DEF Reaches, AtActivated, NodesExpandOnce
    <2>3. /\ IsInjective(Append(work_queue, edge.destination))
          /\ Range(Append(work_queue, edge.destination))
                = Range(work_queue) \cup {edge.destination}
      BY <1>1, <2>1, <2>2, PushRange, PushInjective DEF NodesExpandOnce
    <2>4. current \in activated \ Range(work_queue)
      BY <1>4 DEF Reaches, AtEdge, NodesExpandOnce
    <2>5. current # edge.destination
      BY <1>4, <2>4 DEF Reaches, AtActivated
    <2>6. \A t \in tried : t[1] # edge.destination
      BY <1>4 DEF Reaches, AtActivated, NodesExpandOnce
    <2>7. \A t \in tried' : Drawn(t)'
      <3>1. ASSUME NEW t \in tried PROVE Drawn(t)'
        BY <1>1, <1>4, <2>3, <2>6, <3>1 DEF Reaches, Pushed, AtEdge, NodesExpandOnce
      <3>2. ASSUME NEW t, t = <<current, position>> PROVE Drawn(t)'
        BY <1>1, <1>4, <2>3, <2>4, <2>5, <3>2 DEF Reaches, Pushed, AtEdge
      <3> QED BY <1>4, <3>1, <3>2 DEF Reaches
    <2> QED BY <1>4, <2>3, <2>4, <2>5, <2>7 DEF Reaches, Pushed, NodesExpandOnce
  <1>5. CASE Misses
    <2>1. current \in activated \ Range(work_queue)
      BY <1>5 DEF Misses, AtEdge, NodesExpandOnce
    <2>2. \A t \in tried' : Drawn(t)'
      <3>1. ASSUME NEW t \in tried PROVE Drawn(t)'
        BY <1>1, <1>5, <3>1 DEF Misses, AtEdge, NodesExpandOnce
      <3>2. ASSUME NEW t, t = <<current, position>> PROVE Drawn(t)'
        BY <1>1, <1>5, <2>1, <3>2 DEF Misses, AtEdge
      <3> QED BY <1>5, <3>1, <3>2 DEF Misses
    <2> QED BY <1>5, <2>1, <2>2 DEF Misses, NodesExpandOnce
  <1>6. CASE EdgesDone
    BY <1>6 DEF EdgesDone, NodesExpandOnce
  <1>7. CASE Return
    BY <1>7 DEF Return, NodesExpandOnce
  <1>8. CASE UNCHANGED vars
    BY <1>8 DEF vars, NodesExpandOnce
  <1> QED BY <1>2, <1>3, <1>4, <1>5, <1>6, <1>7, <1>8 DEF Walk

\* No step changes the argument.
LEMMA SeedsStay == [Walk]_vars => seeds' = seeds
  BY DEF Walk, Pop, SkipActivated, Reaches, Misses, EdgesDone, Return, vars

\* With distinct seeds no node is expanded twice and each edge draws at its turn.
THEOREM ExpandsOnce == DiffusionSpec => []EachNodeExpandsOnce
  <1>1. TypeOK /\ EachNodeExpandsOnce /\ [Walk]_vars => EachNodeExpandsOnce'
    BY NextNodesExpandOnce, SeedsStay DEF EachNodeExpandsOnce
  <1> QED BY <1>1, InitExpandsOnce, DiffusionStarts, DiffusionWalks, TypeCorrect, PTL
         DEF DiffusionSpec

-----------------------------------------------------------------------------
(* The refinement of CascadeProcess.                                       *)

\* The mapped tried set, as a definition of its own.
TriedArcs == {ArcOf(t[1], t[2]) : t \in tried}

Arcs == UNION {{ArcOf(u, i) : i \in 1..Len(adjacency[u])} : u \in NodeId}

\* A draw for the edge at hand is a first try of an open arc.
LEMMA DrawIsTry ==
    ASSUME TypeOK, NodesExpandOnce, AtEdge, edge.destination \notin activated
    PROVE  /\ ArcOf(current, position) \in Arcs \ TriedArcs
           /\ ArcOf(current, position).from \in activated
           /\ ArcOf(current, position).to = edge.destination
           /\ ArcOf(current, position).weight = edge.weight
  <1>1. current \in NodeId /\ position \in 1..Len(adjacency[current])
    BY EdgeType DEF TypeOK
  <1>2. ArcOf(current, position) \in Arcs
    BY <1>1 DEF Arcs
  <1>3. ASSUME NEW t \in tried, ArcOf(t[1], t[2]) = ArcOf(current, position)
        PROVE  FALSE
    <2>1. t[1] = current /\ t[2] = position
      BY <1>3 DEF ArcOf
    <2>2. t[2] < position
      BY <2>1 DEF AtEdge, NodesExpandOnce
    <2> QED BY <1>1, <2>1, <2>2
  <1>4. ArcOf(current, position) \notin TriedArcs
    BY <1>3 DEF TriedArcs
  <1>5. current \in activated
    BY DEF AtEdge, NodesExpandOnce
  <1> QED BY <1>2, <1>4, <1>5 DEF ArcOf, edge

\* A draw is recorded under the arc it is for.
LEMMA DrawnArcs ==
    ASSUME adjacency' = adjacency, tried' = tried \cup {<<current, position>>}
    PROVE  TriedArcs' = TriedArcs \cup {ArcOf(current, position)}
  <1> DEFINE arcOf(t) == ArcOf(t[1], t[2])
  <1>1. TriedArcs' = {arcOf(t) : t \in tried \cup {<<current, position>>}}
    BY DEF TriedArcs, ArcOf
  <1>2. TriedArcs = {arcOf(t) : t \in tried}
    BY DEF TriedArcs
  <1>3. arcOf(<<current, position>>) = ArcOf(current, position)
    OBVIOUS
  <1> HIDE DEF arcOf
  <1> QED BY <1>1, <1>2, <1>3

LEMMA StepRefines ==
    ASSUME TypeOK, ExpandedNodesAreSettled, NodesExpandOnce, [Next]_vars
    PROVE  [Process!Next]_(Process!vars)
  <1> USE DEF Arcs, TriedArcs
  <1>1. CASE Pop
    BY <1>1 DEF Pop, Process!vars, ArcOf
  <1>2. CASE SkipActivated
    BY <1>2 DEF SkipActivated, AtEdge, Process!vars, ArcOf
  <1>3. CASE Activate
    <2>1. /\ ArcOf(current, position) \in Arcs \ TriedArcs
          /\ ArcOf(current, position).from \in activated
          /\ ArcOf(current, position).to = edge.destination
          /\ ArcOf(current, position).weight = edge.weight
      BY <1>3, DrawIsTry DEF Activate, AtActivated
    <2>2. TriedArcs' = TriedArcs \cup {ArcOf(current, position)}
      BY <1>3, DrawnArcs DEF Activate
    <2>3. edge.weight > 0
      BY <1>3, EdgeType, GraphAssumption DEF Activate, Succeeds, genrand_close_open, Weight
    <2>4. Arcs' = Arcs
      BY <1>3 DEF Activate, ArcOf
    <2>5. (pc = "done")' = (pc = "done") /\ pc # "done"
      BY <1>3 DEF Activate, AtEdge
    <2>6. Process!Try(ArcOf(current, position))
      BY <1>3, <2>1, <2>2, <2>3, <2>4, <2>5 DEF Process!Try, Process!Open, Activate, AtActivated
    <2> QED BY <2>1, <2>6 DEF Process!Next
  <1>4. CASE Fail
    <2>1. /\ ArcOf(current, position) \in Arcs \ TriedArcs
          /\ ArcOf(current, position).from \in activated
          /\ ArcOf(current, position).to = edge.destination
          /\ ArcOf(current, position).weight = edge.weight
      BY <1>4, DrawIsTry DEF Fail, AtActivated
    <2>2. TriedArcs' = TriedArcs \cup {ArcOf(current, position)}
      BY <1>4, DrawnArcs DEF Fail
    <2>3. edge.weight < One
      BY <1>4, EdgeType, GraphAssumption DEF Fail, Succeeds, genrand_close_open, Weight
    <2>4. Arcs' = Arcs
      BY <1>4 DEF Fail, ArcOf
    <2>5. (pc = "done")' = (pc = "done") /\ pc # "done"
      BY <1>4 DEF Fail, AtEdge
    <2>6. Process!Try(ArcOf(current, position))
      BY <1>4, <2>1, <2>2, <2>3, <2>4, <2>5 DEF Process!Try, Process!Open, Fail, AtActivated
    <2> QED BY <2>1, <2>6 DEF Process!Next
  <1>5. CASE EdgesDone
    BY <1>5 DEF EdgesDone, Process!vars, ArcOf
  \* With an empty stack every active node is settled: no arc is open.
  <1>6. CASE Return
    <2>1. Process!Open = {}
      <3>1. ASSUME NEW u \in NodeId, NEW i \in 1..Len(adjacency[u]),
                   u \in activated, adjacency[u][i].destination \notin activated
            PROVE  ArcOf(u, i) \in TriedArcs
        <4>1. u \in activated \ Range(work_queue)
          BY <1>6, <3>1 DEF Return, Range
        <4>2. <<u, i>> \in tried
          BY <1>6, <3>1, <4>1 DEF ExpandedNodesAreSettled, Return
        <4> QED BY <4>2
      <3>2. ASSUME NEW a \in Arcs \ TriedArcs, a.from \in activated, a.to \notin activated
            PROVE  FALSE
        <4>1. PICK u \in NodeId : \E i \in 1..Len(adjacency[u]) : a = ArcOf(u, i)
          BY <3>2
        <4>2. PICK i \in 1..Len(adjacency[u]) : a = ArcOf(u, i)
          BY <4>1
        <4>3. a.from = u /\ a.to = adjacency[u][i].destination
          BY <4>2 DEF ArcOf
        <4> QED BY <3>1, <3>2, <4>2, <4>3
      <3>3. Process!Open = {a \in Arcs \ TriedArcs :
                               a.from \in activated /\ a.to \notin activated}
        BY DEF Process!Open
      <3> HIDE DEF Arcs, TriedArcs
      <3> QED BY <3>2, <3>3
    <2>2. UNCHANGED <<Arcs, activated, TriedArcs>>
      BY <1>6 DEF Return, ArcOf
    <2>3. (pc = "done")' = TRUE /\ pc # "done"
      BY <1>6 DEF Return
    <2> QED BY <2>1, <2>2, <2>3 DEF Process!Next, Process!Finish
  <1>7. CASE UNCHANGED vars
    BY <1>7 DEF vars, Process!vars, ArcOf
  <1> QED BY <1>1, <1>2, <1>3, <1>4, <1>5, <1>6, <1>7 DEF Next

LEMMA InitRefines == Started => Process!Init
  <1> SUFFICES ASSUME Started PROVE Process!Init
    OBVIOUS
  <1>1. TypeOK
    BY InitTypeOK
  <1>2. tried = {} /\ pc = "loop"
    BY DEF Started, Start
  <1> QED BY <1>1, <1>2 DEF TypeOK, Process!Init

\* On every graph, an independent cascade of distinct seeds is what the model
\* promises: the order of the program's stack does not matter.
THEOREM CascadesAreProcesses == DiffusionSpec => CascadesAreTheProcess
  <1>1. ASSUME TypeOK, ExpandedNodesAreSettled, EachNodeExpandsOnce,
               [DiffusionNext]_diffusion_vars
        PROVE  [model = "INDEPENDENT_CASCADE" /\ DistinctSeeds => Process!Next]_(Process!vars)
    <2> SUFFICES ASSUME model = "INDEPENDENT_CASCADE", IsInjective(seeds)
                 PROVE  [Process!Next]_(Process!vars)
      BY DEF DistinctSeeds
    <2>1. [Next]_vars
      BY <1>1 DEF DiffusionNext, SimulationStep, IndependentCascadeStep, LinearThresholdStep,
             LoopStep, simulation_vars, diffusion_vars
    <2> QED BY <1>1, <2>1, StepRefines DEF EachNodeExpandsOnce
  <1> QED BY <1>1, TypeCorrect, ExpandedSettled, ExpandsOnce, PTL
          DEF DiffusionSpec, CascadesAreTheProcess

\* A simulation of the independent cascade on its own implements the process, from
\* its first state on.
THEOREM CascadeImplementsProcess == Spec => ImplementsProcess
  <1>1. Spec => [](TypeOK /\ ExpandedNodesAreSettled /\ EachNodeExpandsOnce)
    <2>1. [Next]_vars => [Walk]_vars
      BY NextWalks
    <2>2. TypeOK /\ EachNodeExpandsOnce /\ [Walk]_vars => EachNodeExpandsOnce'
      BY NextNodesExpandOnce, SeedsStay DEF EachNodeExpandsOnce
    <2> QED BY <2>1, <2>2, InitStarts, InitTypeOK, InitSettled, InitExpandsOnce,
               NextTypeOK, NextSettled, PTL DEF Spec
  <1>2. TypeOK /\ ExpandedNodesAreSettled /\ EachNodeExpandsOnce /\ [Next]_vars
           => [IsInjective(seeds) => Process!Next]_(Process!vars)
    BY StepRefines DEF EachNodeExpandsOnce
  <1> QED BY <1>1, <1>2, InitStarts, InitRefines, PTL DEF Spec, ImplementsProcess

-----------------------------------------------------------------------------
(* Sums of lists.                                                          *)

\* A list of one adds up to its element.
LEMMA AddsUpOne ==
    ASSUME NEW s \in Seq(Int), NEW total, AddsUp(s, total), Len(s) = 1
    PROVE  total = s[1]
  <1>1. PICK f \in [Nat -> Int] : f[0] = 0 /\ f[1] = total /\ f[1] = f[1 - 1] + s[1]
    BY DEF AddsUp
  <1>2. 1 \in 1..Len(s) /\ 1 - 1 = 0
    OBVIOUS
  <1>3. s[1] \in Int
    BY <1>2, Elements, Zenon
  <1> QED BY <1>1, <1>2, <1>3

\* Two neighbours that are replaced by their sum leave the sum of all alone.
Merged(t, s, i) ==
    /\ Len(t) = Len(s) - 1
    /\ \A k \in 1..Len(t) : t[k] = IF k < i THEN s[k]
                                   ELSE IF k = i THEN s[i] + s[i + 1] ELSE s[k + 1]

LEMMA AddsUpJoined ==
    ASSUME NEW s \in Seq(Int), NEW total \in Int, AddsUp(s, total),
           NEW i \in 1..(Len(s) - 1), NEW t \in Seq(Int), Merged(t, s, i)
    PROVE  AddsUp(t, total)
  <1> SUFFICES ASSUME Len(t) = Len(s) - 1,
                      \A k \in 1..Len(t) : t[k] = IF k < i THEN s[k]
                                       ELSE IF k = i THEN s[i] + s[i + 1] ELSE s[k + 1]
               PROVE  AddsUp(t, total)
    BY DEF Merged
  <1>1. PICK f \in [Nat -> Int] :
           /\ f[0] = 0 /\ f[Len(s)] = total
           /\ \A k \in 1..Len(s) : f[k] = f[k - 1] + s[k]
    BY DEF AddsUp
  <1> DEFINE g == [k \in Nat |-> IF k < i THEN f[k] ELSE f[k + 1]]
  <1>2. /\ g \in [Nat -> Int]
        /\ \A k \in Nat : g[k] = IF k < i THEN f[k] ELSE f[k + 1]
    <2>1. \A k \in Nat : (IF k < i THEN f[k] ELSE f[k + 1]) \in Int
      <3>1. \A k \in Nat : k + 1 \in Nat
        OBVIOUS
      <3> QED BY <3>1
    <2> QED BY <2>1
  <1> HIDE DEF g
  <1>3. g[0] = 0 /\ g[Len(t)] = total
    <2>1. Len(t) \in Nat /\ Len(t) + 1 = Len(s)
      OBVIOUS
    <2> QED BY <1>1, <1>2, <2>1
  <1>4. ASSUME NEW k \in 1..Len(t) PROVE g[k] = g[k - 1] + t[k]
    <2>1. /\ k \in Nat /\ k - 1 \in Nat /\ k + 1 \in Nat
          /\ k \in 1..Len(s) /\ k + 1 \in 1..Len(s) /\ (k + 1) - 1 = k /\ (k - 1) + 1 = k
      OBVIOUS
    <2>2. s[k] \in Int /\ s[k + 1] \in Int
      <3> DEFINE next == k + 1
      <3>1. next \in 1..Len(s)
        BY <2>1
      <3> HIDE DEF next
      <3>2. s[next] \in Int
        BY <3>1
      <3> QED BY <2>1, <3>2 DEF next
    <2>3. /\ f[k] = f[k - 1] + s[k] /\ f[k + 1] = f[k] + s[k + 1]
          /\ f[k] \in Int /\ f[k - 1] \in Int /\ f[k + 1] \in Int
      BY <1>1, <2>1
    <2>4. /\ g[k] = IF k < i THEN f[k] ELSE f[k + 1]
          /\ g[k - 1] = IF k - 1 < i THEN f[k - 1] ELSE f[k]
      BY <1>2, <2>1
    <2>5. t[k] = IF k < i THEN s[k] ELSE IF k = i THEN s[k] + s[k + 1] ELSE s[k + 1]
      OBVIOUS
    <2>6. CASE k < i
      BY <2>1, <2>2, <2>3, <2>4, <2>5, <2>6
    <2>7. CASE k = i
      <3>1. ~(k < i) /\ k - 1 < i
        BY <2>1, <2>7
      <3>2. g[k] = f[k + 1] /\ g[k - 1] = f[k - 1] /\ t[k] = s[k] + s[k + 1]
        BY <2>4, <2>5, <2>7, <3>1
      <3>3. (f[k - 1] + s[k]) + s[k + 1] = f[k - 1] + (s[k] + s[k + 1])
        <4>1. f[k - 1] \in Int /\ s[k] \in Int /\ s[k + 1] \in Int
          BY <2>2, <2>3
        <4> QED BY <4>1, SummandsGroup, Zenon
      <3> QED BY <2>3, <3>2, <3>3
    <2>8. CASE k > i
      <3>1. ~(k < i) /\ ~(k - 1 < i) /\ k # i
        BY <2>1, <2>8
      <3> QED BY <2>1, <2>2, <2>3, <2>4, <2>5, <3>1
    <2> QED BY <2>6, <2>7, <2>8
  <1> QED BY <1>2, <1>3, <1>4 DEF AddsUp

\* So does a zero that is split in two.
Parted(t, s, i) ==
    /\ s[i] = 0
    /\ Len(t) = Len(s) + 1
    /\ \A k \in 1..Len(t) : t[k] = IF k < i THEN s[k]
                                   ELSE IF k \in {i, i + 1} THEN 0 ELSE s[k - 1]

LEMMA AddsUpSplit ==
    ASSUME NEW s \in Seq(Int), NEW total \in Int, AddsUp(s, total),
           NEW i \in 1..Len(s), NEW t \in Seq(Int), Parted(t, s, i)
    PROVE  AddsUp(t, total)
  <1> SUFFICES ASSUME s[i] = 0, Len(t) = Len(s) + 1,
                      \A k \in 1..Len(t) : t[k] = IF k < i THEN s[k]
                                       ELSE IF k \in {i, i + 1} THEN 0 ELSE s[k - 1]
               PROVE  AddsUp(t, total)
    BY DEF Parted
  <1>1. PICK f \in [Nat -> Int] :
           /\ f[0] = 0 /\ f[Len(s)] = total
           /\ \A k \in 1..Len(s) : f[k] = f[k - 1] + s[k]
    BY DEF AddsUp
  <1> DEFINE g == [k \in Nat |-> IF k < i THEN f[k] ELSE f[k - 1]]
  <1>2. /\ g \in [Nat -> Int]
        /\ \A k \in Nat : g[k] = IF k < i THEN f[k] ELSE f[k - 1]
    <2>1. \A k \in Nat : (IF k < i THEN f[k] ELSE f[k - 1]) \in Int
      <3>1. \A k \in Nat : ~(k < i) => k - 1 \in Nat
        OBVIOUS
      <3> QED BY <3>1
    <2> QED BY <2>1
  <1> HIDE DEF g
  <1>3. g[0] = 0 /\ g[Len(t)] = total
    <2>1. Len(t) \in Nat /\ Len(t) - 1 = Len(s) /\ ~(Len(t) < i)
      OBVIOUS
    <2> QED BY <1>1, <1>2, <2>1
  <1>4. ASSUME NEW k \in 1..Len(t) PROVE g[k] = g[k - 1] + t[k]
    <2>1. k \in Nat /\ k - 1 \in Nat
      OBVIOUS
    <2>2. /\ g[k] = IF k < i THEN f[k] ELSE f[k - 1]
          /\ g[k - 1] = IF k - 1 < i THEN f[k - 1] ELSE f[(k - 1) - 1]
          /\ f[k - 1] \in Int
      BY <1>2, <2>1
    <2>3. t[k] = IF k < i THEN s[k] ELSE IF k \in {i, i + 1} THEN 0 ELSE s[k - 1]
      OBVIOUS
    <2>4. CASE k < i
      <3>1. k \in 1..Len(s)
        BY <2>4
      <3> QED BY <1>1, <2>1, <2>2, <2>3, <2>4, <3>1
    <2>5. CASE k = i
      BY <2>1, <2>2, <2>3, <2>5
    <2>6. CASE k = i + 1
      <3>1. f[i] = f[i - 1] + s[i] /\ f[i - 1] \in Int
        <4>1. i - 1 \in Nat
          OBVIOUS
        <4> QED BY <1>1, <4>1
      <3> QED BY <2>2, <2>3, <2>6, <3>1
    <2>7. CASE k > i + 1
      <3>1. k - 1 \in 1..Len(s)
        BY <2>7
      <3>2. f[k - 1] = f[(k - 1) - 1] + s[k - 1]
        BY <1>1, <3>1
      <3> QED BY <2>2, <2>3, <2>7, <3>2
    <2> QED BY <2>4, <2>5, <2>6, <2>7
  <1> QED BY <1>2, <1>3, <1>4 DEF AddsUp

-----------------------------------------------------------------------------
(* The parts of a range.                                                   *)

LoopPart == [first : Parallel!Iterator, last : Parallel!Iterator, done : BOOLEAN, sum : Int]

From(part) == part.first.current

To(part) == part.last.current

\* From left to right the parts make the range.
Connected(ps, l) ==
    /\ ps \in Seq(LoopPart) /\ Len(ps) > 0
    /\ From(ps[1]) = l.from /\ To(ps[Len(ps)]) = l.to
    /\ \A i \in 1..Len(ps) : From(ps[i]) <= To(ps[i])
    /\ \A i, j \in 1..Len(ps) : i < j => To(ps[i]) <= From(ps[j])
    /\ \A i \in 1..Len(ps) : i < Len(ps) => To(ps[i]) = From(ps[i + 1])

\* The parts to come hold indices, those of a reduction two at least unless only
\* the task to their left can run them.
Waiting(ps, l) ==
    /\ ps[1].done
    /\ \A i \in 1..Len(ps) : ~ps[i].done =>
          /\ ps[i].sum = 0
          /\ From(ps[i]) < To(ps[i])
          /\ i > 2 /\ l.kind = "reduce" => From(ps[i]) + 1 < To(ps[i])

Visited(ps, seen) ==
    \A i \in 1..Len(ps) : \A index \in From(ps[i])..(To(ps[i]) - 1) :
        seen[index] = IF ps[i].done THEN 1 ELSE 0

Runs(ps) == [i \in 1..Len(ps) |-> IF ps[i].done THEN To(ps[i]) - From(ps[i]) ELSE 0]

Sums(ps) == [i \in 1..Len(ps) |-> ps[i].sum]

Sound(l, ps, c, seen, r) ==
    /\ Connected(ps, l)
    /\ Waiting(ps, l)
    /\ l.kind = "each" => Visited(ps, seen)
    /\ c \in Int /\ AddsUp(Runs(ps), c)
    /\ r \in Int /\ AddsUp(Sums(ps), r)

\* What a part of a sound list holds.
LEMMA PartType ==
    ASSUME NEW ps \in Seq(LoopPart), NEW i \in 1..Len(ps)
    PROVE  /\ ps[i] \in LoopPart
           /\ From(ps[i]) \in Int /\ To(ps[i]) \in Int
           /\ ps[i].first \in Parallel!Iterator /\ ps[i].last \in Parallel!Iterator
           /\ ps[i].sum \in Int /\ ps[i].done \in BOOLEAN
  <1>1. ps[i] \in LoopPart
    BY Elements
  <1>2. /\ ps[i].first \in Parallel!Iterator /\ ps[i].last \in Parallel!Iterator
        /\ ps[i].sum \in Int /\ ps[i].done \in BOOLEAN
    BY <1>1 DEF LoopPart
  <1> QED BY <1>1, <1>2 DEF From, To, Parallel!Iterator

LEMMA ListsOfParts ==
    ASSUME NEW ps \in Seq(LoopPart)
    PROVE  /\ Runs(ps) \in Seq(Int) /\ Sums(ps) \in Seq(Int)
           /\ Len(Runs(ps)) = Len(ps) /\ Len(Sums(ps)) = Len(ps)
           /\ \A i \in 1..Len(ps) :
                 /\ Runs(ps)[i] = IF ps[i].done THEN To(ps[i]) - From(ps[i]) ELSE 0
                 /\ Sums(ps)[i] = ps[i].sum
  <1>1. Len(ps) \in Nat
    OBVIOUS
  <1>2. \A i \in 1..Len(ps) : (IF ps[i].done THEN To(ps[i]) - From(ps[i]) ELSE 0) \in Int
    <2> SUFFICES ASSUME NEW i \in 1..Len(ps)
                 PROVE  (IF ps[i].done THEN To(ps[i]) - From(ps[i]) ELSE 0) \in Int
      OBVIOUS
    <2>1. From(ps[i]) \in Int /\ To(ps[i]) \in Int
      BY PartType
    <2> QED BY <2>1
  <1>3. \A i \in 1..Len(ps) : ps[i].sum \in Int
    BY PartType
  <1> QED BY <1>1, <1>2, <1>3 DEF Runs, Sums

\* The list t is s with the elements from i to j replaced.
Splice(t, s, i, j, new) ==
    /\ Len(t) = (i - 1) + Len(new) + (Len(s) - j)
    /\ \A k \in 1..(i - 1) : t[k] = s[k]
    /\ \A k \in 1..Len(new) : t[(i - 1) + k] = new[k]
    /\ \A k \in 1..(Len(s) - j) : t[(i - 1) + Len(new) + k] = s[j + k]

LEMMA Spliced ==
    ASSUME NEW S, NEW s \in Seq(S), NEW i \in 1..Len(s), NEW j \in i..Len(s), NEW new \in Seq(S),
           NEW list, list = SubSeq(s, 1, i - 1) \o new \o SubSeq(s, j + 1, Len(s))
    PROVE  list \in Seq(S) /\ Splice(list, s, i, j, new)
  <1> DEFINE a == SubSeq(s, 1, i - 1)
             b == SubSeq(s, j + 1, Len(s))
             c == a \o new
             t == c \o b
  <1>1. a \in Seq(S) /\ b \in Seq(S) /\ new \in Seq(S)
    OBVIOUS
  <1>2. /\ Len(a) = i - 1 /\ Len(b) = Len(s) - j
        /\ \A k \in 1..(i - 1) : a[k] = s[k]
        /\ \A k \in 1..(Len(s) - j) : b[k] = s[j + k]
    OBVIOUS
  <1> HIDE DEF a, b
  <1>3. /\ c \in Seq(S) /\ Len(c) = (i - 1) + Len(new)
        /\ \A k \in 1..(i - 1) : c[k] = s[k]
        /\ \A k \in 1..Len(new) : c[(i - 1) + k] = new[k]
    <2>1. /\ a \o new \in Seq(S) /\ Len(a \o new) = Len(a) + Len(new)
          /\ \A k \in 1..Len(a) : (a \o new)[k] = a[k]
          /\ \A k \in 1..Len(new) : (a \o new)[Len(a) + k] = new[k]
      BY <1>1
    <2> HIDE DEF c
    <2> QED BY <1>2, <2>1 DEF c
  <1> HIDE DEF c
  <1>4. /\ t \in Seq(S) /\ Len(t) = Len(c) + Len(b)
        /\ \A k \in 1..Len(c) : t[k] = c[k]
        /\ \A k \in 1..Len(b) : t[Len(c) + k] = b[k]
    <2>1. c \in Seq(S)
      BY <1>3
    <2> QED BY <1>1, <2>1
  <1> HIDE DEF t
  <1>5. i - 1 \in Nat /\ Len(new) \in Nat /\ Len(s) - j \in Nat
    OBVIOUS
  <1>6. ASSUME NEW k \in 1..(i - 1) PROVE t[k] = s[k]
    <2>1. k \in 1..Len(c)
      BY <1>3, <1>5
    <2> QED BY <1>3, <1>4, <2>1
  <1>7. ASSUME NEW k \in 1..Len(new) PROVE t[(i - 1) + k] = new[k]
    <2>1. (i - 1) + k \in 1..Len(c)
      BY <1>3, <1>5
    <2> QED BY <1>3, <1>4, <2>1
  <1>8. ASSUME NEW k \in 1..(Len(s) - j) PROVE t[(i - 1) + Len(new) + k] = s[j + k]
    BY <1>2, <1>3, <1>4
  <1>9. list = t
    BY DEF t, c, a, b
  <1>10. Len(t) = (i - 1) + Len(new) + (Len(s) - j)
    BY <1>2, <1>3, <1>4
  <1> QED BY <1>4, <1>6, <1>7, <1>8, <1>9, <1>10 DEF Splice

\* Every part lies within the range.
LEMMA PartsAreWithin ==
    ASSUME NEW l, NEW ps, Connected(ps, l), NEW i \in 1..Len(ps)
    PROVE  l.from <= From(ps[i]) /\ To(ps[i]) <= l.to
  <1>1. ps \in Seq(LoopPart) /\ Len(ps) \in Nat /\ Len(ps) > 0
    BY DEF Connected
  <1>2. 1 \in 1..Len(ps) /\ Len(ps) \in 1..Len(ps)
    BY <1>1
  <1>3. /\ From(ps[1]) \in Int /\ To(ps[1]) \in Int
        /\ From(ps[Len(ps)]) \in Int /\ To(ps[Len(ps)]) \in Int
        /\ From(ps[i]) \in Int /\ To(ps[i]) \in Int
    BY <1>1, <1>2, PartType
  <1>4. l.from <= From(ps[i])
    <2>1. From(ps[1]) = l.from /\ From(ps[1]) <= To(ps[1])
      BY <1>2 DEF Connected
    <2>2. i # 1 => To(ps[1]) <= From(ps[i])
      BY <1>1, <1>2 DEF Connected
    <2> QED BY <1>3, <2>1, <2>2
  <1>5. To(ps[i]) <= l.to
    <2>1. To(ps[Len(ps)]) = l.to /\ From(ps[Len(ps)]) <= To(ps[Len(ps)])
      BY <1>2 DEF Connected
    <2>2. i # Len(ps) => To(ps[i]) <= From(ps[Len(ps)])
      BY <1>1, <1>2 DEF Connected
    <2> QED BY <1>3, <2>1, <2>2
  <1> QED BY <1>4, <1>5

\* A part runs: its indices are visited, and the sums grow by what it adds.
LEMMA PartRuns ==
    ASSUME NEW l, NEW ps, NEW c, NEW seen, NEW r, Sound(l, ps, c, seen, r),
           NEW i \in 1..Len(ps), ~ps[i].done, NEW sum \in Int, NEW now,
           l.kind = "each" => \A index \in l.from..(l.to - 1) :
               now[index] = seen[index]
                              + (IF index \in From(ps[i])..(To(ps[i]) - 1) THEN 1 ELSE 0),
           l.from \in Int, l.to \in Int
    PROVE  Sound(l, [ps EXCEPT ![i] = [ps[i] EXCEPT !.done = TRUE, !.sum = sum]],
                 c + (To(ps[i]) - From(ps[i])), now, r + sum)
  <1> DEFINE part == [ps[i] EXCEPT !.done = TRUE, !.sum = sum]
             qs == [ps EXCEPT ![i] = part]
  <1>1. ps \in Seq(LoopPart) /\ Len(ps) \in Nat /\ DOMAIN ps = 1..Len(ps) /\ Len(ps) > 0
    BY DEF Sound, Connected
  <1>2. /\ ps[i] \in LoopPart /\ ps[i].sum = 0 /\ Len(ps) > 0
        /\ From(ps[i]) \in Int /\ To(ps[i]) \in Int
    BY <1>1, PartType DEF Sound, Waiting
  <1>3. /\ part \in LoopPart
        /\ part.first = ps[i].first /\ part.last = ps[i].last /\ part.done /\ part.sum = sum
    BY <1>2 DEF LoopPart
  <1>4. /\ From(part) = From(ps[i]) /\ To(part) = To(ps[i])
        /\ From(part) \in Int /\ To(part) \in Int
    BY <1>2, <1>3 DEF From, To
  <1> HIDE DEF part
  <1>5. /\ qs \in Seq(LoopPart) /\ Len(qs) = Len(ps)
        /\ \A k \in 1..Len(ps) : qs[k] = IF k = i THEN part ELSE ps[k]
    BY <1>1, <1>3
  <1> HIDE DEF qs
  <1>6. \A k \in 1..Len(ps) : /\ From(qs[k]) = From(ps[k]) /\ To(qs[k]) = To(ps[k])
                              /\ k # i => qs[k] = ps[k]
    BY <1>4, <1>5
  <1>7. Connected(qs, l)
    <2>1. /\ From(qs[1]) = From(ps[1]) /\ To(qs[Len(qs)]) = To(ps[Len(ps)])
      BY <1>1, <1>5, <1>6
    <2>2. \A k \in 1..Len(ps) : k < Len(ps) => From(qs[k + 1]) = From(ps[k + 1])
      BY <1>1, <1>6
    <2> QED BY <1>1, <1>5, <1>6, <2>1, <2>2 DEF Sound, Connected
  <1>8. Waiting(qs, l)
    BY <1>1, <1>3, <1>5, <1>6 DEF Sound, Waiting
  <1>9. ASSUME l.kind = "each" PROVE Visited(qs, now)
    <2> SUFFICES ASSUME NEW k \in 1..Len(ps), NEW index \in From(ps[k])..(To(ps[k]) - 1)
                 PROVE  now[index] = IF qs[k].done THEN 1 ELSE 0
      BY <1>5, <1>6 DEF Visited
    <2>1. From(ps[k]) \in Int /\ To(ps[k]) \in Int /\ index \in Int
      BY <1>1, PartType
    <2>2. seen[index] = IF ps[k].done THEN 1 ELSE 0
      BY <1>9 DEF Sound, Visited
    <2>3. index \in l.from..(l.to - 1)
      <3>1. l.from <= From(ps[k]) /\ To(ps[k]) <= l.to
        BY PartsAreWithin DEF Sound
      <3> QED BY <2>1, <3>1
    <2>4. now[index] = seen[index]
                         + (IF index \in From(ps[i])..(To(ps[i]) - 1) THEN 1 ELSE 0)
      BY <1>9, <2>3
    <2>5. CASE k = i
      <3>1. seen[index] = 0 /\ qs[k].done
        BY <1>3, <1>5, <2>2, <2>5
      <3> QED BY <2>4, <2>5, <3>1
    <2>6. CASE k # i
      <3>1. To(ps[k]) <= From(ps[i]) \/ To(ps[i]) <= From(ps[k])
        <4>1. k < i \/ i < k
          BY <2>6
        <4> QED BY <4>1 DEF Sound, Connected
      <3>2. index \notin From(ps[i])..(To(ps[i]) - 1)
        BY <1>2, <2>1, <3>1
      <3>3. now[index] = seen[index]
        BY <2>2, <2>4, <3>2
      <3> QED BY <1>6, <2>2, <2>6, <3>3
    <2> QED BY <2>5, <2>6
  <1>10. /\ Runs(ps) \in Seq(Int) /\ Runs(qs) \in Seq(Int)
         /\ Sums(ps) \in Seq(Int) /\ Sums(qs) \in Seq(Int)
         /\ Len(Runs(ps)) = Len(ps) /\ Len(Runs(qs)) = Len(ps)
         /\ Len(Sums(ps)) = Len(ps) /\ Len(Sums(qs)) = Len(ps)
    BY <1>1, <1>5, ListsOfParts
  <1>11. AddsUp(Runs(qs), c + (To(ps[i]) - From(ps[i])))
    <2>1. ASSUME NEW k \in 1..Len(ps)
          PROVE  Runs(qs)[k] = IF k = i THEN Runs(ps)[k] + (To(ps[i]) - From(ps[i]))
                               ELSE Runs(ps)[k]
      <3>1. /\ Runs(ps)[k] = IF ps[k].done THEN To(ps[k]) - From(ps[k]) ELSE 0
            /\ Runs(qs)[k] = IF qs[k].done THEN To(ps[k]) - From(ps[k]) ELSE 0
        BY <1>1, <1>5, <1>6, ListsOfParts
      <3>2. CASE k = i
        <4>1. Runs(ps)[k] = 0 /\ Runs(qs)[k] = To(ps[i]) - From(ps[i])
          BY <1>3, <1>5, <3>1, <3>2
        <4> QED BY <1>2, <3>2, <4>1
      <3>3. CASE k # i
        BY <1>6, <3>1, <3>3
      <3> QED BY <3>2, <3>3
    <2>2. c \in Int /\ AddsUp(Runs(ps), c) /\ To(ps[i]) - From(ps[i]) \in Int
      BY <1>2 DEF Sound
    <2> DEFINE s == Runs(ps)
               t == Runs(qs)
               d == To(ps[i]) - From(ps[i])
    <2>3. /\ s \in Seq(Int) /\ t \in Seq(Int) /\ Len(t) = Len(s) /\ i \in 1..Len(s)
          /\ \A k \in 1..Len(s) : t[k] = IF k = i THEN s[k] + d ELSE s[k]
      BY <1>10, <2>1
    <2>4. d \in Int /\ AddsUp(s, c)
      BY <2>2
    <2> HIDE DEF s, t, d
    <2>5. AddsUp(t, c + d)
      <3>1. Grown(t, s, i, d)
        BY <2>3 DEF Grown
      <3> QED BY <2>2, <2>3, <2>4, <3>1, AddsUpMore
    <2> QED BY <2>5 DEF t, d
  <1>12. AddsUp(Sums(qs), r + sum)
    <2>1. ASSUME NEW k \in 1..Len(ps)
          PROVE  Sums(qs)[k] = IF k = i THEN Sums(ps)[k] + sum ELSE Sums(ps)[k]
      <3>1. Sums(ps)[k] = ps[k].sum /\ Sums(qs)[k] = qs[k].sum
        BY <1>1, <1>5, ListsOfParts
      <3> QED BY <1>2, <1>3, <1>5, <3>1
    <2>2. r \in Int /\ AddsUp(Sums(ps), r)
      BY DEF Sound
    <2>3. Grown(Sums(qs), Sums(ps), i, sum)
      BY <1>10, <2>1 DEF Grown
    <2>4. i \in 1..Len(Sums(ps))
      BY <1>10
    <2> QED BY <1>10, <2>2, <2>3, <2>4, AddsUpMore
  <1>13. c + (To(ps[i]) - From(ps[i])) \in Int /\ r + sum \in Int
    BY <1>2 DEF Sound
  <1> QED BY <1>7, <1>8, <1>9, <1>11, <1>12, <1>13 DEF Sound, qs, part

\* Two neighbours that ran are joined.
LEMMA PartsJoin ==
    ASSUME NEW l, NEW ps, NEW c, NEW seen, NEW r, Sound(l, ps, c, seen, r),
           NEW i \in 1..(Len(ps) - 1), ps[i].done, ps[i + 1].done,
           NEW joined \in LoopPart,
           joined.first = ps[i].first, joined.last = ps[i + 1].last, joined.done,
           joined.sum = ps[i].sum + ps[i + 1].sum,
           NEW qs \in Seq(LoopPart), Len(qs) = Len(ps) - 1,
           \A k \in 1..Len(qs) : qs[k] = IF k < i THEN ps[k]
                                         ELSE IF k = i THEN joined ELSE ps[k + 1]
    PROVE  Sound(l, qs, c, seen, r)
  <1>1. ps \in Seq(LoopPart) /\ Len(ps) \in Nat /\ Len(ps) > 1 /\ Len(qs) \in Nat /\ Len(qs) > 0
    BY DEF Sound, Connected
  <1>2. \A k \in 1..Len(qs) : k \in 1..Len(ps) /\ k + 1 \in 1..Len(ps)
    BY <1>1
  <1>3. \A k \in 1..Len(ps) : From(ps[k]) \in Int /\ To(ps[k]) \in Int /\ ps[k].sum \in Int
    BY <1>1, PartType
  <1>4. From(joined) = From(ps[i]) /\ To(joined) = To(ps[i + 1])
    BY DEF From, To
  <1>5. \A k \in 1..Len(qs) :
           /\ From(qs[k]) = IF k <= i THEN From(ps[k]) ELSE From(ps[k + 1])
           /\ To(qs[k]) = IF k < i THEN To(ps[k]) ELSE To(ps[k + 1])
    <2> SUFFICES ASSUME NEW k \in 1..Len(qs)
                 PROVE  /\ From(qs[k]) = IF k <= i THEN From(ps[k]) ELSE From(ps[k + 1])
                        /\ To(qs[k]) = IF k < i THEN To(ps[k]) ELSE To(ps[k + 1])
      OBVIOUS
    <2>1. qs[k] = IF k < i THEN ps[k] ELSE IF k = i THEN joined ELSE ps[k + 1]
      OBVIOUS
    <2>2. k < i \/ k = i \/ (k > i /\ ~(k < i) /\ ~(k <= i))
      OBVIOUS
    <2> QED BY <1>4, <2>1, <2>2
  <1>6. /\ \A k \in 1..Len(ps) : From(ps[k]) <= To(ps[k])
        /\ \A k, m \in 1..Len(ps) : k < m => To(ps[k]) <= From(ps[m])
        /\ \A k \in 1..Len(ps) : k < Len(ps) => To(ps[k]) = From(ps[k + 1])
    BY DEF Sound, Connected
  <1>7. Connected(qs, l)
    <2>1. From(qs[1]) = l.from
      <3>1. From(qs[1]) = From(ps[1])
        BY <1>1, <1>5
      <3> QED BY <3>1 DEF Sound, Connected
    <2>2. To(qs[Len(qs)]) = l.to
      <3>1. Len(qs) + 1 = Len(ps) /\ Len(qs) \in 1..Len(qs) /\ ~(Len(qs) < i)
        BY <1>1
      <3>2. To(qs[Len(qs)]) = To(ps[Len(ps)])
        BY <1>5, <3>1
      <3> QED BY <3>2 DEF Sound, Connected
    <2>3. ASSUME NEW k \in 1..Len(qs) PROVE From(qs[k]) <= To(qs[k])
      <3>1. k \in 1..Len(ps) /\ k + 1 \in 1..Len(ps)
        BY <1>2
      <3>2. /\ From(ps[k]) <= To(ps[k]) /\ From(ps[k + 1]) <= To(ps[k + 1])
            /\ To(ps[k]) <= From(ps[k + 1])
        BY <1>6, <3>1
      <3>3. /\ From(ps[k]) \in Int /\ To(ps[k]) \in Int
            /\ From(ps[k + 1]) \in Int /\ To(ps[k + 1]) \in Int
        BY <1>3, <3>1
      <3>4. From(ps[k]) <= To(ps[k + 1])
        BY <3>2, <3>3
      <3> QED BY <1>5, <3>2, <3>4
    <2>4. ASSUME NEW k \in 1..Len(qs), NEW m \in 1..Len(qs), k < m
          PROVE  To(qs[k]) <= From(qs[m])
      <3>1. /\ k \in 1..Len(ps) /\ k + 1 \in 1..Len(ps)
            /\ m \in 1..Len(ps) /\ m + 1 \in 1..Len(ps)
        BY <1>2
      <3>2. CASE m <= i
        BY <1>5, <1>6, <2>4, <3>1, <3>2
      <3>3. CASE i < m /\ k < i
        <4>1. k < m + 1
          BY <2>4
        <4> QED BY <1>5, <1>6, <3>1, <3>3, <4>1
      <3>4. CASE i < m /\ i <= k
        <4>1. k + 1 < m + 1 /\ ~(k < i) /\ ~(m <= i)
          BY <2>4, <3>4
        <4> QED BY <1>5, <1>6, <3>1, <4>1
      <3> QED BY <3>2, <3>3, <3>4
    <2>5. ASSUME NEW k \in 1..Len(qs), k < Len(qs) PROVE To(qs[k]) = From(qs[k + 1])
      <3>1. /\ k \in 1..Len(ps) /\ k < Len(ps) /\ k + 1 \in 1..Len(ps) /\ k + 1 < Len(ps)
            /\ k + 1 \in 1..Len(qs)
        BY <1>1, <2>5
      <3>2. To(ps[k]) = From(ps[k + 1]) /\ To(ps[k + 1]) = From(ps[(k + 1) + 1])
        BY <1>6, <3>1
      <3>3. k < i \/ (~(k < i) /\ ~(k + 1 <= i))
        OBVIOUS
      <3>4. k < i => k + 1 <= i
        OBVIOUS
      <3> QED BY <1>5, <3>1, <3>2, <3>3, <3>4
    <2> QED BY <1>1, <2>1, <2>2, <2>3, <2>4, <2>5 DEF Connected
  <1>8. Waiting(qs, l)
    <2>1. qs[1].done
      <3>1. ps[1].done
        BY DEF Sound, Waiting
      <3> QED BY <1>1, <3>1
    <2>2. ASSUME NEW k \in 1..Len(qs), ~qs[k].done
          PROVE  /\ qs[k].sum = 0 /\ From(qs[k]) < To(qs[k])
                 /\ k > 2 /\ l.kind = "reduce" => From(qs[k]) + 1 < To(qs[k])
      <3>1. CASE k < i
        <4>1. qs[k] = ps[k] /\ k \in 1..Len(ps)
          BY <1>2, <3>1
        <4> QED BY <2>2, <4>1 DEF Sound, Waiting
      <3>2. CASE k > i
        <4>1. qs[k] = ps[k + 1] /\ k + 1 \in 1..Len(ps) /\ (k > 2 => k + 1 > 2)
          BY <1>2, <3>2
        <4> QED BY <2>2, <4>1 DEF Sound, Waiting
      <3>3. k # i
        BY <2>2
      <3> QED BY <3>1, <3>2, <3>3
    <2> QED BY <2>1, <2>2 DEF Waiting
  <1>9. ASSUME l.kind = "each" PROVE Visited(qs, seen)
    <2> SUFFICES ASSUME NEW k \in 1..Len(qs), NEW index \in From(qs[k])..(To(qs[k]) - 1)
                 PROVE  seen[index] = IF qs[k].done THEN 1 ELSE 0
      BY DEF Visited
    <2>1. \A m \in 1..Len(ps) : \A n \in From(ps[m])..(To(ps[m]) - 1) :
              seen[n] = IF ps[m].done THEN 1 ELSE 0
      BY <1>9 DEF Sound, Visited
    <2>2. k \in 1..Len(ps) /\ k + 1 \in 1..Len(ps)
      BY <1>2
    <2>3. CASE k < i
      BY <1>5, <2>1, <2>2, <2>3
    <2>4. CASE k > i
      BY <1>5, <2>1, <2>2, <2>4
    <2>5. CASE k = i
      <3>1. index \in From(ps[k])..(To(ps[k + 1]) - 1)
        BY <1>5, <2>5
      <3>2. /\ From(ps[k]) \in Int /\ To(ps[k]) \in Int
            /\ From(ps[k + 1]) \in Int /\ To(ps[k + 1]) \in Int
        BY <1>3, <2>2
      <3>3. To(ps[k]) = From(ps[k + 1])
        BY <1>6, <2>2
      <3>4. \/ index \in From(ps[k])..(To(ps[k]) - 1)
            \/ index \in From(ps[k + 1])..(To(ps[k + 1]) - 1)
        BY <3>1, <3>2, <3>3
      <3>5. seen[index] = 1
        BY <2>1, <2>2, <2>5, <3>4
      <3> QED BY <2>5, <3>5
    <2> QED BY <2>3, <2>4, <2>5
  <1>10. /\ Runs(ps) \in Seq(Int) /\ Runs(qs) \in Seq(Int)
         /\ Sums(ps) \in Seq(Int) /\ Sums(qs) \in Seq(Int)
         /\ Len(Runs(ps)) = Len(ps) /\ Len(Runs(qs)) = Len(qs)
         /\ Len(Sums(ps)) = Len(ps) /\ Len(Sums(qs)) = Len(qs)
    BY <1>1, ListsOfParts
  <1>11. AddsUp(Runs(qs), c)
    <2> DEFINE s == Runs(ps)
               t == Runs(qs)
    <2>1. \A k \in 1..Len(ps) : s[k] = IF ps[k].done THEN To(ps[k]) - From(ps[k]) ELSE 0
      BY <1>1, ListsOfParts
    <2>2. \A k \in 1..Len(qs) : t[k] = IF qs[k].done THEN To(qs[k]) - From(qs[k]) ELSE 0
      BY <1>1, ListsOfParts
    <2>3. s \in Seq(Int) /\ t \in Seq(Int) /\ Len(s) = Len(ps) /\ Len(t) = Len(s) - 1
      BY <1>10
    <2>4. c \in Int /\ AddsUp(s, c)
      BY DEF Sound
    <2> HIDE DEF s, t
    <2>5. ASSUME NEW k \in 1..Len(qs)
          PROVE  t[k] = IF k < i THEN s[k] ELSE IF k = i THEN s[i] + s[i + 1] ELSE s[k + 1]
      <3>1. k \in 1..Len(ps) /\ k + 1 \in 1..Len(ps)
        BY <1>2
      <3>2. CASE k < i
        BY <2>1, <2>2, <3>1, <3>2
      <3>3. CASE k > i
        BY <2>1, <2>2, <3>1, <3>3
      <3>4. CASE k = i
        <4>1. t[k] = To(ps[i + 1]) - From(ps[i])
          BY <1>4, <2>2, <3>4
        <4>2. s[i] = To(ps[i]) - From(ps[i]) /\ s[i + 1] = To(ps[i + 1]) - From(ps[i + 1])
          BY <2>1, <3>1, <3>4
        <4>3. To(ps[i]) = From(ps[i + 1])
          BY <1>6, <3>1, <3>4
        <4>4. /\ From(ps[i]) \in Int /\ To(ps[i]) \in Int
              /\ From(ps[i + 1]) \in Int /\ To(ps[i + 1]) \in Int
          BY <1>3, <3>1, <3>4
        <4>5. To(ps[i + 1]) - From(ps[i])
                 = (To(ps[i]) - From(ps[i])) + (To(ps[i + 1]) - From(ps[i + 1]))
          BY <4>3, <4>4
        <4> QED BY <3>4, <4>1, <4>2, <4>5
      <3> QED BY <3>2, <3>3, <3>4
    <2>6. i \in 1..(Len(s) - 1) /\ Len(t) = Len(qs)
      BY <1>1, <2>3
    <2>7. Merged(t, s, i)
      BY <2>3, <2>5, <2>6 DEF Merged
    <2> QED BY <2>3, <2>4, <2>6, <2>7, AddsUpJoined DEF t
  <1>12. AddsUp(Sums(qs), r)
    <2> DEFINE s == Sums(ps)
               t == Sums(qs)
    <2>1. \A k \in 1..Len(ps) : s[k] = ps[k].sum
      BY <1>1, ListsOfParts
    <2>2. \A k \in 1..Len(qs) : t[k] = qs[k].sum
      BY <1>1, ListsOfParts
    <2>3. s \in Seq(Int) /\ t \in Seq(Int) /\ Len(s) = Len(ps) /\ Len(t) = Len(s) - 1
      BY <1>10
    <2>4. r \in Int /\ AddsUp(s, r)
      BY DEF Sound
    <2> HIDE DEF s, t
    <2>5. ASSUME NEW k \in 1..Len(qs)
          PROVE  t[k] = IF k < i THEN s[k] ELSE IF k = i THEN s[i] + s[i + 1] ELSE s[k + 1]
      <3>1. k \in 1..Len(ps) /\ k + 1 \in 1..Len(ps)
        BY <1>2
      <3> QED BY <2>1, <2>2, <3>1
    <2>6. i \in 1..(Len(s) - 1) /\ Len(t) = Len(qs)
      BY <1>1, <2>3
    <2>7. Merged(t, s, i)
      BY <2>3, <2>5, <2>6 DEF Merged
    <2> QED BY <2>3, <2>4, <2>6, <2>7, AddsUpJoined DEF t
  <1> QED BY <1>7, <1>8, <1>9, <1>11, <1>12 DEF Sound

\* A part that has not run yet is split.
LEMMA PartSplits ==
    ASSUME NEW l, NEW ps, NEW c, NEW seen, NEW r, Sound(l, ps, c, seen, r),
           NEW i \in 1..Len(ps), ~ps[i].done,
           NEW left \in LoopPart, NEW right \in LoopPart,
           ~left.done, ~right.done, left.sum = 0, right.sum = 0,
           From(left) = From(ps[i]), To(left) = From(right), To(right) = To(ps[i]),
           From(left) < To(left), From(right) < To(right),
           l.kind = "reduce" => From(left) + 1 < To(left) /\ From(right) + 1 < To(right),
           NEW qs \in Seq(LoopPart), Len(qs) = Len(ps) + 1,
           \A k \in 1..Len(qs) : qs[k] = IF k < i THEN ps[k] ELSE IF k = i THEN left
                                         ELSE IF k = i + 1 THEN right ELSE ps[k - 1]
    PROVE  Sound(l, qs, c, seen, r)
  <1>1. ps \in Seq(LoopPart) /\ Len(ps) \in Nat /\ Len(ps) > 0 /\ Len(qs) \in Nat /\ Len(qs) > 0
    BY DEF Sound, Connected
  <1>2. /\ \A k \in 1..Len(qs) : k <= i => k \in 1..Len(ps)
        /\ \A k \in 1..Len(qs) : k > i => k - 1 \in 1..Len(ps)
    BY <1>1
  <1>3. /\ \A k \in 1..Len(ps) : From(ps[k]) \in Int /\ To(ps[k]) \in Int /\ ps[k].sum \in Int
        /\ From(left) \in Int /\ To(left) \in Int /\ From(right) \in Int /\ To(right) \in Int
    <2>1. \A p \in LoopPart : From(p) \in Int /\ To(p) \in Int
      BY DEF LoopPart, From, To, Parallel!Iterator
    <2> QED BY <1>1, <2>1, PartType
  <1>4. \A k \in 1..Len(qs) :
           /\ k < i => From(qs[k]) = From(ps[k]) /\ To(qs[k]) = To(ps[k])
           /\ k = i => From(qs[k]) = From(ps[i]) /\ To(qs[k]) = To(left)
           /\ k = i + 1 => From(qs[k]) = To(left) /\ To(qs[k]) = To(ps[i])
           /\ k > i + 1 => From(qs[k]) = From(ps[k - 1]) /\ To(qs[k]) = To(ps[k - 1])
    <2> SUFFICES ASSUME NEW k \in 1..Len(qs)
                 PROVE  /\ k < i => From(qs[k]) = From(ps[k]) /\ To(qs[k]) = To(ps[k])
                        /\ k = i => From(qs[k]) = From(ps[i]) /\ To(qs[k]) = To(left)
                        /\ k = i + 1 => From(qs[k]) = To(left) /\ To(qs[k]) = To(ps[i])
                        /\ k > i + 1 => From(qs[k]) = From(ps[k - 1]) /\ To(qs[k]) = To(ps[k - 1])
      OBVIOUS
    <2>1. /\ k < i => qs[k] = ps[k]
          /\ k = i => qs[k] = left
          /\ k = i + 1 => qs[k] = right
          /\ k > i + 1 => qs[k] = ps[k - 1]
      OBVIOUS
    <2> QED BY <2>1
  <1>5. /\ \A k \in 1..Len(ps) : From(ps[k]) <= To(ps[k])
        /\ \A k, m \in 1..Len(ps) : k < m => To(ps[k]) <= From(ps[m])
        /\ \A k \in 1..Len(ps) : k < Len(ps) => To(ps[k]) = From(ps[k + 1])
    BY DEF Sound, Connected
  <1>6. From(ps[i]) < To(left) /\ To(left) < To(ps[i])
    OBVIOUS
  <1>7. Connected(qs, l)
    <2>1. From(qs[1]) = l.from
      <3>1. From(qs[1]) = From(ps[1])
        BY <1>1, <1>4
      <3> QED BY <3>1 DEF Sound, Connected
    <2>2. To(qs[Len(qs)]) = l.to
      <3>1. /\ Len(qs) \in 1..Len(qs) /\ Len(qs) - 1 = Len(ps)
            /\ Len(qs) = i + 1 \/ Len(qs) > i + 1
        BY <1>1
      <3>2. Len(qs) = i + 1 => i = Len(ps)
        BY <1>1
      <3>3. To(qs[Len(qs)]) = To(ps[Len(ps)])
        BY <1>4, <3>1, <3>2, Zenon
      <3> QED BY <3>3 DEF Sound, Connected
    <2>3. ASSUME NEW k \in 1..Len(qs) PROVE From(qs[k]) <= To(qs[k])
      <3>1. CASE k < i
        BY <1>2, <1>4, <1>5, <3>1
      <3>2. CASE k = i \/ k = i + 1
        <4>1. From(ps[i]) <= To(left) /\ To(left) <= To(ps[i])
          BY <1>3, <1>6
        <4> QED BY <1>4, <3>2, <4>1
      <3>3. CASE k > i + 1
        BY <1>2, <1>4, <1>5, <3>3
      <3> QED BY <3>1, <3>2, <3>3
    \* Any part on the left ends before any on the right begins.
    <2>4. ASSUME NEW k \in 1..Len(qs), NEW m \in 1..Len(qs), k < m
          PROVE  To(qs[k]) <= From(qs[m])
      <3>1. CASE m <= i
        <4>1. k < i /\ k \in 1..Len(ps) /\ m \in 1..Len(ps)
          BY <1>2, <2>4, <3>1
        <4>2. To(qs[k]) = To(ps[k]) /\ From(qs[m]) = From(ps[m])
          BY <1>4, <3>1, <4>1
        <4> QED BY <1>5, <2>4, <4>1, <4>2
      <3>2. CASE m = i + 1
        <4>1. CASE k = i
          <5>1. To(qs[k]) = To(left) /\ From(qs[m]) = To(left)
            BY <1>4, <3>2, <4>1
          <5> QED BY <1>3, <5>1
        <4>2. CASE k < i
          <5>1. k \in 1..Len(ps) /\ To(qs[k]) = To(ps[k]) /\ From(qs[m]) = To(left)
            BY <1>2, <1>4, <3>2, <4>2
          <5>2. To(ps[k]) <= From(ps[i]) /\ To(ps[k]) \in Int /\ From(ps[i]) \in Int
            BY <1>3, <1>5, <4>2, <5>1
          <5> QED BY <1>3, <1>6, <5>1, <5>2
        <4> QED BY <2>4, <3>2, <4>1, <4>2
      <3>3. CASE m > i + 1
        <4>1. m - 1 \in 1..Len(ps) /\ From(qs[m]) = From(ps[m - 1])
          BY <1>2, <1>4, <3>3
        <4>2. CASE k < i
          <5>1. k \in 1..Len(ps) /\ To(qs[k]) = To(ps[k]) /\ k < m - 1
            BY <1>2, <1>4, <3>3, <4>2
          <5> QED BY <1>5, <4>1, <5>1
        <4>3. CASE k = i \/ k = i + 1
          <5>1. To(ps[i]) <= From(ps[m - 1])
            <6>1. i < m - 1
              BY <3>3
            <6> QED BY <1>5, <4>1, <6>1
          <5>2. To(qs[k]) <= To(ps[i])
            <6>1. To(left) <= To(ps[i]) /\ To(ps[i]) <= To(ps[i])
              BY <1>3, <1>6
            <6> QED BY <1>4, <4>3, <6>1
          <5>3. To(qs[k]) \in Int /\ To(ps[i]) \in Int /\ From(ps[m - 1]) \in Int
            BY <1>3, <1>4, <4>1, <4>3
          <5>4. \A x, y, z \in Int : x <= y /\ y <= z => x <= z
            OBVIOUS
          <5>5. To(qs[k]) <= From(ps[m - 1])
            BY <5>1, <5>2, <5>3, <5>4, Zenon
          <5> QED BY <4>1, <5>5
        <4>4. CASE k > i + 1
          <5>1. k - 1 \in 1..Len(ps) /\ To(qs[k]) = To(ps[k - 1]) /\ k - 1 < m - 1
            BY <1>2, <1>4, <2>4, <4>4
          <5> QED BY <1>5, <4>1, <5>1
        <4> QED BY <4>2, <4>3, <4>4
      <3> QED BY <3>1, <3>2, <3>3
    <2>5. ASSUME NEW k \in 1..Len(qs), k < Len(qs) PROVE To(qs[k]) = From(qs[k + 1])
      <3>1. k + 1 \in 1..Len(qs)
        BY <2>5
      <3>2. CASE k < i
        <4>1. k \in 1..Len(ps) /\ k < Len(ps) /\ To(qs[k]) = To(ps[k])
          BY <1>4, <3>2
        <4>2. From(qs[k + 1]) = From(ps[k + 1])
          BY <1>4, <3>1, <3>2
        <4> QED BY <1>5, <4>1, <4>2
      <3>3. CASE k = i
        BY <1>4, <3>1, <3>3
      <3>4. CASE k = i + 1
        <4>1. i < Len(ps) /\ (k + 1) - 1 = i + 1 /\ k + 1 > i + 1
          BY <1>1, <2>5, <3>4
        <4>2. From(qs[k + 1]) = From(ps[i + 1]) /\ To(qs[k]) = To(ps[i])
          BY <1>4, <3>1, <3>4, <4>1
        <4> QED BY <1>5, <4>1, <4>2
      <3>5. CASE k > i + 1
        <4>1. k - 1 \in 1..Len(ps) /\ k - 1 < Len(ps) /\ (k + 1) - 1 = (k - 1) + 1 /\ k + 1 > i + 1
          BY <1>1, <2>5, <3>5
        <4>2. From(qs[k + 1]) = From(ps[(k + 1) - 1]) /\ To(qs[k]) = To(ps[k - 1])
          BY <1>4, <3>1, <3>5, <4>1
        <4>3. To(ps[k - 1]) = From(ps[(k - 1) + 1])
          BY <1>5, <4>1
        <4> QED BY <4>1, <4>2, <4>3
      <3> QED BY <3>2, <3>3, <3>4, <3>5
    <2> QED BY <1>1, <2>1, <2>2, <2>3, <2>4, <2>5 DEF Connected
  <1>8. Waiting(qs, l)
    <2>1. qs[1].done
      <3>1. ps[1].done
        BY DEF Sound, Waiting
      <3>2. i # 1
        BY <3>1
      <3> QED BY <1>1, <3>1, <3>2
    <2>2. ASSUME NEW k \in 1..Len(qs), ~qs[k].done
          PROVE  /\ qs[k].sum = 0 /\ From(qs[k]) < To(qs[k])
                 /\ k > 2 /\ l.kind = "reduce" => From(qs[k]) + 1 < To(qs[k])
      <3>1. CASE k < i
        <4>1. qs[k] = ps[k] /\ k \in 1..Len(ps)
          BY <1>2, <3>1
        <4> QED BY <2>2, <4>1 DEF Sound, Waiting
      <3>2. CASE k > i + 1
        <4>1. qs[k] = ps[k - 1] /\ k - 1 \in 1..Len(ps)
          BY <1>2, <3>2
        <4>2. k - 1 > 2
          <5>1. ps[1].done
            BY DEF Sound, Waiting
          <5>2. i # 1
            BY <5>1
          <5> QED BY <3>2, <5>2
        <4> QED BY <2>2, <4>1, <4>2 DEF Sound, Waiting
      <3>3. CASE k = i
        BY <3>3
      <3>4. CASE k = i + 1
        BY <3>4
      <3> QED BY <3>1, <3>2, <3>3, <3>4
    <2> QED BY <2>1, <2>2 DEF Waiting
  <1>9. ASSUME l.kind = "each" PROVE Visited(qs, seen)
    <2> SUFFICES ASSUME NEW k \in 1..Len(qs), NEW index \in From(qs[k])..(To(qs[k]) - 1)
                 PROVE  seen[index] = IF qs[k].done THEN 1 ELSE 0
      BY DEF Visited
    <2>1. \A m \in 1..Len(ps) : \A n \in From(ps[m])..(To(ps[m]) - 1) :
              seen[n] = IF ps[m].done THEN 1 ELSE 0
      BY <1>9 DEF Sound, Visited
    <2>2. CASE k < i
      BY <1>2, <1>4, <2>1, <2>2
    <2>3. CASE k > i + 1
      BY <1>2, <1>4, <2>1, <2>3
    <2>4. CASE k = i \/ k = i + 1
      <3>1. index \in From(ps[i])..(To(ps[i]) - 1)
        BY <1>3, <1>4, <1>6, <2>4
      <3>2. seen[index] = 0 /\ ~qs[k].done
        BY <2>1, <2>4, <3>1
      <3> QED BY <3>2
    <2> QED BY <2>2, <2>3, <2>4
  <1>10. /\ Runs(ps) \in Seq(Int) /\ Runs(qs) \in Seq(Int)
         /\ Sums(ps) \in Seq(Int) /\ Sums(qs) \in Seq(Int)
         /\ Len(Runs(ps)) = Len(ps) /\ Len(Runs(qs)) = Len(qs)
         /\ Len(Sums(ps)) = Len(ps) /\ Len(Sums(qs)) = Len(qs)
         /\ \A k \in 1..Len(ps) :
               /\ Runs(ps)[k] = IF ps[k].done THEN To(ps[k]) - From(ps[k]) ELSE 0
               /\ Sums(ps)[k] = ps[k].sum
         /\ \A k \in 1..Len(qs) :
               /\ Runs(qs)[k] = IF qs[k].done THEN To(qs[k]) - From(qs[k]) ELSE 0
               /\ Sums(qs)[k] = qs[k].sum
    BY <1>1, ListsOfParts
  <1>11. ps[i].sum = 0
    BY DEF Sound, Waiting
  <1>12. AddsUp(Runs(qs), c) /\ AddsUp(Sums(qs), r)
    <2> DEFINE s == Runs(ps)
               t == Runs(qs)
               u == Sums(ps)
               v == Sums(qs)
    <2>1. /\ s \in Seq(Int) /\ t \in Seq(Int) /\ Len(s) = Len(ps) /\ Len(t) = Len(s) + 1
          /\ u \in Seq(Int) /\ v \in Seq(Int) /\ Len(u) = Len(ps) /\ Len(v) = Len(u) + 1
      BY <1>10
    <2>2. c \in Int /\ AddsUp(s, c) /\ r \in Int /\ AddsUp(u, r)
      BY DEF Sound
    <2>3. s[i] = 0 /\ u[i] = 0
      BY <1>10, <1>11
    <2>8. /\ \A k \in 1..Len(ps) : s[k] = (IF ps[k].done THEN To(ps[k]) - From(ps[k]) ELSE 0)
                                    /\ u[k] = ps[k].sum
          /\ \A k \in 1..Len(qs) : t[k] = (IF qs[k].done THEN To(qs[k]) - From(qs[k]) ELSE 0)
                                    /\ v[k] = qs[k].sum
      BY <1>10
    <2> HIDE DEF s, t, u, v
    <2>4. ASSUME NEW k \in 1..Len(qs)
          PROVE  /\ t[k] = IF k < i THEN s[k] ELSE IF k \in {i, i + 1} THEN 0 ELSE s[k - 1]
                 /\ v[k] = IF k < i THEN u[k] ELSE IF k \in {i, i + 1} THEN 0 ELSE u[k - 1]
      <3>1. CASE k < i
        <4>1. qs[k] = ps[k] /\ k \in 1..Len(ps)
          BY <1>2, <3>1
        <4> QED BY <2>8, <3>1, <4>1
      <3>2. CASE k \in {i, i + 1}
        <4>1. ~qs[k].done /\ qs[k].sum = 0 /\ ~(k < i)
          BY <3>2
        <4> QED BY <2>8, <3>2, <4>1
      <3>3. CASE k > i + 1
        <4>1. qs[k] = ps[k - 1] /\ k - 1 \in 1..Len(ps) /\ ~(k < i) /\ k \notin {i, i + 1}
          BY <1>2, <3>3
        <4> QED BY <2>8, <4>1
      <3> QED BY <3>1, <3>2, <3>3
    <2>5. i \in 1..Len(s) /\ i \in 1..Len(u) /\ Len(t) = Len(qs) /\ Len(v) = Len(qs)
      BY <2>1
    <2>6. Parted(t, s, i) /\ Parted(v, u, i)
      BY <2>1, <2>3, <2>4, <2>5 DEF Parted
    <2>7. AddsUp(t, c) /\ AddsUp(v, r)
      BY <2>1, <2>2, <2>5, <2>6, AddsUpSplit
    <2> QED BY <2>7 DEF t, v
  <1> QED BY <1>7, <1>8, <1>9, <1>12 DEF Sound

-----------------------------------------------------------------------------
(* The sequential loops over a part.                                       *)

\* The loops have a counting operator of their own.
LEMMA SameCardinality == \A S : Parallel!Cardinality(S) = Cardinality(S)
  BY DEF Cardinality, Parallel!Cardinality

\* The iterators that are advanced by d, one after the other.
LEMMA Iterators ==
    ASSUME NEW first \in Parallel!Iterator, NEW d \in Int
    PROVE  \E f : f = [n \in Nat |-> IF n = 0 THEN first ELSE Parallel!Advanced(f[n - 1], d)]
  <1> DEFINE step == [n \in Nat |-> [i \in Parallel!Iterator |-> Parallel!Advanced(i, d)]]
  <1>1. step \in [Nat -> [Parallel!Iterator -> Parallel!Iterator]]
    BY DEF Parallel!Iterator, Parallel!Advanced
  <1>2. PICK f \in [Nat -> Parallel!Iterator] :
           f = [n \in Nat |-> IF n = 0 THEN first ELSE step[n][f[n - 1]]]
    <2> HIDE DEF step
    <2> QED BY <1>1, RecursionExists
  <1>3. ASSUME NEW n \in Nat
        PROVE  f[n] = IF n = 0 THEN first ELSE Parallel!Advanced(f[n - 1], d)
    <2>1. CASE n = 0
      BY <1>2, <2>1
    <2>2. CASE n # 0
      <3>1. n - 1 \in Nat /\ f[n - 1] \in Parallel!Iterator
        BY <2>2
      <3>2. f[n] = step[n][f[n - 1]]
        <4> HIDE DEF step
        <4> QED BY <1>2, <2>2
      <3> QED BY <2>2, <3>1, <3>2
    <2> QED BY <2>1, <2>2
  <1>4. f = [n \in Nat |-> f[n]]
    OBVIOUS
  <1> QED BY <1>3, <1>4

Advances(it, first, d) ==
    \A n \in Nat : it[n] = IF n = 0 THEN first ELSE Parallel!Advanced(it[n - 1], d)

\* After n advances by d an iterator is n * d further.
LEMMA AdvancedTimes ==
    ASSUME NEW first \in Parallel!Iterator, NEW d \in Int, NEW it, Advances(it, first, d)
    PROVE  \A n \in Nat : it[n] \in Parallel!Iterator /\ it[n].current = first.current + n * d
  <1>1. \A i \in Parallel!Iterator : /\ Parallel!Advanced(i, d) \in Parallel!Iterator
                                     /\ Parallel!Advanced(i, d).current = i.current + d
    BY DEF Parallel!Iterator, Parallel!Advanced
  <1> DEFINE Reached == {n \in Nat : it[n] \in Parallel!Iterator
                                       /\ it[n].current = first.current + n * d}
  <1>2. 0 \in Reached
    <2>1. it[0] = first
      BY DEF Advances
    <2>2. first.current = first.current + 0 * d
      BY DEF Parallel!Iterator
    <2> QED BY <2>1, <2>2
  <1>3. ASSUME NEW n \in Nat \cap Reached PROVE n + 1 \in Reached
    <2>1. n + 1 \in Nat /\ n + 1 # 0 /\ (n + 1) - 1 = n
      OBVIOUS
    <2>2. it[n + 1] = Parallel!Advanced(it[n], d)
      BY <2>1 DEF Advances
    <2>3. it[n] \in Parallel!Iterator /\ it[n].current = first.current + n * d
      OBVIOUS
    <2>4. first.current \in Int /\ n * d \in Int /\ (n + 1) * d = n * d + d
      BY DEF Parallel!Iterator
    <2>5. it[n + 1] \in Parallel!Iterator /\ it[n + 1].current = it[n].current + d
      BY <1>1, <2>2, <2>3
    <2>6. it[n + 1].current = first.current + (n + 1) * d
      BY <2>3, <2>4, <2>5
    <2> QED BY <2>1, <2>5, <2>6
  <1>4. Nat \subseteq Reached
    <2> HIDE DEF Reached
    <2> QED BY <1>2, <1>3, Induction
  <1> QED BY <1>4

\* The sequential loop calls the body with the indices of its part in turn.
LEMMA OneByOneRuns ==
    ASSUME NEW first \in Parallel!Iterator, NEW last \in Parallel!Iterator,
           first.current <= last.current
    PROVE  LET calling == Parallel!OneByOne(first, last)
           IN  /\ calling \in Seq(Int)
               /\ Len(calling) = last.current - first.current
               /\ \A i \in 1..Len(calling) : calling[i] = first.current + (i - 1)
  <1> DEFINE it == CHOOSE f : f = [n \in Nat |-> IF n = 0 THEN first
                                                 ELSE Parallel!Incremented(f[n - 1])]
             n == last.current - first.current
             calling == [i \in 1..n |-> it[i - 1].current]
  <1>1. Parallel!OneByOne(first, last) = calling
    BY DEF Parallel!OneByOne, Parallel!Difference, Parallel!Dereferenced
  <1>2. \A m \in Nat : it[m] \in Parallel!Iterator /\ it[m].current = first.current + m
    <2> DEFINE Follows(f) == f = [k \in Nat |-> IF k = 0 THEN first
                                                 ELSE Parallel!Advanced(f[k - 1], 1)]
    <2>1. it = CHOOSE f : Follows(f)
      BY DEF Parallel!Incremented, Parallel!Advanced
    <2>2. \E f : Follows(f)
      BY Iterators
    <2>3. Follows(it)
      <3> HIDE DEF it, Follows
      <3> QED BY <2>1, <2>2
    <2> HIDE DEF it
    <2>4. Advances(it, first, 1)
      BY <2>3 DEF Advances
    <2>5. \A m \in Nat : it[m] \in Parallel!Iterator /\ it[m].current = first.current + m * 1
      <3> HIDE DEF Follows
      <3>1. 1 \in Int
        OBVIOUS
      <3> QED BY <2>4, <3>1, AdvancedTimes, Zenon
    <2> QED BY <2>5
  <1> HIDE DEF it
  <1>3. first.current \in Int /\ last.current \in Int
    BY DEF Parallel!Iterator
  <1>4. n \in Nat
    BY <1>3
  <1> HIDE DEF n
  <1>5. \A i \in 1..n : it[i - 1].current = first.current + (i - 1)
    <2>1. \A i \in 1..n : i - 1 \in Nat
      BY <1>4
    <2> QED BY <1>2, <2>1
  <1>6. /\ calling \in Seq(Int) /\ Len(calling) = n
        /\ \A i \in 1..n : calling[i] = first.current + (i - 1)
    BY <1>3, <1>4, <1>5
  <1> HIDE DEF calling
  <1> QED BY <1>1, <1>6 DEF n

\* The unrolled loop calls it as often as the part has indices.
LEMMA FourByFourRuns ==
    ASSUME NEW first \in Parallel!Iterator, NEW last \in Parallel!Iterator,
           first.current <= last.current
    PROVE  LET calling == Parallel!FourByFour(first, last)
           IN  calling \in Seq(Int) /\ Len(calling) = last.current - first.current
  <1> DEFINE it == CHOOSE f : f = [n \in Nat |-> IF n = 0 THEN first
                                                 ELSE Parallel!Advanced(f[n - 1], 4)]
             n == last.current - first.current
             fours == n \div 4
             unrolled == [i \in 1..(4 * fours) |->
                             Parallel!Subscript(it[(i - 1) \div 4], (i - 1) % 4)]
             rest == Parallel!OneByOne(it[fours], last)
  <1>1. Parallel!FourByFour(first, last) = unrolled \o rest
    BY DEF Parallel!FourByFour, Parallel!Difference
  <1>2. \A m \in Nat : it[m] \in Parallel!Iterator /\ it[m].current = first.current + m * 4
    <2> DEFINE Follows(f) == f = [k \in Nat |-> IF k = 0 THEN first
                                                 ELSE Parallel!Advanced(f[k - 1], 4)]
    <2>1. it = CHOOSE f : Follows(f)
      OBVIOUS
    <2>2. \E f : Follows(f)
      BY Iterators
    <2>3. Follows(it)
      <3> HIDE DEF it, Follows
      <3> QED BY <2>1, <2>2
    <2> HIDE DEF it
    <2>4. Advances(it, first, 4)
      BY <2>3 DEF Advances
    <2> HIDE DEF Follows
    <2>5. 4 \in Int
      OBVIOUS
    <2> QED BY <2>4, <2>5, AdvancedTimes
  <1> HIDE DEF it
  <1>3. first.current \in Int /\ last.current \in Int
    BY DEF Parallel!Iterator
  <1>4. n \in Nat /\ fours \in Nat /\ 4 * fours <= n
    BY <1>3
  <1> HIDE DEF fours
  <1>5. it[fours] \in Parallel!Iterator /\ it[fours].current = first.current + 4 * fours
    BY <1>2, <1>3, <1>4
  <1>6. it[fours].current <= last.current
    BY <1>3, <1>4, <1>5
  <1>7. rest \in Seq(Int) /\ Len(rest) = last.current - it[fours].current
    BY <1>5, <1>6, OneByOneRuns
  <1>8. unrolled \in Seq(Int) /\ Len(unrolled) = 4 * fours
    <2>1. ASSUME NEW i \in 1..(4 * fours)
          PROVE  Parallel!Subscript(it[(i - 1) \div 4], (i - 1) % 4) \in Int
      <3>1. i - 1 \in Nat /\ (i - 1) \div 4 \in Nat /\ (i - 1) % 4 \in Int
        BY <1>4
      <3>2. it[(i - 1) \div 4].start \in Int
        BY <1>2, <3>1 DEF Parallel!Iterator
      <3> QED BY <3>1, <3>2 DEF Parallel!Subscript
    <2> QED BY <1>4, <2>1
  <1> HIDE DEF rest, unrolled
  <1>9. /\ unrolled \o rest \in Seq(Int)
        /\ Len(unrolled \o rest) = Len(unrolled) + Len(rest)
    <2>1. unrolled \in Seq(Int) /\ rest \in Seq(Int)
      BY <1>7, <1>8
    <2> QED BY <2>1
  <1>10. 4 * fours + (last.current - it[fours].current) = n
    BY <1>3, <1>4, <1>5
  <1> QED BY <1>1, <1>7, <1>8, <1>9, <1>10

\* So does a task that begins with two calls.
LEMMA TwoFirstRuns ==
    ASSUME NEW first \in Parallel!Iterator, NEW last \in Parallel!Iterator,
           first.current + 1 < last.current
    PROVE  LET calling == Parallel!TwoFirst(first, last)
           IN  calling \in Seq(Int) /\ Len(calling) = last.current - first.current
  <1> DEFINE two == <<Parallel!Dereferenced(first), Parallel!Dereferenced(Parallel!Plus(first, 1))>>
             next == Parallel!Advanced(first, 2)
             rest == Parallel!FourByFour(next, last)
  <1>1. first.current \in Int /\ last.current \in Int
    BY DEF Parallel!Iterator
  <1>2. two \in Seq(Int) /\ Len(two) = 2
    BY <1>1 DEF Parallel!Dereferenced, Parallel!Plus, Parallel!RangeIterator
  <1>3. next \in Parallel!Iterator /\ next.current = first.current + 2
    BY DEF Parallel!Iterator, Parallel!Advanced
  <1> HIDE DEF next
  <1>4. rest \in Seq(Int) /\ Len(rest) = last.current - next.current
    <2>1. next.current <= last.current
      BY <1>1, <1>3
    <2> QED BY <1>3, <2>1, FourByFourRuns
  <1>4a. Parallel!TwoFirst(first, last) = two \o rest
    BY DEF Parallel!TwoFirst, next
  <1> HIDE DEF two, rest
  <1>5. two \o rest \in Seq(Int) /\ Len(two \o rest) = Len(two) + Len(rest)
    <2>1. two \in Seq(Int) /\ rest \in Seq(Int)
      BY <1>2, <1>4
    <2> QED BY <2>1
  <1>6. 2 + (last.current - next.current) = last.current - first.current
    BY <1>1, <1>3
  <1> QED BY <1>2, <1>4, <1>4a, <1>5, <1>6

-----------------------------------------------------------------------------
(* The steps of a loop.                                                    *)

\* The loops the program asks for run forwards.
LEMMA LoopType ==
    ASSUME NEW l \in Loops
    PROVE  l.from \in Nat /\ l.to \in Nat /\ l.from <= l.to /\ l.kind \in {"reduce", "each"}
  BY LoopAssumption

Occurrences(indices, index) ==
    Parallel!Cardinality({k \in DOMAIN indices : indices[k] = index})

CountsFrom(indices, from) == \A k \in 1..Len(indices) : indices[k] = from + (k - 1)

\* A list counts every index of an interval it goes through once, and no other.
LEMMA CountedOnce ==
    ASSUME NEW indices \in Seq(Int), NEW from \in Int, NEW index \in Int,
           CountsFrom(indices, from)
    PROVE  Occurrences(indices, index)
              = IF index \in from..(from + Len(indices) - 1) THEN 1 ELSE 0
  <1> DEFINE here == {k \in DOMAIN indices : indices[k] = index}
  <1>1. Len(indices) \in Nat /\ DOMAIN indices = 1..Len(indices)
    OBVIOUS
  <1>2. CASE index \in from..(from + Len(indices) - 1)
    <2>1. here = {index - from + 1}
      BY <1>1, <1>2 DEF CountsFrom
    <2>2. Cardinality(here) = 1
      BY <2>1, FS_Singleton
    <2> HIDE DEF here
    <2>3. Parallel!Cardinality(here) = 1
      BY <2>2, SameCardinality
    <2> QED BY <1>2, <2>3 DEF here, Occurrences
  <1>3. CASE index \notin from..(from + Len(indices) - 1)
    <2>1. here = {}
      BY <1>1, <1>3 DEF CountsFrom
    <2>2. Cardinality(here) = 0
      BY <2>1, FS_EmptySet
    <2> HIDE DEF here
    <2>3. Parallel!Cardinality(here) = 0
      BY <2>2, SameCardinality
    <2> QED BY <1>3, <2>3 DEF here, Occurrences
  <1> QED BY <1>2, <1>3

\* The calls for all indices of a part leave the loop sound, with the part done.
LEMMA CallIsSound ==
    ASSUME loop \in Loops, Sound(loop, parts, calls, visits, returned),
           NEW i \in 1..Len(parts), ~parts[i].done, NEW indices \in Seq(Int), NEW sum \in Int,
           Len(indices) = To(parts[i]) - From(parts[i]),
           loop.kind = "each" => CountsFrom(indices, From(parts[i])),
           Parallel!Call(indices, sum)
    PROVE  Sound(loop, [parts EXCEPT ![i] = [parts[i] EXCEPT !.done = TRUE, !.sum = sum]],
                 calls', visits', returned')
  <1>1. parts \in Seq(LoopPart)
    BY DEF Sound, Connected
  <1>2. From(parts[i]) \in Int /\ To(parts[i]) \in Int
    BY <1>1, PartType
  <1>3. loop.from \in Int /\ loop.to \in Int
    BY LoopType
  <1>4. calls' = calls + (To(parts[i]) - From(parts[i])) /\ returned' = returned + sum
    BY DEF Parallel!Call
  <1>5. ASSUME loop.kind = "each", NEW index \in loop.from..(loop.to - 1)
        PROVE  visits'[index] = visits[index]
                 + (IF index \in From(parts[i])..(To(parts[i]) - 1) THEN 1 ELSE 0)
    <2>1. visits'[index] = visits[index] + Occurrences(indices, index)
      BY <1>3 DEF Occurrences, Parallel!Call, Parallel!Indices
    <2>2. From(parts[i]) + Len(indices) - 1 = To(parts[i]) - 1
      BY <1>2
    <2>3. Occurrences(indices, index)
            = IF index \in From(parts[i])..(From(parts[i]) + Len(indices) - 1) THEN 1 ELSE 0
      <3>1. CountsFrom(indices, From(parts[i])) /\ index \in Int
        BY <1>3, <1>5
      <3> QED BY <1>2, <3>1, CountedOnce
    <2> QED BY <2>1, <2>2, <2>3
  <1> DEFINE c == calls'
             now == visits'
             r == returned'
  <1>6. Sound(loop, [parts EXCEPT ![i] = [parts[i] EXCEPT !.done = TRUE, !.sum = sum]],
              calls + (To(parts[i]) - From(parts[i])), now, returned + sum)
    <2>1. \A index \in loop.from..(loop.to - 1) : loop.kind = "each" =>
             now[index] = visits[index]
                 + (IF index \in From(parts[i])..(To(parts[i]) - 1) THEN 1 ELSE 0)
      BY <1>5
    <2> HIDE DEF now
    <2> QED BY <1>3, <2>1, PartRuns
  <1> QED BY <1>4, <1>6

\* At first nothing has run.
LEMMA LoopInit ==
    ASSUME Parallel!Init
    PROVE  Sound(loop, parts, calls, visits, returned)
  <1>1. loop \in Loops /\ calls = 0 /\ returned = 0
    BY DEF Parallel!Init
  <1>2. loop.from \in Nat /\ loop.to \in Nat /\ loop.from <= loop.to
    BY <1>1, LoopType
  <1> DEFINE begin == Parallel!Bounds.begin
             end == Parallel!Bounds.end
             empty == Parallel!InitialPart
             all == Parallel!Part(begin, end)
  <1>3. /\ begin \in Parallel!Iterator /\ begin.current = loop.from
        /\ end \in Parallel!Iterator /\ end.current = loop.to
    BY <1>2 DEF Parallel!Bounds, Parallel!range, Parallel!RangeIterator, Parallel!Iterator
  <1>4. /\ empty \in LoopPart /\ empty.done /\ empty.sum = 0
        /\ From(empty) = loop.from /\ To(empty) = loop.from
    <2> DEFINE fresh == Parallel!Part(begin, begin)
    <2>1. empty = [fresh EXCEPT !.done = TRUE]
      BY DEF Parallel!InitialPart
    <2> HIDE DEF empty, begin
    <2>2. fresh \in LoopPart /\ fresh.first = begin /\ fresh.last = begin /\ fresh.sum = 0
      BY <1>3 DEF LoopPart, Parallel!Part
    <2> HIDE DEF fresh
    <2> QED BY <1>3, <2>1, <2>2 DEF LoopPart, From, To
  <1>5. /\ all \in LoopPart /\ ~all.done /\ all.sum = 0
        /\ From(all) = loop.from /\ To(all) = loop.to
    <2> HIDE DEF begin, end
    <2> QED BY <1>3 DEF LoopPart, From, To, Parallel!Part
  <1>6. parts = <<empty>> \/ (parts = <<empty>> \o <<all>> /\ loop.from < loop.to)
    <2>1. parts = <<empty>> \o (IF Parallel!NotEqual(begin, end) THEN <<all>> ELSE <<>>)
      BY DEF Parallel!Init
    <2>2. Parallel!NotEqual(begin, end) <=> loop.from # loop.to
      BY <1>3 DEF Parallel!NotEqual
    <2>3. Parallel!NotEqual(begin, end) => loop.from < loop.to
      BY <1>2, <2>2
    <2> HIDE DEF empty, all, begin, end
    <2>4. CASE Parallel!NotEqual(begin, end)
      BY <2>1, <2>3, <2>4
    <2>5. CASE ~Parallel!NotEqual(begin, end)
      <3>1. parts = <<empty>> \o <<>>
        BY <2>1, <2>5
      <3> QED BY <3>1
    <2> QED BY <2>4, <2>5
  <1>7. parts = <<empty>> => loop.from = loop.to
    <2>1. parts = <<empty>> \o (IF Parallel!NotEqual(begin, end) THEN <<all>> ELSE <<>>)
      BY DEF Parallel!Init
    <2>2. Parallel!NotEqual(begin, end) <=> loop.from # loop.to
      BY <1>3 DEF Parallel!NotEqual
    <2> HIDE DEF empty, all, begin, end
    <2>3. loop.from # loop.to => Len(parts) = 2
      BY <2>1, <2>2
    <2> QED BY <2>3
  <1> HIDE DEF empty, all, begin, end
  <1>8. /\ parts \in Seq(LoopPart) /\ Len(parts) \in {1, 2} /\ parts[1] = empty
        /\ Len(parts) = 2 => parts[2] = all /\ loop.from < loop.to
        /\ Len(parts) = 1 => loop.from = loop.to
    <2>1. empty \in LoopPart /\ all \in LoopPart
      BY <1>4, <1>5
    <2>2. CASE parts = <<empty>>
      <3>1. parts \in Seq(LoopPart) /\ Len(parts) = 1 /\ parts[1] = empty
        BY <2>1, <2>2
      <3> QED BY <1>7, <2>2, <3>1
    <2>3. CASE parts = <<empty>> \o <<all>> /\ loop.from < loop.to
      <3>1. <<empty>> \in Seq(LoopPart) /\ <<all>> \in Seq(LoopPart)
        BY <2>1
      <3>2. parts \in Seq(LoopPart) /\ Len(parts) = 2 /\ parts[1] = empty /\ parts[2] = all
        BY <2>3, <3>1
      <3> QED BY <2>3, <3>2
    <2> QED BY <1>6, <2>2, <2>3
  <1>9. Connected(parts, loop)
    BY <1>2, <1>4, <1>5, <1>8 DEF Connected
  <1>10. Waiting(parts, loop)
    BY <1>2, <1>4, <1>5, <1>8 DEF Waiting
  <1>11. Visited(parts, visits)
    <2> SUFFICES ASSUME NEW k \in 1..Len(parts),
                        NEW index \in From(parts[k])..(To(parts[k]) - 1)
                 PROVE  visits[index] = IF parts[k].done THEN 1 ELSE 0
      BY DEF Visited
    <2>1. k = 2 /\ index \in loop.from..(loop.to - 1) /\ ~parts[k].done
      BY <1>2, <1>4, <1>5, <1>8
    <2> QED BY <2>1 DEF Parallel!Init, Parallel!Indices
  <1>12. \A k \in 1..Len(parts) : Runs(parts)[k] = 0 /\ Sums(parts)[k] = 0
    <2> SUFFICES ASSUME NEW k \in 1..Len(parts)
                 PROVE  Runs(parts)[k] = 0 /\ Sums(parts)[k] = 0
      OBVIOUS
    <2>1. /\ Runs(parts)[k] = IF parts[k].done THEN To(parts[k]) - From(parts[k]) ELSE 0
          /\ Sums(parts)[k] = parts[k].sum
      BY <1>8, ListsOfParts
    <2>2. (k = 1 /\ parts[k] = empty) \/ (k = 2 /\ parts[k] = all)
      <3>1. CASE Len(parts) = 1
        <4>1. k \in 1..1
          BY <3>1
        <4> QED BY <1>8, <4>1
      <3>2. CASE Len(parts) = 2
        <4>1. k \in 1..2
          BY <3>2
        <4> QED BY <1>8, <3>2, <4>1
      <3> QED BY <1>8, <3>1, <3>2
    <2> QED BY <1>2, <1>4, <1>5, <2>1, <2>2
  <1>13. AddsUp(Runs(parts), 0) /\ AddsUp(Sums(parts), 0)
    BY <1>8, <1>12, ListsOfParts, AddsUpZeros
  <1> QED BY <1>1, <1>9, <1>10, <1>11, <1>13 DEF Sound

\* A step that splits a part.
LEMMA SplitIsSound ==
    ASSUME loop \in Loops, Sound(loop, parts, calls, visits, returned), Parallel!Split
    PROVE  Sound(loop', parts', calls', visits', returned')
  <1>1. parts \in Seq(LoopPart) /\ Len(parts) \in Nat /\ DOMAIN parts = 1..Len(parts)
    BY DEF Sound, Connected
  <1>2. UNCHANGED <<loop, calls, visits, returned>>
    BY DEF Parallel!Split
  <1> DEFINE Middle(part) == Parallel!Plus(part.first, Parallel!Size(part) \div 2)
  <1>3. PICK i \in 1..Len(parts) :
           /\ ~parts[i].done /\ Parallel!Size(parts[i]) > Parallel!Grain
           /\ parts' = Parallel!Replaced(i, i,
                          <<Parallel!Part(parts[i].first, Middle(parts[i])),
                            Parallel!Part(Middle(parts[i]), parts[i].last)>>)
    BY <1>1 DEF Parallel!Split
  <1> DEFINE middle == Middle(parts[i])
             left == Parallel!Part(parts[i].first, middle)
             right == Parallel!Part(middle, parts[i].last)
             size == To(parts[i]) - From(parts[i])
  <1>4. /\ From(parts[i]) \in Int /\ To(parts[i]) \in Int
        /\ parts[i].first \in Parallel!Iterator /\ parts[i].last \in Parallel!Iterator
    BY <1>1, PartType
  <1>5. size > 1 /\ (loop.kind = "reduce" => size > 3)
    BY <1>3, <1>4, LoopType DEF Parallel!Size, Parallel!Difference, Parallel!Grain, From, To
  <1>6. middle \in Parallel!Iterator /\ middle.current = From(parts[i]) + (size \div 2)
    BY <1>4 DEF Parallel!Plus, Parallel!RangeIterator, Parallel!Iterator, Parallel!Size,
                Parallel!Difference, From, To
  <1> HIDE DEF Middle
  <1>7. /\ left \in LoopPart /\ ~left.done /\ left.sum = 0
        /\ From(left) = From(parts[i]) /\ To(left) = middle.current
        /\ right \in LoopPart /\ ~right.done /\ right.sum = 0
        /\ From(right) = middle.current /\ To(right) = To(parts[i])
    BY <1>4, <1>6 DEF Parallel!Part, LoopPart, From, To
  <1>8. /\ From(left) < To(left) /\ From(right) < To(right)
        /\ loop.kind = "reduce" => From(left) + 1 < To(left) /\ From(right) + 1 < To(right)
    BY <1>4, <1>5, <1>6, <1>7
  <1> HIDE DEF left, right
  <1> DEFINE new == <<left, right>>
  <1>9. new \in Seq(LoopPart) /\ Len(new) = 2 /\ new[1] = left /\ new[2] = right
    BY <1>7
  <1>10. parts' = SubSeq(parts, 1, i - 1) \o new \o SubSeq(parts, i + 1, Len(parts))
    BY <1>3 DEF Parallel!Replaced, left, right
  <1> HIDE DEF new
  <1>11. /\ parts' \in Seq(LoopPart)
         /\ Len(parts') = (i - 1) + Len(new) + (Len(parts) - i)
         /\ \A k \in 1..(i - 1) : parts'[k] = parts[k]
         /\ \A k \in 1..Len(new) : parts'[(i - 1) + k] = new[k]
         /\ \A k \in 1..(Len(parts) - i) : parts'[(i - 1) + Len(new) + k] = parts[i + k]
    <2>1. i \in i..Len(parts)
      OBVIOUS
    <2>2. parts' \in Seq(LoopPart) /\ Splice(parts', parts, i, i, new)
      BY <1>1, <1>9, <1>10, <2>1, Spliced
    <2> QED BY <2>2 DEF Splice
  <1>12. ASSUME NEW k \in 1..Len(parts')
         PROVE  parts'[k] = IF k < i THEN parts[k] ELSE IF k = i THEN left
                            ELSE IF k = i + 1 THEN right ELSE parts[k - 1]
    <2>1. CASE k < i
      <3>1. k \in 1..(i - 1)
        BY <2>1
      <3> QED BY <1>11, <2>1, <3>1
    <2>2. CASE k = i
      <3>1. 1 \in 1..Len(new) /\ (i - 1) + 1 = i
        BY <1>9
      <3>2. parts'[i] = new[1]
        BY <1>11, <3>1
      <3> QED BY <1>9, <2>2, <3>2
    <2>3. CASE k = i + 1
      <3>1. 2 \in 1..Len(new) /\ (i - 1) + 2 = i + 1
        BY <1>9
      <3>2. parts'[i + 1] = new[2]
        BY <1>11, <3>1
      <3> QED BY <1>9, <2>3, <3>2
    <2>4. CASE k > i + 1
      <3>1. k - i - 1 \in 1..(Len(parts) - i) /\ (i - 1) + 2 + (k - i - 1) = k
            /\ i + (k - i - 1) = k - 1 /\ ~(k < i) /\ k # i /\ k # i + 1
        BY <1>1, <1>9, <1>11, <2>4
      <3>2. parts'[k] = parts[k - 1]
        BY <1>9, <1>11, <3>1
      <3> QED BY <3>1, <3>2
    <2> QED BY <2>1, <2>2, <2>3, <2>4
  <1>13. Len(parts') = Len(parts) + 1
    BY <1>1, <1>9, <1>11
  <1> DEFINE qs == parts'
  <1>14. Sound(loop, qs, calls, visits, returned)
    <2>1. /\ qs \in Seq(LoopPart) /\ Len(qs) = Len(parts) + 1
          /\ \A k \in 1..Len(qs) : qs[k] = IF k < i THEN parts[k] ELSE IF k = i THEN left
                                           ELSE IF k = i + 1 THEN right ELSE parts[k - 1]
      BY <1>11, <1>12, <1>13
    <2>2. To(left) = From(right)
      BY <1>7
    <2> HIDE DEF qs
    <2> QED BY <1>3, <1>7, <1>8, <2>1, <2>2, PartSplits
  <1> QED BY <1>2, <1>14

\* Two neighbours of the parts are replaced by one part.
Replacement(list, i, joined) ==
    /\ Len(list) = Len(parts) - 1
    /\ \A k \in 1..Len(list) : list[k] = IF k < i THEN parts[k]
                                         ELSE IF k = i THEN joined ELSE parts[k + 1]

LEMMA NeighboursReplaced ==
    ASSUME parts \in Seq(LoopPart), NEW i \in 1..(Len(parts) - 1), NEW joined \in LoopPart,
           NEW list, list = Parallel!Replaced(i, i + 1, <<joined>>)
    PROVE  list \in Seq(LoopPart) /\ Replacement(list, i, joined)
  <1> DEFINE new == <<joined>>
             qs == SubSeq(parts, 1, i - 1) \o new \o SubSeq(parts, (i + 1) + 1, Len(parts))
  <1>1. Len(parts) \in Nat /\ i \in 1..Len(parts) /\ i + 1 \in i..Len(parts)
    OBVIOUS
  <1>2. list = qs
    BY DEF Parallel!Replaced
  <1>3. new \in Seq(LoopPart) /\ Len(new) = 1 /\ new[1] = joined
    OBVIOUS
  <1> DEFINE j == i + 1
  <1>4. /\ qs \in Seq(LoopPart)
        /\ Len(qs) = (i - 1) + Len(new) + (Len(parts) - j)
        /\ \A k \in 1..(i - 1) : qs[k] = parts[k]
        /\ \A k \in 1..Len(new) : qs[(i - 1) + k] = new[k]
        /\ \A k \in 1..(Len(parts) - j) : qs[(i - 1) + Len(new) + k] = parts[j + k]
    <2>1. j \in i..Len(parts) /\ i \in 1..Len(parts)
      BY <1>1
    <2>2. qs = SubSeq(parts, 1, i - 1) \o new \o SubSeq(parts, j + 1, Len(parts))
      OBVIOUS
    <2> HIDE DEF qs, new, j
    <2>3. qs \in Seq(LoopPart) /\ Splice(qs, parts, i, j, new)
      BY <1>3, <2>1, <2>2, Spliced
    <2> QED BY <2>3 DEF Splice
  <1> HIDE DEF qs, new
  <1>5. Len(qs) = Len(parts) - 1
    BY <1>1, <1>3, <1>4
  <1>6. ASSUME NEW k \in 1..Len(qs)
        PROVE  qs[k] = IF k < i THEN parts[k] ELSE IF k = i THEN joined ELSE parts[k + 1]
    <2>1. CASE k < i
      <3>1. k \in 1..(i - 1)
        BY <2>1
      <3> QED BY <1>4, <2>1, <3>1
    <2>2. CASE k = i
      <3>1. 1 \in 1..Len(new) /\ (i - 1) + 1 = i
        BY <1>3
      <3>2. qs[i] = new[1]
        BY <1>4, <3>1
      <3> QED BY <1>3, <2>2, <3>2
    <2>3. CASE k > i
      <3>1. k - i \in 1..(Len(parts) - j) /\ (i - 1) + 1 + (k - i) = k
            /\ j + (k - i) = k + 1 /\ ~(k < i) /\ k # i
        BY <1>1, <1>5, <2>3
      <3>2. qs[k] = parts[k + 1]
        BY <1>3, <1>4, <3>1
      <3> QED BY <3>1, <3>2
    <2> QED BY <2>1, <2>2, <2>3
  <1> QED BY <1>2, <1>4, <1>5, <1>6 DEF Replacement

\* A step that joins two neighbours.
LEMMA JoinIsSound ==
    ASSUME loop \in Loops, Sound(loop, parts, calls, visits, returned), Parallel!Join
    PROVE  Sound(loop', parts', calls', visits', returned')
  <1>1. parts \in Seq(LoopPart) /\ Len(parts) \in Nat
    BY DEF Sound, Connected
  <1>2. UNCHANGED <<loop, calls, visits, returned>>
    BY DEF Parallel!Join
  <1>3. PICK i \in 1..(Len(parts) - 1) :
           /\ parts[i].done /\ parts[i + 1].done
           /\ parts' = Parallel!Replaced(i, i + 1,
                          Parallel!Continued(parts[i], parts[i + 1], parts[i + 1].sum))
    BY DEF Parallel!Join
  <1> DEFINE right == parts[i + 1]
             sum == parts[i].sum + right.sum
             joined == [right EXCEPT !.first = parts[i].first, !.done = TRUE, !.sum = sum]
             qs == parts'
  <1>4. /\ parts[i] \in LoopPart /\ right \in LoopPart
        /\ parts[i].sum \in Int /\ right.sum \in Int /\ parts[i].first \in Parallel!Iterator
    <2>1. i \in 1..Len(parts) /\ i + 1 \in 1..Len(parts)
      BY <1>1
    <2> QED BY <1>1, <2>1, PartType
  <1>5. qs = Parallel!Replaced(i, i + 1, <<joined>>)
    BY <1>3 DEF Parallel!Continued
  <1>6. /\ joined \in LoopPart /\ joined.first = parts[i].first /\ joined.last = right.last
        /\ joined.done /\ joined.sum = sum
    <2>1. sum \in Int
      BY <1>4
    <2> HIDE DEF right, sum
    <2> QED BY <1>4, <2>1 DEF LoopPart
  <1> HIDE DEF joined
  <1>7. /\ qs \in Seq(LoopPart) /\ Len(qs) = Len(parts) - 1
        /\ \A k \in 1..Len(qs) : qs[k] = IF k < i THEN parts[k]
                                         ELSE IF k = i THEN joined ELSE parts[k + 1]
    <2> HIDE DEF qs
    <2>1. qs \in Seq(LoopPart) /\ Replacement(qs, i, joined)
      BY <1>1, <1>5, <1>6, NeighboursReplaced
    <2> QED BY <2>1 DEF Replacement
  <1> HIDE DEF qs
  <1>8. Sound(loop, qs, calls, visits, returned)
    BY <1>3, <1>6, <1>7, PartsJoin
  <1> QED BY <1>2, <1>8 DEF qs

\* A step in which a task runs the part behind the one it ran last.
LEMMA ContinueIsSound ==
    ASSUME loop \in Loops, Sound(loop, parts, calls, visits, returned), Parallel!Continue
    PROVE  Sound(loop', parts', calls', visits', returned')
  <1>1. parts \in Seq(LoopPart) /\ Len(parts) \in Nat
    BY DEF Sound, Connected
  <1> DEFINE Indices(part) == IF loop.kind = "reduce"
                              THEN Parallel!FourByFour(part.first, part.last)
                              ELSE Parallel!OneByOne(part.first, part.last)
  <1>2. PICK i \in 1..(Len(parts) - 1), sum \in Parallel!Sums :
           /\ parts[i].done /\ ~parts[i + 1].done
           /\ Parallel!Call(Indices(parts[i + 1]), sum)
           /\ parts' = Parallel!Replaced(i, i + 1,
                          Parallel!Continued(parts[i], parts[i + 1], sum))
           /\ UNCHANGED loop
    BY DEF Parallel!Continue
  <1> DEFINE right == parts[i + 1]
             indices == Indices(right)
             ran == [right EXCEPT !.done = TRUE, !.sum = sum]
             total == parts[i].sum + sum
             joined == [right EXCEPT !.first = parts[i].first, !.done = TRUE, !.sum = total]
             ps == [parts EXCEPT ![i + 1] = ran]
             qs == parts'
             c == calls'
             now == visits'
             r == returned'
  <1>3. i \in 1..Len(parts) /\ i + 1 \in 1..Len(parts)
    BY <1>1
  <1>4. /\ parts[i] \in LoopPart /\ right \in LoopPart
        /\ parts[i].sum \in Int /\ parts[i].first \in Parallel!Iterator
        /\ right.first \in Parallel!Iterator /\ right.last \in Parallel!Iterator
        /\ From(right) \in Int /\ To(right) \in Int
    BY <1>1, <1>3, PartType
  <1>5. sum \in Int
    BY DEF Parallel!Sums
  <1>6. right.first.current < right.last.current
    <2>1. From(right) < To(right)
      BY <1>2, <1>3 DEF Sound, Waiting
    <2> QED BY <2>1 DEF From, To
  <1>7. /\ indices \in Seq(Int) /\ Len(indices) = To(right) - From(right)
        /\ loop.kind = "each" => CountsFrom(indices, From(right))
    <2>1. right.first.current <= right.last.current
      BY <1>4, <1>6 DEF From, To
    <2> HIDE DEF right
    <2>2. CASE loop.kind = "reduce"
      <3>1. /\ Parallel!FourByFour(right.first, right.last) \in Seq(Int)
            /\ Len(Parallel!FourByFour(right.first, right.last))
                  = right.last.current - right.first.current
        BY <1>4, <2>1, FourByFourRuns
      <3> QED BY <2>2, <3>1 DEF From, To
    <2>3. CASE loop.kind # "reduce"
      <3> DEFINE calling == Parallel!OneByOne(right.first, right.last)
      <3>1. /\ calling \in Seq(Int)
            /\ Len(calling) = right.last.current - right.first.current
            /\ \A k \in 1..Len(calling) : calling[k] = right.first.current + (k - 1)
        BY <1>4, <2>1, OneByOneRuns
      <3>2. indices = calling
        BY <2>3
      <3> HIDE DEF indices, calling
      <3> QED BY <3>1, <3>2 DEF From, To, CountsFrom
    <2> QED BY <2>2, <2>3
  <1>8. Sound(loop, ps, c, now, r)
    <2>1. Parallel!Call(indices, sum)
      BY <1>2
    <2> HIDE DEF indices
    <2> DEFINE j == i + 1
    <2>2. j \in 1..Len(parts) /\ ~parts[j].done
      BY <1>2, <1>3
    <2>3. /\ Len(indices) = To(parts[j]) - From(parts[j])
          /\ loop.kind = "each" => CountsFrom(indices, From(parts[j]))
      BY <1>7
    <2>4. ps = [parts EXCEPT ![j] = [parts[j] EXCEPT !.done = TRUE, !.sum = sum]]
      OBVIOUS
    <2> HIDE DEF ps, j
    <2> QED BY <1>5, <1>7, <2>1, <2>2, <2>3, <2>4, CallIsSound
  <1>9. ran \in LoopPart /\ ran.done /\ ran.sum = sum /\ ran.last = right.last
    <2> HIDE DEF right
    <2> QED BY <1>4, <1>5 DEF LoopPart
  <1>10. /\ joined \in LoopPart /\ joined.first = parts[i].first /\ joined.last = right.last
         /\ joined.done /\ joined.sum = total
    <2>1. total \in Int
      BY <1>4, <1>5
    <2> HIDE DEF right, total
    <2> QED BY <1>4, <2>1 DEF LoopPart
  <1>11. qs \in Seq(LoopPart) /\ Replacement(qs, i, joined)
    <2>1. qs = Parallel!Replaced(i, i + 1, <<joined>>)
      BY <1>2 DEF Parallel!Continued
    <2> HIDE DEF qs, joined
    <2> QED BY <1>1, <1>10, <2>1, NeighboursReplaced
  <1> HIDE DEF joined, ran, qs
  <1>12. /\ ps \in Seq(LoopPart) /\ Len(ps) = Len(parts)
         /\ \A k \in 1..Len(parts) : ps[k] = IF k = i + 1 THEN ran ELSE parts[k]
    BY <1>1, <1>3, <1>9
  <1> HIDE DEF ps
  <1>13. Sound(loop, qs, c, now, r)
    <2>1. ps[i] = parts[i] /\ ps[i + 1] = ran
      BY <1>1, <1>3, <1>12
    <2>2. /\ joined.first = ps[i].first /\ joined.last = ps[i + 1].last
          /\ joined.sum = ps[i].sum + ps[i + 1].sum
          /\ ps[i].done /\ ps[i + 1].done
      BY <1>2, <1>9, <1>10, <2>1
    <2>3. Len(qs) = Len(ps) - 1
      BY <1>11, <1>12 DEF Replacement
    <2>4. ASSUME NEW k \in 1..Len(qs)
          PROVE  qs[k] = IF k < i THEN ps[k] ELSE IF k = i THEN joined ELSE ps[k + 1]
      <3>1. /\ k \in 1..Len(parts) /\ k + 1 \in 1..Len(parts)
            /\ k < i => k # i + 1
            /\ k > i => k + 1 # i + 1
        BY <1>1, <1>12, <2>3
      <3> QED BY <1>11, <1>12, <3>1 DEF Replacement
    <2>5. i \in 1..(Len(ps) - 1)
      BY <1>12
    <2> HIDE DEF c, now, r, right
    <2> QED BY <1>8, <1>10, <1>11, <2>2, <2>3, <2>4, <2>5, PartsJoin
  <1> QED BY <1>2, <1>13 DEF qs

\* A step in which another task takes over a part.
LEMMA RunSeparatelyIsSound ==
    ASSUME loop \in Loops, Sound(loop, parts, calls, visits, returned), Parallel!RunSeparately
    PROVE  Sound(loop', parts', calls', visits', returned')
  <1>1. parts \in Seq(LoopPart) /\ Len(parts) \in Nat /\ DOMAIN parts = 1..Len(parts)
    BY DEF Sound, Connected
  <1> DEFINE Indices(part) == IF loop.kind = "reduce"
                              THEN Parallel!TwoFirst(part.first, part.last)
                              ELSE Parallel!OneByOne(part.first, part.last)
  <1>2. PICK i \in 3..Len(parts), sum \in Parallel!Sums :
           /\ ~parts[i].done
           /\ Parallel!Call(Indices(parts[i]), sum)
           /\ parts' = Parallel!ReplaceAt(parts, i, [parts[i] EXCEPT !.done = TRUE, !.sum = sum])
           /\ UNCHANGED loop
    BY DEF Parallel!RunSeparately
  <1> DEFINE part == parts[i]
             indices == Indices(part)
  <1>3. i \in 1..Len(parts) /\ i > 2
    BY <1>1
  <1>4. /\ part.first \in Parallel!Iterator /\ part.last \in Parallel!Iterator
        /\ From(part) \in Int /\ To(part) \in Int
    BY <1>1, <1>3, PartType
  <1>5. sum \in Int
    BY DEF Parallel!Sums
  <1>6. /\ part.first.current < part.last.current
        /\ loop.kind = "reduce" => part.first.current + 1 < part.last.current
    <2>1. From(part) < To(part) /\ (loop.kind = "reduce" => From(part) + 1 < To(part))
      BY <1>2, <1>3 DEF Sound, Waiting
    <2> QED BY <2>1 DEF From, To
  <1>7. /\ indices \in Seq(Int) /\ Len(indices) = To(part) - From(part)
        /\ loop.kind = "each" => CountsFrom(indices, From(part))
    <2>1. part.first.current <= part.last.current
      BY <1>4, <1>6 DEF From, To
    <2> HIDE DEF part
    <2>2. CASE loop.kind = "reduce"
      <3>1. /\ Parallel!TwoFirst(part.first, part.last) \in Seq(Int)
            /\ Len(Parallel!TwoFirst(part.first, part.last))
                  = part.last.current - part.first.current
        BY <1>4, <1>6, <2>2, TwoFirstRuns
      <3> QED BY <2>2, <3>1 DEF From, To
    <2>3. CASE loop.kind # "reduce"
      <3> DEFINE calling == Parallel!OneByOne(part.first, part.last)
      <3>1. /\ calling \in Seq(Int)
            /\ Len(calling) = part.last.current - part.first.current
            /\ \A k \in 1..Len(calling) : calling[k] = part.first.current + (k - 1)
        BY <1>4, <2>1, OneByOneRuns
      <3>2. indices = calling
        BY <2>3
      <3> HIDE DEF indices, calling
      <3> QED BY <3>1, <3>2 DEF From, To, CountsFrom
    <2> QED BY <2>2, <2>3
  <1>8. parts' = [parts EXCEPT ![i] = [parts[i] EXCEPT !.done = TRUE, !.sum = sum]]
    BY <1>2 DEF Parallel!ReplaceAt
  <1>9. Sound(loop, [parts EXCEPT ![i] = [parts[i] EXCEPT !.done = TRUE, !.sum = sum]],
              calls', visits', returned')
    <2>1. Parallel!Call(indices, sum)
      BY <1>2
    <2> HIDE DEF indices
    <2> QED BY <1>2, <1>3, <1>5, <1>7, <2>1, CallIsSound
  <1> QED BY <1>2, <1>8, <1>9

-----------------------------------------------------------------------------
(* The loop that the specification runs.                                   *)

LoopInv ==
    asked = "loop" => loop \in Loops /\ Sound(loop, parts, calls, visits, returned)

\* When only one part is left, it is the range, and what it counts is all there is.
LEMMA SoundAtTheEnd ==
    ASSUME loop \in Loops, Sound(loop, parts, calls, visits, returned), Parallel!Finished
    PROVE  /\ calls = Parallel!Cardinality(Parallel!Indices)
           /\ loop.kind = "each" => \A index \in Parallel!Indices : visits[index] = 1
           /\ parts[1].sum = returned
  <1>1. parts \in Seq(LoopPart) /\ Len(parts) = 1
    BY DEF Sound, Connected, Parallel!Finished
  <1>2. /\ From(parts[1]) = loop.from /\ To(parts[1]) = loop.to
        /\ parts[1].done
    BY <1>1 DEF Sound, Connected, Waiting
  <1>3. loop.from \in Nat /\ loop.to \in Nat /\ loop.from <= loop.to
    BY LoopType
  <1>4. 1 \in 1..Len(parts)
    BY <1>1
  <1>5. Runs(parts)[1] = loop.to - loop.from /\ Sums(parts)[1] = parts[1].sum
    BY <1>1, <1>2, <1>4, ListsOfParts
  <1>6. calls = loop.to - loop.from /\ returned = parts[1].sum
    <2>1. calls = Runs(parts)[1] /\ returned = Sums(parts)[1]
      BY <1>1, ListsOfParts, AddsUpOne DEF Sound
    <2> QED BY <1>5, <2>1
  <1>7. Parallel!Cardinality(Parallel!Indices) = loop.to - loop.from
    <2>1. Cardinality(loop.from..(loop.to - 1)) = loop.to - loop.from
      <3> DEFINE a == loop.from
                 b == loop.to - 1
      <3>1. a \in Int /\ b \in Int
        BY <1>3
      <3>2. (IF a > b THEN 0 ELSE b - a + 1) = loop.to - loop.from
        BY <1>3
      <3> HIDE DEF a, b
      <3>3. Cardinality(a..b) = IF a > b THEN 0 ELSE b - a + 1
        BY <3>1, FS_Interval
      <3> QED BY <3>2, <3>3 DEF a, b
    <2> QED BY <2>1, SameCardinality DEF Parallel!Indices
  <1>8. loop.kind = "each" => \A index \in Parallel!Indices : visits[index] = 1
    BY <1>2, <1>4 DEF Sound, Visited, Parallel!Indices
  <1> QED BY <1>6, <1>7, <1>8

LEMMA LoopInvInitially == DiffusionInit => LoopInv
  <1> SUFFICES ASSUME DiffusionInit, asked = "loop"
               PROVE  loop \in Loops /\ Sound(loop, parts, calls, visits, returned)
    BY DEF LoopInv
  <1>1. Parallel!Init
    BY DEF DiffusionInit
  <1> QED BY <1>1, LoopInit DEF Parallel!Init

LEMMA LoopInvKept == LoopInv /\ [DiffusionNext]_diffusion_vars => LoopInv'
  <1> SUFFICES ASSUME LoopInv, [DiffusionNext]_diffusion_vars, asked' = "loop"
               PROVE  loop' \in Loops /\ Sound(loop', parts', calls', visits', returned')
    BY DEF LoopInv
  <1>1. asked' = asked
    BY DEF DiffusionNext, SimulationStep, LoopStep, diffusion_vars
  <1>2. loop \in Loops /\ Sound(loop, parts, calls, visits, returned)
    BY <1>1 DEF LoopInv
  <1>3. CASE LoopStep
    <2>1. loop' = loop
      BY <1>3 DEF LoopStep, Parallel!Next, Parallel!Split, Parallel!Continue,
                  Parallel!RunSeparately, Parallel!Join
    <2>2. CASE Parallel!Split
      BY <1>2, <2>1, <2>2, SplitIsSound
    <2>3. CASE Parallel!Continue
      BY <1>2, <2>1, <2>3, ContinueIsSound
    <2>4. CASE Parallel!RunSeparately
      BY <1>2, <2>1, <2>4, RunSeparatelyIsSound
    <2>5. CASE Parallel!Join
      BY <1>2, <2>1, <2>5, JoinIsSound
    <2> QED BY <1>3, <2>2, <2>3, <2>4, <2>5 DEF LoopStep, Parallel!Next
  <1>4. CASE SimulationStep
    BY <1>2, <1>4 DEF SimulationStep, loop_vars
  <1>5. CASE UNCHANGED diffusion_vars
    BY <1>2, <1>5 DEF diffusion_vars, loop_vars
  <1> QED BY <1>3, <1>4, <1>5 DEF DiffusionNext

\* However a loop over a range is split and joined, whatever its range and however
\* many tasks take part: its body is called once for every index (a reduction as
\* often as there are indices), and the sum it ends with is that of all returned.
THEOREM EveryIndexRuns == DiffusionSpec => []EveryIndexRunsOnce
  <1>1. LoopInv => EveryIndexRunsOnce
    BY SoundAtTheEnd DEF LoopInv, EveryIndexRunsOnce, Parallel!EveryIndexRunsOnce
  <1> QED BY <1>1, LoopInvInitially, LoopInvKept, PTL DEF DiffusionSpec

-----------------------------------------------------------------------------
(* The linear threshold model.                                             *)

\* The model's operators are those of this module.
LEMMA ModelsOperators ==
    /\ LT!NodeId = NodeId
    /\ \A s : LT!SumOfSeq(s) = SumOfSeq(s)
    /\ \A f : LT!Range(f) = Range(f)
  <1>1. LT!NodeId = NodeId
    BY DEF LT!NodeId, NodeId
  <1>2. \A s : LT!SumOfSeq(s) = SumOfSeq(s)
    BY DEF LT!SumOfSeq, SumOfSeq
  <1>3. \A f : LT!Range(f) = Range(f)
    BY DEF LT!Range, Range
  <1> QED BY <1>1, <1>2, <1>3

\* What each edge of u brings to v, and each node: of the edges that had their turn,
\* and of all that come from the nodes S.
TriedEdges(u, v) ==
    [i \in 1..Len(adjacency[u]) |->
        IF adjacency[u][i].destination = v /\ <<u, i>> \in tried
        THEN adjacency[u][i].weight ELSE 0]

TriedNodes(v) == [n \in 1..NumberOfNodes |-> SumOfSeq(TriedEdges(n - 1, v))]

TriedWeight(v) == SumOfSeq(TriedNodes(v))

EdgesTo(u, v) ==
    [i \in 1..Len(adjacency[u]) |->
        IF adjacency[u][i].destination = v THEN adjacency[u][i].weight ELSE 0]

NodesTo(S, v) == [n \in 1..NumberOfNodes |-> IF n - 1 \in S THEN SumOfSeq(EdgesTo(n - 1, v)) ELSE 0]

LEMMA WeightIsSum ==
    ASSUME NEW S, NEW v
    PROVE  LT!WeightFrom(S, v) = SumOfSeq(NodesTo(S, v))
  <1>1. \A u : LT!WeightOf(u, v) = SumOfSeq(EdgesTo(u, v))
    BY ModelsOperators DEF LT!WeightOf, EdgesTo
  <1>2. LT!WeightFrom(S, v) = SumOfSeq([n \in 1..NumberOfNodes |->
                                 IF n - 1 \in S THEN LT!WeightOf(n - 1, v) ELSE 0])
    BY ModelsOperators DEF LT!WeightFrom
  <1> QED BY <1>1, <1>2 DEF NodesTo

\* The nodes, in the order in which they are added up.
LEMMA NodesInOrder ==
    /\ NumberOfNodes \in Nat \ {0}
    /\ \A n \in 1..NumberOfNodes : n - 1 \in NodeId
    /\ \A u \in NodeId : u + 1 \in 1..NumberOfNodes /\ (u + 1) - 1 = u
  BY GraphAssumption DEF NodeId

LEMMA EdgeSums ==
    ASSUME TypeOK, NEW u \in NodeId, NEW v
    PROVE  /\ TriedEdges(u, v) \in Seq(Int) /\ Len(TriedEdges(u, v)) = Len(adjacency[u])
           /\ EdgesTo(u, v) \in Seq(Int) /\ Len(EdgesTo(u, v)) = Len(adjacency[u])
           /\ SumOfSeq(TriedEdges(u, v)) \in Int
           /\ SumOfSeq(EdgesTo(u, v)) \in Nat
           /\ AtMost(TriedEdges(u, v), EdgesTo(u, v))
  <1>1. /\ Len(adjacency[u]) \in Nat
        /\ \A i \in 1..Len(adjacency[u]) : adjacency[u][i].weight \in Nat
    BY AdjacencyType DEF Weight
  <1>2. TriedEdges(u, v) \in Seq(Int) /\ Len(TriedEdges(u, v)) = Len(adjacency[u])
    BY <1>1 DEF TriedEdges
  <1>3. EdgesTo(u, v) \in Seq(Int) /\ Len(EdgesTo(u, v)) = Len(adjacency[u])
    BY <1>1 DEF EdgesTo
  <1>4. \A i \in 1..Len(EdgesTo(u, v)) : EdgesTo(u, v)[i] >= 0
    BY <1>1, <1>3 DEF EdgesTo
  <1>5. AtMost(TriedEdges(u, v), EdgesTo(u, v))
    <2>1. ASSUME NEW i \in 1..Len(adjacency[u]) PROVE TriedEdges(u, v)[i] <= EdgesTo(u, v)[i]
      BY <1>1, <2>1 DEF TriedEdges, EdgesTo
    <2> QED BY <1>2, <1>3, <2>1 DEF AtMost
  <1>6. SumOfSeq(TriedEdges(u, v)) \in Int
    BY <1>2, SumAddsUp
  <1>7. SumOfSeq(EdgesTo(u, v)) \in Nat
    BY <1>3, <1>4, SumIsNatural
  <1> QED BY <1>2, <1>3, <1>5, <1>6, <1>7

LEMMA NodeSums ==
    ASSUME TypeOK, NEW S, NEW v
    PROVE  /\ TriedNodes(v) \in Seq(Int) /\ Len(TriedNodes(v)) = NumberOfNodes
           /\ NodesTo(S, v) \in Seq(Int) /\ Len(NodesTo(S, v)) = NumberOfNodes
           /\ TriedWeight(v) \in Int
           /\ LT!WeightFrom(S, v) \in Int
  <1>1. \A n \in 1..NumberOfNodes : /\ SumOfSeq(TriedEdges(n - 1, v)) \in Int
                                    /\ SumOfSeq(EdgesTo(n - 1, v)) \in Int
    BY NodesInOrder, EdgeSums
  <1>2. TriedNodes(v) \in Seq(Int) /\ Len(TriedNodes(v)) = NumberOfNodes
    BY <1>1, NodesInOrder DEF TriedNodes
  <1>3. NodesTo(S, v) \in Seq(Int) /\ Len(NodesTo(S, v)) = NumberOfNodes
    BY <1>1, NodesInOrder DEF NodesTo
  <1> QED BY <1>2, <1>3, WeightIsSum, SumAddsUp DEF TriedWeight

\* More nodes bring no less weight.
LEMMA WeightGrows ==
    ASSUME TypeOK, NEW S, NEW T, S \subseteq T, NEW v
    PROVE  LT!WeightFrom(S, v) <= LT!WeightFrom(T, v)
  <1>1. ASSUME NEW n \in 1..NumberOfNodes PROVE NodesTo(S, v)[n] <= NodesTo(T, v)[n]
    <2>1. SumOfSeq(EdgesTo(n - 1, v)) \in Nat
      BY NodesInOrder, EdgeSums
    <2> QED BY <2>1 DEF NodesTo
  <1>2. AtMost(NodesTo(S, v), NodesTo(T, v))
    BY <1>1, NodeSums DEF AtMost
  <1> QED BY <1>2, NodeSums, SumIsMonotone, WeightIsSum

\* The edges from S that had their turn bring no more than all of them, and all bring
\* as much when each one to v had its turn.
LEMMA TriedIsAtMost ==
    ASSUME TypeOK, NEW S, NEW v, \A t \in tried : t[1] \in S
    PROVE  TriedWeight(v) <= LT!WeightFrom(S, v)
  <1>1. ASSUME NEW n \in 1..NumberOfNodes PROVE TriedNodes(v)[n] <= NodesTo(S, v)[n]
    <2>1. PICK u \in NodeId : u = n - 1
      BY NodesInOrder
    <2>2. TriedNodes(v)[n] = SumOfSeq(TriedEdges(u, v))
      BY <2>1 DEF TriedNodes
    <2>3. CASE u \in S
      <3>1. SumOfSeq(TriedEdges(u, v)) <= SumOfSeq(EdgesTo(u, v))
        BY EdgeSums, SumIsMonotone
      <3> QED BY <2>1, <2>2, <2>3, <3>1 DEF NodesTo
    <2>4. CASE u \notin S
      <3>1. \A i \in 1..Len(adjacency[u]) : <<u, i>> \notin tried
        BY <2>4
      <3>2. \A i \in 1..Len(TriedEdges(u, v)) : TriedEdges(u, v)[i] = 0
        BY <3>1, EdgeSums DEF TriedEdges
      <3>3. SumOfSeq(TriedEdges(u, v)) = 0
        BY <3>2, EdgeSums, SumOfZeros
      <3> QED BY <2>1, <2>2, <2>4, <3>3 DEF NodesTo
    <2> QED BY <2>3, <2>4
  <1>2. AtMost(TriedNodes(v), NodesTo(S, v))
    BY <1>1, NodeSums DEF AtMost
  <1> QED BY <1>2, NodeSums, SumIsMonotone, WeightIsSum DEF TriedWeight

LEMMA AllAreTried ==
    ASSUME TypeOK, NEW S, NEW v,
           \A u \in NodeId \cap S : \A i \in 1..Len(adjacency[u]) :
               adjacency[u][i].destination = v => <<u, i>> \in tried
    PROVE  LT!WeightFrom(S, v) <= TriedWeight(v)
  <1>1. ASSUME NEW n \in 1..NumberOfNodes PROVE NodesTo(S, v)[n] <= TriedNodes(v)[n]
    <2>1. PICK u \in NodeId : u = n - 1
      BY NodesInOrder
    <2>2. TriedNodes(v)[n] = SumOfSeq(TriedEdges(u, v))
      BY <2>1 DEF TriedNodes
    <2>3. CASE u \in S
      <3>1. TriedEdges(u, v) = EdgesTo(u, v)
        BY <2>3 DEF TriedEdges, EdgesTo
      <3>2. SumOfSeq(EdgesTo(u, v)) \in Nat
        BY EdgeSums
      <3> QED BY <2>1, <2>2, <2>3, <3>1, <3>2 DEF NodesTo
    <2>4. CASE u \notin S
      <3>1. \A i \in 1..Len(TriedEdges(u, v)) : TriedEdges(u, v)[i] >= 0
        <4>1. \A i \in 1..Len(adjacency[u]) : adjacency[u][i].weight \in Nat
          BY AdjacencyType DEF Weight
        <4> QED BY <4>1, EdgeSums DEF TriedEdges
      <3>2. SumOfSeq(TriedEdges(u, v)) \in Nat
        BY <3>1, EdgeSums, SumIsNatural
      <3> QED BY <2>1, <2>2, <2>4, <3>2 DEF NodesTo
    <2> QED BY <2>3, <2>4
  <1>2. AtMost(NodesTo(S, v), TriedNodes(v))
    BY <1>1, NodeSums DEF AtMost
  <1> QED BY <1>2, NodeSums, SumIsMonotone, WeightIsSum DEF TriedWeight

\* An edge that has its turn brings its weight to the node it leads to.
LEMMA TurnBringsWeight ==
    ASSUME TypeOK, NodesExpandOnce, AtEdge, UNCHANGED adjacency,
           tried' = tried \cup {<<current, position>>}, NEW v
    PROVE  TriedWeight(v)' = TriedWeight(v) + IF edge.destination = v THEN edge.weight ELSE 0
  <1> DEFINE d == IF edge.destination = v THEN edge.weight ELSE 0
  <1>1. PICK u \in NodeId, k \in Nat : u = current /\ k = position
    BY DEF TypeOK
  <1>2. /\ k \in 1..Len(adjacency[u]) /\ <<u, k>> \notin tried
        /\ edge = adjacency[u][k] /\ d \in Int /\ tried' = tried \cup {<<u, k>>}
    <2>1. k \in 1..Len(adjacency[u]) /\ edge.weight \in Int
      BY <1>1, EdgeType DEF Weight
    <2>2. <<u, k>> \notin tried
      BY <1>1 DEF NodesExpandOnce, AtEdge
    <2> QED BY <1>1, <2>1, <2>2 DEF edge
  <1>3. \A w \in NodeId : TriedEdges(w, v)' \in Seq(Int) /\ TriedEdges(w, v) \in Seq(Int)
    <2>2. ASSUME NEW w \in NodeId PROVE TriedEdges(w, v)' \in Seq(Int)
      <3>1. /\ Len(adjacency[w]) \in Nat
            /\ \A i \in 1..Len(adjacency[w]) : adjacency[w][i].weight \in Nat
        BY AdjacencyType DEF Weight
      <3> QED BY <3>1 DEF TriedEdges
    <2> QED BY <2>2, EdgeSums
  <1>4. SumOfSeq(TriedEdges(u, v)') = SumOfSeq(TriedEdges(u, v)) + d
    <2>1. ASSUME NEW i \in 1..Len(adjacency[u])
          PROVE  TriedEdges(u, v)'[i] = IF i = k THEN TriedEdges(u, v)[i] + d
                                        ELSE TriedEdges(u, v)[i]
      <3>1. CASE i = k
        BY <1>2, <3>1 DEF TriedEdges
      <3>2. CASE i # k
        BY <1>2, <3>2 DEF TriedEdges
      <3> QED BY <3>1, <3>2
    <2>2. Len(TriedEdges(u, v)') = Len(adjacency[u]) /\ Len(TriedEdges(u, v)) = Len(adjacency[u])
      <3>1. Len(adjacency[u]) \in Nat
        BY AdjacencyType
      <3> QED BY <3>1 DEF TriedEdges
    <2> HIDE DEF d
    <2>3. Grown(TriedEdges(u, v)', TriedEdges(u, v), k, d)
      BY <2>1, <2>2 DEF Grown
    <2> QED BY <1>2, <1>3, <2>2, <2>3, SumGrows
  <1>5. ASSUME NEW w \in NodeId, w # u PROVE TriedEdges(w, v)' = TriedEdges(w, v)
    <2>1. \A i : <<w, i>> \in tried' <=> <<w, i>> \in tried
      BY <1>2, <1>5
    <2> QED BY <2>1 DEF TriedEdges
  <1> HIDE DEF d
  <1>6. ASSUME NEW n \in 1..NumberOfNodes
        PROVE  TriedNodes(v)'[n] = IF n = u + 1 THEN TriedNodes(v)[n] + d ELSE TriedNodes(v)[n]
    <2>1. PICK w \in NodeId : w = n - 1
      BY NodesInOrder
    <2>2. /\ TriedNodes(v)[n] = SumOfSeq(TriedEdges(w, v))
          /\ TriedNodes(v)'[n] = SumOfSeq(TriedEdges(w, v)')
      BY <2>1 DEF TriedNodes
    <2>3. (w = u) <=> (n = u + 1)
      BY <2>1, NodesInOrder
    <2> QED BY <1>4, <1>5, <2>2, <2>3
  <1>7. TriedNodes(v)' \in Seq(Int) /\ Len(TriedNodes(v)') = NumberOfNodes
    <2>1. \A n \in 1..NumberOfNodes : SumOfSeq(TriedEdges(n - 1, v)') \in Int
      BY <1>3, NodesInOrder, SumAddsUp
    <2> QED BY <2>1, NodesInOrder DEF TriedNodes
  <1>8. Grown(TriedNodes(v)', TriedNodes(v), u + 1, d)
    BY <1>6, <1>7, NodeSums DEF Grown
  <1>9. SumOfSeq(TriedNodes(v)') = SumOfSeq(TriedNodes(v)) + d
    <2>1. u + 1 \in 1..Len(TriedNodes(v))
      BY NodesInOrder, NodeSums
    <2> QED BY <1>2, <1>7, <1>8, <2>1, NodeSums, SumGrows
  <1> QED BY <1>9 DEF TriedWeight, d

-----------------------------------------------------------------------------

\* A set that holds the seeds and from which no round reaches another active node.
Closed(F) ==
    /\ Range(seeds) \subseteq F
    /\ \A v \in activated :
          /\ \E u \in F : \E i \in 1..Len(adjacency[u]) : adjacency[u][i].destination = v
          /\ threshold[v] <= LT!WeightFrom(F, v)
          => v \in F

\* An input is the weight of the edges that had their turn.  It has not reached the
\* threshold of an inactive node, and every active node was activated for a reason.
ThresholdInv ==
    /\ threshold \in [NodeId -> Int]
    /\ input \in [NodeId -> Int]
    /\ \A v \in NodeId : input[v] = TriedWeight(v)
    /\ \A v \in NodeId \ activated : threshold[v] >= 0 => threshold[v] > input[v]
    /\ \A t \in tried : threshold[adjacency[t[1]][t[2]].destination] >= 0
    /\ \A F \in SUBSET NodeId : Closed(F) => activated \subseteq F

LEMMA InitThreshold == TypeOK /\ LT!Init /\ tried = {} => ThresholdInv
  <1> SUFFICES ASSUME TypeOK, LT!Init, tried = {} PROVE ThresholdInv
    OBVIOUS
  <1>1. PICK s : LT!Start(s)
    BY DEF LT!Init, LT!forwardInfluence, LT!backwardInfluence
  <1>2. /\ threshold = [n \in NodeId |-> -1] /\ input = [n \in NodeId |-> 0]
        /\ activated = Range(seeds)
    BY <1>1, ModelsOperators DEF LT!Start, LT!NotDrawn, LT!NoInput
  <1>3. ASSUME NEW v \in NodeId PROVE TriedWeight(v) = 0
    <2>1. \A t \in tried : t[1] \in {}
      OBVIOUS
    <2>2. ASSUME NEW n \in 1..NumberOfNodes PROVE TriedNodes(v)[n] = 0
      <3>1. PICK u \in NodeId : u = n - 1
        BY NodesInOrder
      <3>2. \A i \in 1..Len(TriedEdges(u, v)) : TriedEdges(u, v)[i] = 0
        BY EdgeSums DEF TriedEdges
      <3>3. SumOfSeq(TriedEdges(u, v)) = 0
        BY <3>2, EdgeSums, SumOfZeros
      <3> QED BY <3>1, <3>3 DEF TriedNodes
    <2> QED BY <2>2, NodeSums, SumOfZeros DEF TriedWeight
  <1>4. \A F : Closed(F) => activated \subseteq F
    BY <1>2 DEF Closed
  <1> QED BY <1>2, <1>3, <1>4 DEF ThresholdInv

\* The steps that bring no weight keep everything that the invariant speaks of.
LEMMA QuietThreshold ==
    ThresholdInv /\ UNCHANGED <<adjacency, seeds, activated, input, threshold, tried>>
        => ThresholdInv'
  <1> SUFFICES ASSUME ThresholdInv,
                      UNCHANGED <<adjacency, seeds, activated, input, threshold, tried>>
               PROVE  ThresholdInv'
    OBVIOUS
  <1>1. \A v : TriedWeight(v)' = TriedWeight(v)
    BY DEF TriedWeight, TriedNodes, TriedEdges
  <1>2. \A F : Closed(F)' <=> Closed(F)
    BY DEF Closed, LT!WeightFrom, LT!WeightOf
  <1> QED BY <1>1, <1>2 DEF ThresholdInv

LEMMA AtMostFrom ==
    TypeOK => \A S, v : (\A t \in tried : t[1] \in S) => TriedWeight(v) <= LT!WeightFrom(S, v)
  BY TriedIsAtMost

LEMMA TriedIsAtMostNext ==
    TypeOK' => \A S, v : (\A t \in tried' : t[1] \in S)
                             => TriedWeight(v)' <= LT!WeightFrom(S, v)'
  <1>1. (TypeOK => \A S, v : (\A t \in tried : t[1] \in S)
                                 => TriedWeight(v) <= LT!WeightFrom(S, v))'
    BY AtMostFrom, PTL
  <1> QED BY <1>1

LEMMA InfluenceThreshold ==
    ASSUME TypeOK, NodesExpandOnce, ThresholdInv,
           LT!Influence, tried' = tried \cup {<<current, position>>}
    PROVE  ThresholdInv'
  <1>1. (LT!AtEdge <=> AtEdge) /\ LT!edge = edge
    BY DEF LT!AtEdge, AtEdge, LT!edge, edge
  <1>2. AtEdge /\ UNCHANGED <<adjacency, seeds>> /\ edge.destination \notin activated
    BY <1>1 DEF LT!Influence
  <1>3. PICK d \in NodeId, w \in Int : d = edge.destination /\ w = edge.weight
    BY <1>2, EdgeType DEF Weight
  <1>4. PICK drawn \in LT!AssignedThreshold(d) :
           /\ threshold' = [threshold EXCEPT ![d] = drawn]
           /\ IF drawn <= input[d] + w
              THEN activated' = activated \cup {d}
              ELSE activated' = activated
    BY <1>1, <1>3 DEF LT!Influence, LT!MeetsThreshold, LT!InputWithEdge
  <1>5. input' = [input EXCEPT ![d] = input[d] + w]
    BY <1>1, <1>3 DEF LT!Influence, LT!InputWithEdge
  <1>6. drawn \in Nat
    BY <1>4, GraphAssumption DEF LT!AssignedThreshold, LT!genrand_close_open, ThresholdInv
  <1>7. threshold' \in [NodeId -> Int] /\ input' \in [NodeId -> Int]
    BY <1>3, <1>4, <1>5, <1>6 DEF ThresholdInv
  <1>8. /\ threshold'[d] = drawn /\ input'[d] = input[d] + w
        /\ \A v \in NodeId : v # d => threshold'[v] = threshold[v] /\ input'[v] = input[v]
    BY <1>4, <1>5 DEF ThresholdInv
  <1>9. ASSUME NEW v \in NodeId PROVE input'[v] = TriedWeight(v)'
    <2>1. TriedWeight(v)' = TriedWeight(v) + IF d = v THEN w ELSE 0
      BY <1>2, <1>3, TurnBringsWeight
    <2>2. input[v] = TriedWeight(v) /\ input[v] \in Int
      BY DEF ThresholdInv
    <2> QED BY <1>8, <2>1, <2>2
  <1>10. ASSUME NEW v \in NodeId \ activated' PROVE threshold'[v] >= 0 => threshold'[v] > input'[v]
    <2>1. CASE v = d
      <3>1. ~(drawn <= input[d] + w)
        BY <1>4, <1>10, <2>1
      <3>2. input[d] \in Int
        BY DEF ThresholdInv
      <3> QED BY <1>3, <1>6, <1>8, <2>1, <3>1, <3>2
    <2>2. CASE v # d
      <3>1. v \notin activated
        BY <1>4
      <3> QED BY <1>8, <2>2, <3>1 DEF ThresholdInv
    <2> QED BY <2>1, <2>2
  <1>11. ASSUME NEW t \in tried' PROVE threshold'[adjacency[t[1]][t[2]].destination] >= 0
    <2>1. CASE t \in tried
      <3> DEFINE v == adjacency[t[1]][t[2]].destination
      <3>1. threshold[v] >= 0
        BY <2>1 DEF ThresholdInv
      <3>2. CASE v = d
        BY <1>6, <1>8, <3>2
      <3>3. CASE v # d
        BY <1>4, <3>1, <3>3 DEF ThresholdInv
      <3> QED BY <3>2, <3>3
    <2>2. CASE t = <<current, position>>
      BY <1>3, <1>6, <1>8, <2>2 DEF edge
    <2> QED BY <2>1, <2>2
  <1>12. ASSUME NEW F \in SUBSET NodeId, Closed(F)' PROVE activated' \subseteq F
    <2>1. activated \subseteq activated' /\ d \notin activated /\ activated \subseteq NodeId
      BY <1>2, <1>3, <1>4 DEF TypeOK
    <2>2. \A v : LT!WeightFrom(F, v)' = LT!WeightFrom(F, v)
      BY <1>2 DEF LT!WeightFrom, LT!WeightOf
    <2>3. \A v \in activated : threshold'[v] = threshold[v]
      BY <1>8, <2>1
    <2>4. Closed(F)
      BY <1>2, <1>12, <2>1, <2>2, <2>3 DEF Closed
    <2>5. activated \subseteq F
      BY <2>4 DEF ThresholdInv
    <2>6. CASE d \in activated'
      <3>1. drawn <= input[d] + w
        BY <1>4, <2>1, <2>6
      <3>2. input[d] + w = TriedWeight(d)'
        BY <1>8, <1>9
      <3>3. \A t \in tried' : t[1] \in F
        BY <1>2, <2>5 DEF NodesExpandOnce, AtEdge
      <3>4. TriedWeight(d)' <= LT!WeightFrom(F, d)'
        <4>1. TypeOK'
          <5>1. Reaches \/ Misses
            BY <1>1, <1>2 DEF LT!Influence, Reaches, Misses, AtActivated, Pushed
          <5> QED BY <5>1, NextTypeOK DEF Walk
        <4> HIDE DEF TypeOK
        <4> QED BY <3>3, <4>1, TriedIsAtMostNext
      <3>5. threshold'[d] <= LT!WeightFrom(F, d)'
        <4>1. LT!WeightFrom(F, d)' \in Int
          BY <2>2, NodeSums
        <4>2. drawn <= TriedWeight(d)' /\ TriedWeight(d)' \in Int
          BY <1>7, <1>9, <3>1, <3>2
        <4> QED BY <1>6, <1>8, <3>4, <4>1, <4>2
      <3>6. current \in F /\ position \in 1..Len(adjacency'[current])
               /\ adjacency'[current][position].destination = d
        BY <1>2, <1>3, <2>5, EdgeType DEF NodesExpandOnce, AtEdge, edge
      <3>7. d \in F
        BY <1>12, <2>6, <3>5, <3>6 DEF Closed
      <3> QED BY <1>4, <2>5, <3>7
    <2>7. CASE d \notin activated'
      BY <1>4, <2>5, <2>7
    <2> QED BY <2>6, <2>7
  <1> QED BY <1>2, <1>7, <1>9, <1>10, <1>11, <1>12 DEF ThresholdInv

-----------------------------------------------------------------------------
(* The rounds of the linear threshold model.                               *)

\* A loop ends with an empty stack.
EmptyAtEnd == pc = "done" => work_queue = <<>>

LEMMA NextEmpty == EmptyAtEnd /\ [Walk]_vars => EmptyAtEnd'
  BY DEF EmptyAtEnd, Walk, Pop, SkipActivated, Reaches, Misses, EdgesDone, Return, AtEdge, vars

LEMMA DistinctNumbers ==
    ASSUME NEW s \in Seq(NodeId), IsInjective(s)
    PROVE  Cardinality(Range(s)) = Len(s)
  <1>1. Len(s) \in Nat /\ DOMAIN s = 1..Len(s) /\ Range(s) \subseteq NodeId
    BY DEF Range
  <1>2. s \in Injection(1..Len(s), Range(s))
    BY <1>1 DEF Injection, IsInjective, Range
  <1>3. IsFiniteSet(Range(s)) /\ Cardinality(Range(s)) \in Nat
    BY <1>1, FiniteNodes
  <1>4. Cardinality(1..Len(s)) <= Cardinality(Range(s))
    BY <1>2, <1>3, FS_Injection
  <1>5. Cardinality(1..Len(s)) = Len(s)
    <2>1. 1 \in Int /\ Len(s) \in Int
      BY <1>1
    <2>2. Cardinality(1..Len(s)) = IF 1 > Len(s) THEN 0 ELSE Len(s) - 1 + 1
      BY <2>1, FS_Interval, Zenon
    <2> QED BY <1>1, <2>2
  <1> QED BY <1>1, <1>3, <1>4, <1>5, RangeCardinality

\* A round adds nodes to the ones it starts from.
LEMMA RoundAdds ==
    ASSUME NEW A \in SUBSET NodeId
    PROVE  LT!Round(A) \in SUBSET NodeId /\ A \subseteq LT!Round(A)
  BY ModelsOperators DEF LT!Round

\* Rounds is the last of a row of sets that starts with the seeds.
RowOf(row) ==
    /\ row[0] = Range(seeds)
    /\ \A i \in 1..NumberOfNodes : row[i] = LT!Round(row[i - 1])

LEMMA RoundsAreARow ==
    ASSUME TypeOK
    PROVE  \E row \in [0..NumberOfNodes -> SUBSET NodeId] :
               RowOf(row) /\ LT!Rounds = row[NumberOfNodes]
  <1> DEFINE N == NumberOfNodes
             V == SUBSET NodeId
             base == Range(seeds)
             step == [i \in 1..N |-> [A \in V |-> LT!Round(A)]]
             IsRound(h) == h = [i \in 0..N |-> IF i = 0 THEN LT!Range(seeds)
                                               ELSE LT!Round(h[i - 1])]
  <1>1. N \in Nat /\ base \in V /\ step \in [1..N -> [V -> V]]
    <2>1. N \in Nat
      BY GraphAssumption
    <2>2. base \in V
      BY DEF TypeOK, Range
    <2>3. \A A \in V : LT!Round(A) \in V
      BY RoundAdds
    <2> QED BY <2>1, <2>2, <2>3
  <1>2. PICK f \in [0..N -> V] : Recurs(f, N, base, step)
    <2> HIDE DEF V, base, step, N
    <2> QED BY <1>1, BoundedRecursionExists
  <1>3. ASSUME NEW i \in 0..N
        PROVE  f[i] = IF i = 0 THEN LT!Range(seeds) ELSE LT!Round(f[i - 1])
    <2>1. CASE i = 0
      BY <1>2, <2>1, ModelsOperators DEF Recurs
    <2>2. CASE i # 0
      <3>1. i \in 1..N /\ i - 1 \in 0..N
        BY <1>1, <2>2
      <3>2. f[i] = step[i][f[i - 1]]
        <4> HIDE DEF step
        <4> QED BY <1>2, <2>2 DEF Recurs
      <3>3. f[i - 1] \in V
        BY <3>1
      <3> QED BY <2>2, <3>1, <3>2, <3>3
    <2> QED BY <2>1, <2>2
  <1>4. IsRound(f)
    <2> HIDE DEF N, V
    <2> QED BY <1>3
  <1> DEFINE row == CHOOSE h : IsRound(h)
  <1>5. IsRound(row)
    <2> HIDE DEF IsRound
    <2> QED BY <1>4
  <1>6. LT!Rounds = row[N]
    BY DEF LT!Rounds
  <1> HIDE DEF row
  <1>7. /\ DOMAIN row = 0..N /\ row[0] = Range(seeds)
        /\ \A i \in 1..N : row[i] = LT!Round(row[i - 1])
    <2> HIDE DEF N
    <2> QED BY <1>1, <1>5, ModelsOperators
  <1> DEFINE Typed == {i \in Nat : i <= N => row[i] \in V}
  <1>8. 0 \in Typed
    BY <1>1, <1>7
  <1>9. ASSUME NEW i \in Nat \cap Typed PROVE i + 1 \in Typed
    <2> SUFFICES ASSUME i + 1 <= N PROVE row[i + 1] \in V
      OBVIOUS
    <2>1. i + 1 \in 1..N /\ (i + 1) - 1 = i /\ row[i] \in V
      BY <1>1, <1>9
    <2>2. row[i + 1] = LT!Round(row[i])
      BY <1>7, <2>1
    <2> QED BY <2>1, <2>2, RoundAdds
  <1>10. Nat \subseteq Typed
    <2> HIDE DEF Typed
    <2> QED BY <1>8, <1>9, Induction
  <1>11. row \in [0..N -> V]
    <2>1. row = [i \in 0..N |-> row[i]]
      <3> HIDE DEF N
      <3> QED BY <1>5, <1>7
    <2>2. \A i \in 0..N : row[i] \in V
      BY <1>1, <1>10
    <2> HIDE DEF V, N
    <2> QED BY <2>1, <2>2
  <1> QED BY <1>6, <1>7, <1>11 DEF RowOf

\* There are not more rounds that add a node than nodes.
LEMMA RowsSettle ==
    ASSUME NEW row \in [0..NumberOfNodes -> SUBSET NodeId], RowOf(row)
    PROVE  LT!Round(row[NumberOfNodes]) = row[NumberOfNodes]
  <1> DEFINE N == NumberOfNodes
             Fixed(A) == LT!Round(A) = A
             Settles == {i \in Nat : i <= N => Fixed(row[i]) \/ Cardinality(row[i]) >= i}
  <1>1. N \in Nat /\ \A i \in 0..N : row[i] \in SUBSET NodeId
    BY GraphAssumption
  <1>2. 0 \in Settles
    <2>1. Cardinality(row[0]) \in Nat
      BY <1>1, FiniteNodes
    <2> HIDE DEF Fixed
    <2> QED BY <2>1
  <1>3. ASSUME NEW i \in Nat \cap Settles PROVE i + 1 \in Settles
    <2> SUFFICES ASSUME i + 1 <= N
                 PROVE  Fixed(row[i + 1]) \/ Cardinality(row[i + 1]) >= i + 1
      OBVIOUS
    <2>1. i \in 0..N /\ i + 1 \in 1..N /\ (i + 1) - 1 = i
      BY <1>1
    <2>2. row[i + 1] = LT!Round(row[i])
      BY <2>1 DEF RowOf
    <2>3. CASE Fixed(row[i])
      BY <2>2, <2>3
    <2>4. CASE ~Fixed(row[i])
      <3>1. Cardinality(row[i]) >= i
        BY <1>3, <2>1, <2>4
      <3>2. row[i] \in SUBSET row[i + 1] /\ row[i + 1] \in SUBSET NodeId
        BY <1>1, <2>1, <2>2, RoundAdds
      <3>3. row[i] # row[i + 1]
        BY <2>2, <2>4
      <3>4. /\ IsFiniteSet(row[i + 1]) /\ Cardinality(row[i + 1]) \in Nat
            /\ Cardinality(row[i]) \in Nat
        BY <3>2, FiniteNodes
      <3>5. Cardinality(row[i]) <= Cardinality(row[i + 1])
              /\ Cardinality(row[i]) # Cardinality(row[i + 1])
        BY <3>2, <3>3, <3>4, FS_Subset
      <3> QED BY <3>1, <3>4, <3>5
    <2> QED BY <2>3, <2>4
  <1>4. Nat \subseteq Settles
    <2> HIDE DEF Settles
    <2> QED BY <1>2, <1>3, Induction
  <1>5. Fixed(row[N]) \/ Cardinality(row[N]) >= N
    BY <1>1, <1>4
  <1>6. CASE Cardinality(row[N]) >= N
    <2>1. IsFiniteSet(NodeId) /\ Cardinality(NodeId) = N
      <3>1. 0 \in Int /\ N - 1 \in Int
        BY GraphAssumption
      <3>2. /\ IsFiniteSet(0..(N - 1))
            /\ Cardinality(0..(N - 1)) = IF 0 > N - 1 THEN 0 ELSE (N - 1) - 0 + 1
        BY <3>1, FS_Interval
      <3> QED BY <3>2, GraphAssumption DEF NodeId
    <2>2. row[N] \in SUBSET NodeId /\ Cardinality(row[N]) \in Nat
      BY <1>1, FiniteNodes
    <2>3. Cardinality(row[N]) <= Cardinality(NodeId)
             /\ (Cardinality(NodeId) = Cardinality(row[N]) => NodeId = row[N])
      BY <2>1, <2>2, FS_Subset
    <2>4. row[N] = NodeId
      BY <1>1, <1>6, <2>1, <2>2, <2>3
    <2> QED BY <2>2, <2>4, RoundAdds
  <1> QED BY <1>5, <1>6

\* When the loop has ended, no round activates another node.
LEMMA EndIsFixed ==
    ASSUME TypeOK, ExpandedNodesAreSettled, NodesExpandOnce, ThresholdInv, EmptyAtEnd,
           pc = "done", NEW A \in SUBSET activated
    PROVE  LT!Round(A) \subseteq activated
  <1> SUFFICES ASSUME NEW v \in NodeId \ activated,
                      NEW u \in A, NEW i \in 1..Len(adjacency[u]),
                      adjacency[u][i].destination = v,
                      threshold[v] <= LT!WeightFrom(A, v)
               PROVE  FALSE
    BY ModelsOperators DEF LT!Round
  <1>1. Range(work_queue) = {}
    BY DEF EmptyAtEnd, Range
  <1>2. ASSUME NEW w \in NodeId \cap activated, NEW j \in 1..Len(adjacency[w]),
               adjacency[w][j].destination = v
        PROVE  <<w, j>> \in tried
    BY <1>1, <1>2 DEF ExpandedNodesAreSettled
  <1>3. threshold[v] >= 0
    <2>1. <<u, i>> \in tried
      BY <1>2 DEF TypeOK
    <2>2. threshold[adjacency[<<u, i>>[1]][<<u, i>>[2]].destination] >= 0
      BY <2>1 DEF ThresholdInv
    <2> QED BY <2>2
  <1>4. threshold[v] > TriedWeight(v)
    BY <1>3 DEF ThresholdInv
  <1>5. LT!WeightFrom(activated, v) <= TriedWeight(v)
    BY <1>2, AllAreTried
  <1>6. LT!WeightFrom(A, v) <= LT!WeightFrom(activated, v)
    BY WeightGrows
  <1>7. /\ threshold[v] \in Int /\ TriedWeight(v) \in Int
        /\ LT!WeightFrom(A, v) \in Int /\ LT!WeightFrom(activated, v) \in Int
    BY NodeSums DEF ThresholdInv
  <1> QED BY <1>4, <1>5, <1>6, <1>7

LEMMA EndIsTheRounds ==
    ASSUME TypeOK, ExpandedNodesAreSettled, NodesExpandOnce, ThresholdInv, EmptyAtEnd,
           pc = "done", Range(seeds) \subseteq activated
    PROVE  activated = LT!Rounds
  <1>1. PICK row \in [0..NumberOfNodes -> SUBSET NodeId] :
           RowOf(row) /\ LT!Rounds = row[NumberOfNodes]
    BY RoundsAreARow
  <1> DEFINE N == NumberOfNodes
             Within == {i \in Nat : i <= N => /\ Range(seeds) \subseteq row[i]
                                                /\ row[i] \subseteq activated}
  <1>2. N \in Nat /\ 0 \in 0..N /\ N \in 0..N
    BY GraphAssumption
  <1>3. 0 \in Within
    BY <1>1 DEF RowOf
  <1>4. ASSUME NEW i \in Nat \cap Within PROVE i + 1 \in Within
    <2> SUFFICES ASSUME i + 1 <= N
                 PROVE  Range(seeds) \subseteq row[i + 1] /\ row[i + 1] \subseteq activated
      OBVIOUS
    <2>1. i \in 0..N /\ i + 1 \in 1..N /\ (i + 1) - 1 = i
      BY <1>2
    <2>2. Range(seeds) \subseteq row[i] /\ row[i] \subseteq activated
      BY <1>4, <2>1
    <2>3. row[i + 1] = LT!Round(row[i])
      BY <1>1, <2>1 DEF RowOf
    <2>4. LT!Round(row[i]) \subseteq activated
      BY <2>2, EndIsFixed
    <2>5. row[i] \subseteq LT!Round(row[i])
      BY <2>1, RoundAdds
    <2> QED BY <2>2, <2>3, <2>4, <2>5
  <1>5. Nat \subseteq Within
    <2> HIDE DEF Within
    <2> QED BY <1>3, <1>4, Induction
  <1>6. Range(seeds) \subseteq row[N] /\ row[N] \subseteq activated /\ row[N] \in SUBSET NodeId
    BY <1>2, <1>5
  <1>7. LT!Round(row[N]) = row[N]
    BY <1>1, RowsSettle
  <1>8. Closed(row[N])
    <2>1. activated \subseteq NodeId
      BY DEF TypeOK
    <2>2. ASSUME NEW v \in activated, threshold[v] <= LT!WeightFrom(row[N], v),
                 NEW u \in row[N], NEW i \in 1..Len(adjacency[u]),
                 adjacency[u][i].destination = v
          PROVE  v \in row[N]
      <3>1. v \in LT!Round(row[N])
        BY <2>1, <2>2, ModelsOperators DEF LT!Round
      <3> QED BY <1>7, <3>1
    <2> QED BY <1>6, <2>2 DEF Closed
  <1> QED BY <1>1, <1>6, <1>8 DEF ThresholdInv

\* The thresholds of a simulation of the linear threshold model.
ThresholdsHold == model = "LINEAR_THRESHOLD" /\ DistinctSeeds => ThresholdInv

\* A seed stays active.
SeedsAreActive == Range(seeds) \subseteq activated

LEMMA InitThresholds == TypeOK /\ DiffusionInit => ThresholdsHold
  <1> SUFFICES ASSUME TypeOK, DiffusionInit, model = "LINEAR_THRESHOLD" PROVE ThresholdInv
    BY DEF ThresholdsHold
  <1>1. LT!Init /\ tried = {}
    BY DEF DiffusionInit, SingleSimulation, create, NoSimulation
  <1> QED BY <1>1, InitThreshold

LEMMA NextThresholds ==
    TypeOK /\ EachNodeExpandsOnce /\ ThresholdsHold /\ [DiffusionNext]_diffusion_vars
        => ThresholdsHold'
  <1> SUFFICES ASSUME TypeOK, EachNodeExpandsOnce, ThresholdsHold,
                      [DiffusionNext]_diffusion_vars,
                      model' = "LINEAR_THRESHOLD", DistinctSeeds'
               PROVE  ThresholdInv'
    BY DEF ThresholdsHold
  <1>1. model' = model
    BY DEF DiffusionNext, SimulationStep, IndependentCascadeStep, LinearThresholdStep, LoopStep,
           diffusion_vars, simulation_vars
  <1>2. seeds' = seeds
    BY DiffusionWalks, SeedsStay
  <1>3. ThresholdInv /\ NodesExpandOnce
    BY <1>1, <1>2 DEF ThresholdsHold, DistinctSeeds, EachNodeExpandsOnce
  <1>4. CASE LT!Influence /\ tried' = tried \cup {<<current, position>>}
    BY <1>3, <1>4, InfluenceThreshold
  <1>5. CASE UNCHANGED <<adjacency, seeds, activated, input, threshold, tried>>
    BY <1>3, <1>5, QuietThreshold
  <1>6. \/ LT!Influence /\ tried' = tried \cup {<<current, position>>}
        \/ UNCHANGED <<adjacency, seeds, activated, input, threshold, tried>>
    <2>1. CASE SimulationStep
      <3>1. LinearThresholdStep
        BY <1>1, <2>1 DEF SimulationStep, IndependentCascadeStep
      <3> QED BY <3>1 DEF LinearThresholdStep, LT!Pop, LT!SkipActivated, LT!EdgesDone, LT!Return
    <2>2. CASE LoopStep \/ UNCHANGED diffusion_vars
      BY <2>2 DEF LoopStep, diffusion_vars, simulation_vars, vars
    <2> QED BY <2>1, <2>2 DEF DiffusionNext
  <1> QED BY <1>4, <1>5, <1>6

\* On every graph, for all distinct seeds and all thresholds, a run of the linear
\* threshold model activates what the rounds of the model activate, whatever the order
\* of the stack, and returns their number.
THEOREM ThresholdModel == DiffusionSpec => []ActivatesTheModelsNodes
  <1>1. Started => EmptyAtEnd /\ SeedsAreActive
    BY DEF Started, Start, EmptyAtEnd, SeedsAreActive
  <1>2. SeedsAreActive /\ [Walk]_vars => SeedsAreActive'
    BY DEF SeedsAreActive, Walk, Pop, SkipActivated, Reaches, Misses, EdgesDone, Return, vars
  <1>3. DiffusionInit => ThresholdsHold
    BY InitThresholds, DiffusionStarts, InitTypeOK
  <1>4. /\ TypeOK /\ SpreadIsExact /\ ExpandedNodesAreSettled /\ EachNodeExpandsOnce
        /\ EmptyAtEnd /\ SeedsAreActive /\ ThresholdsHold
        => ActivatesTheModelsNodes
    <2> SUFFICES ASSUME TypeOK, SpreadIsExact, ExpandedNodesAreSettled, EachNodeExpandsOnce,
                        EmptyAtEnd, SeedsAreActive, ThresholdsHold,
                        model = "LINEAR_THRESHOLD", DistinctSeeds, pc = "done"
                 PROVE  activated = LT!Rounds /\ activated_counter = LT!Cardinality(activated)
      BY DEF ActivatesTheModelsNodes, LT!ActivatesTheModelsNodes
    <2>1. ThresholdInv /\ NodesExpandOnce
      BY DEF ThresholdsHold, EachNodeExpandsOnce, DistinctSeeds
    <2>2. activated = LT!Rounds
      BY <2>1, EndIsTheRounds DEF SeedsAreActive
    <2>3. activated_counter = Cardinality(activated)
      <3>1. Cardinality(Range(seeds)) = Len(seeds) /\ Len(seeds) \in Nat
        BY DistinctNumbers DEF DistinctSeeds, TypeOK
      <3>2. Cardinality(activated) \in Nat
        BY FiniteNodes DEF TypeOK
      <3> QED BY <3>1, <3>2 DEF SpreadIsExact
    <2>4. LT!Cardinality(activated) = Cardinality(activated)
      BY DEF LT!Cardinality, Cardinality, LT!IsFiniteSet, IsFiniteSet
    <2> QED BY <2>2, <2>3, <2>4
  <1>5. EmptyAtEnd /\ SeedsAreActive /\ [Walk]_vars => EmptyAtEnd' /\ SeedsAreActive'
    BY <1>2, NextEmpty
  <1> QED BY <1>1, <1>3, <1>4, <1>5, NextThresholds, DiffusionStarts, DiffusionWalks, TypeCorrect,
             SpreadCorrect, ExpandedSettled, ExpandsOnce, PTL DEF DiffusionSpec

=============================================================================
