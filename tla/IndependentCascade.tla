------------------------- MODULE IndependentCascade -------------------------
(***************************************************************************)
(* One simulation of IndependentCascader (diffusion/IndependentCascade):   *)
(* cascadeForward walks the out-edges, cascadeBackward is the same code    *)
(* over the in-edges, so that the direction is an initial choice of the    *)
(* adjacency.  work_queue is used as a stack; an edge to an inactive node  *)
(* costs one random draw.  A step is one iteration of a loop of the code.  *)
(***************************************************************************)
EXTENDS InfluenceGraph, SequencesExt

CONSTANTS Graphs,    \* the graphs to simulate on
          SeedLists  \* the seed vectors handed to the simulation

ASSUME CascadeAssumption == /\ Graphs \subseteq Graph
                            /\ SeedLists \subseteq Seq(NodeId)

VARIABLES
    adjacency,          \* node -> the span that getEdgesOf / getInverseEdgesOf returns
    seeds,              \* the argument, kept to state properties
    pc,                 \* "loop": at while; "edges": in the for loop; "done": returned
    work_queue,
    activated,          \* the nodes whose entry of vector<bool> activated is true
    activated_counter,
    current,            \* the node whose edges are walked
    position,           \* the edge of current the for loop is at
    tried               \* history: the edges <<node, position>> that drew a number

vars == <<adjacency, seeds, pc, work_queue, activated, activated_counter,
          current, position, tried>>

Start(s) == /\ seeds = s
            /\ pc = "loop"
            /\ work_queue = s
            /\ activated = Range(s)
            /\ activated_counter = Len(s)
            /\ current = 0
            /\ position = 1
            /\ tried = {}

cascadeForward(graph, s) ==
    adjacency = [n \in NodeId |-> getEdgesOf(graph, n)] /\ Start(s)

cascadeBackward(graph, s) ==
    adjacency = [n \in NodeId |-> getInverseEdgesOf(graph, n)] /\ Start(s)

Init == \E graph \in Graphs, s \in SeedLists :
            cascadeForward(graph, s) \/ cascadeBackward(graph, s)

-----------------------------------------------------------------------------

Pop == /\ pc = "loop"
       /\ work_queue # <<>>
       /\ current' = Last(work_queue)
       /\ work_queue' = Front(work_queue)
       /\ position' = 1
       /\ pc' = "edges"
       /\ UNCHANGED <<adjacency, seeds, activated, activated_counter, tried>>

AtEdge == pc = "edges" /\ position <= Len(adjacency[current])

edge == adjacency[current][position]

\* Mutant: the test of line 33 is forgotten.
NeverAtActivated == FALSE

AtActivated == edge.destination \in activated

SkipActivated == /\ AtEdge
                 /\ AtActivated
                 /\ position' = position + 1
                 /\ UNCHANGED <<adjacency, seeds, pc, work_queue, activated,
                                activated_counter, current, tried>>

\* Mutant: >= in place of > at line 39, which lets an impossible edge fire.
SucceedsOrTies(draw) == edge.weight >= draw

Succeeds(draw) == edge.weight > draw

\* Mutant: the activated node is not expanded (line 42 is missing).
NotPushed(node) == work_queue

\* What a successful draw does to the stack.
Pushed(node) == Append(work_queue, node)

Activate == /\ AtEdge
            /\ ~AtActivated
            /\ \E draw \in genrand_close_open : Succeeds(draw)
            /\ activated' = activated \cup {edge.destination}
            /\ activated_counter' = activated_counter + 1
            /\ work_queue' = Pushed(edge.destination)
            /\ tried' = tried \cup {<<current, position>>}
            /\ position' = position + 1
            /\ UNCHANGED <<adjacency, seeds, pc, current>>

Fail == /\ AtEdge
        /\ ~AtActivated
        /\ \E draw \in genrand_close_open : ~Succeeds(draw)
        /\ tried' = tried \cup {<<current, position>>}
        /\ position' = position + 1
        /\ UNCHANGED <<adjacency, seeds, pc, work_queue, activated,
                       activated_counter, current>>

EdgesDone == /\ pc = "edges"
             /\ position > Len(adjacency[current])
             /\ pc' = "loop"
             /\ UNCHANGED <<adjacency, seeds, work_queue, activated,
                            activated_counter, current, position, tried>>

Return == /\ pc = "loop"
          /\ work_queue = <<>>
          /\ pc' = "done"
          /\ UNCHANGED <<adjacency, seeds, work_queue, activated,
                         activated_counter, current, position, tried>>

Next == Pop \/ SkipActivated \/ Activate \/ Fail \/ EdgesDone \/ Return

Spec == Init /\ [][Next]_vars

-----------------------------------------------------------------------------
(* Properties.                                                             *)

TypeOK == /\ adjacency \in Adjacency
          /\ seeds \in Seq(NodeId)
          /\ pc \in {"loop", "edges", "done"}
          /\ work_queue \in Seq(NodeId)
          /\ activated \subseteq NodeId
          /\ activated_counter \in Nat
          /\ current \in NodeId
          /\ position \in Nat \ {0}
          /\ tried \subseteq NodeId \X (Nat \ {0})

\* The number a simulation returns is the number of active nodes, plus one for
\* every repetition in the seed vector: the counter starts at its length and
\* only grows with a node that was not active (lines 15, 41).
SpreadIsExact == activated_counter = Cardinality(activated)
                                     + (Len(seeds) - Cardinality(Range(seeds)))

\* A node that left the stack has been followed: each of its edges leads to an
\* active node or had its draw.  Of the node being expanded that is so up to the
\* loop's position.  This is why an empty stack means a finished cascade.
ExpandedNodesAreSettled ==
    \A u \in activated \ Range(work_queue) : \A i \in 1..Len(adjacency[u]) :
        \/ pc = "edges" /\ u = current /\ i >= position
        \/ adjacency[u][i].destination \in activated
        \/ <<u, i>> \in tried

NodesExpandOnce ==
    /\ IsInjective(work_queue)
    /\ Range(work_queue) \subseteq activated
    /\ pc = "edges" => current \in activated \ Range(work_queue)
    /\ \A t \in tried : /\ t[1] \in activated \ Range(work_queue)
                        /\ pc = "edges" /\ t[1] = current => t[2] < position

\* With distinct seeds a node is on the stack at most once and never again after
\* it was popped, so only expanded nodes have drawn, each edge at its turn.
EachNodeExpandsOnce == IsInjective(seeds) => NodesExpandOnce

ArcOf(u, i) == [from |-> u, slot |-> i, to |-> adjacency[u][i].destination,
                weight |-> adjacency[u][i].weight]

Process == INSTANCE CascadeProcess WITH
    arcs     <- UNION {{ArcOf(u, i) : i \in 1..Len(adjacency[u])} : u \in NodeId},
    active   <- activated,
    tried    <- {ArcOf(t[1], t[2]) : t \in tried},
    finished <- pc = "done"

\* Whatever the order of the stack, a simulation of distinct seeds is an
\* independent cascade: no edge is tried twice, none towards an active node, none
\* from an inactive one, and it returns only when every edge out of the active
\* set has been tried.
ImplementsProcess == /\ Process!Init
                     /\ [][IsInjective(seeds) => Process!Next]_(Process!vars)

=============================================================================
