------------------------------- MODULE RrSet -------------------------------
(***************************************************************************)
(* IMM::createRrSet: one reverse reachable set.  From a random node, walk  *)
(* the in-edges backwards; every in-edge of a visited node draws a number  *)
(* and pushes its tail if it succeeds, visited or not, so that the stack   *)
(* (`queue' in the code) holds nodes twice.  A step is one iteration of a  *)
(* loop of the code.                                                       *)
(***************************************************************************)
EXTENDS InfluenceGraph, SequencesExt

CONSTANT Graphs \* the graphs to sample from

VARIABLES
    graph_,
    pc,            \* "idle": not called; "loop": at while; "edges": in the for loop; "done": returned
    visited,       \* the nodes whose entry of the vector is true
    rr_set,
    queue,
    current_node,
    position,      \* the in-edge of current_node that the for loop is at
    source_node,
    tried          \* history: the edges <<node, position>> that drew a number
                   \* while their tail was neither visited nor on the stack

vars == <<graph_, pc, visited, rr_set, queue, current_node, position,
          source_node, tried>>

Init == /\ graph_ \in Graphs
        /\ pc = "idle"
        /\ visited = {}
        /\ rr_set = <<>>
        /\ queue = <<>>
        /\ current_node = 0
        /\ position = 1
        /\ source_node = 0
        /\ tried = {}

\* Lines 125-133; the source is getRandomNode().
Call == /\ pc = "idle"
        /\ source_node' \in NodeId
        /\ pc' = "loop"
        /\ visited' = {}
        /\ rr_set' = <<>>
        /\ queue' = <<source_node'>>
        /\ tried' = {}
        /\ UNCHANGED <<graph_, current_node, position>>

AtNode == pc = "loop" /\ queue # <<>>

\* Mutant: the test of line 138 is forgotten.
NeverVisited == FALSE

AlreadyVisited == Last(queue) \in visited

SkipVisited == /\ AtNode
               /\ AlreadyVisited
               /\ queue' = Front(queue)
               /\ UNCHANGED <<graph_, pc, visited, rr_set, current_node, position,
                              source_node, tried>>

Appended(node) == Append(rr_set, node)

Visit == /\ AtNode
         /\ ~AlreadyVisited
         /\ current_node' = Last(queue)
         /\ queue' = Front(queue)
         /\ visited' = visited \cup {Last(queue)}
         /\ rr_set' = Appended(Last(queue))
         /\ position' = 1
         /\ pc' = "edges"
         /\ UNCHANGED <<graph_, source_node, tried>>

EdgesOf(node) == getInverseEdgesOf(graph_, node)

AtEdge == pc = "edges" /\ position <= Len(EdgesOf(current_node))

edge == EdgesOf(current_node)[position]

\* The nodes that are, or will be, members of the set.
Reached == visited \cup Range(queue)

\* Mutant: >= in place of >, which lets an impossible edge fire.
LiveOrTie(rnd) == edge.weight >= rnd

Live(rnd) == edge.weight > rnd

Pushed(node) == Append(queue, node)

Draw == /\ AtEdge
        /\ \E rnd \in genrand_close_open :
              queue' = IF Live(rnd) THEN Pushed(edge.destination) ELSE queue
        /\ position' = position + 1
        /\ tried' = IF edge.destination \in Reached THEN tried
                    ELSE tried \cup {<<current_node, position>>}
        /\ UNCHANGED <<graph_, pc, visited, rr_set, current_node, source_node>>

EdgesDone == /\ pc = "edges" /\ ~AtEdge
             /\ pc' = "loop"
             /\ UNCHANGED <<graph_, visited, rr_set, queue, current_node, position,
                            source_node, tried>>

Return == /\ pc = "loop" /\ queue = <<>>
          /\ pc' = "done"
          /\ UNCHANGED <<graph_, visited, rr_set, queue, current_node, position,
                         source_node, tried>>

Next == Call \/ SkipVisited \/ Visit \/ Draw \/ EdgesDone \/ Return

Spec == Init /\ [][Next]_vars

-----------------------------------------------------------------------------
(* Properties.                                                             *)

\* The set lists the visited nodes, the source first and each once, however
\* often the stack holds them.  nodeSelection needs this: with a node twice in a
\* set it would count the set twice for that node, and its loop at line 201 would
\* run over a counter that line 210 shrinks.
MembersAreDistinct == /\ Range(rr_set) = visited
                      /\ IsInjective(rr_set)
                      /\ rr_set # <<>> => Head(rr_set) = source_node

ArcOf(u, i) == LET e == getInverseEdgesOf(graph_, u)[i]
               IN  [from |-> u, slot |-> i, to |-> e.destination, weight |-> e.weight]

Arcs == UNION {{ArcOf(u, i) : i \in 1..getInDegreeOf(graph_, u)} : u \in NodeId}

TriedArcs == {ArcOf(t[1], t[2]) : t \in tried}

Process == INSTANCE CascadeProcess WITH
    arcs     <- Arcs,
    active   <- Reached,
    tried    <- TriedArcs,
    finished <- pc \in {"idle", "done"}

\* A reverse reachable set is an independent cascade from its source against the
\* direction of the edges, although the code draws for edges to nodes that are
\* members already: those draws change nothing.  This is the fact on which the
\* estimates of IMM rest.
ImplementsProcess == [][pc = "idle" \/ Process!Next]_(Process!vars)

=============================================================================
