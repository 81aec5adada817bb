----------------------------- MODULE GraphBuild -----------------------------
(***************************************************************************)
(* Parser.cpp and the building half of Graph.cpp: a file becomes the two   *)
(* offset arrays of a Graph.  Each method that the parser calls on the     *)
(* graph is an action; their order is the parser's.  A line is what the    *)
(* line parsers extract from it.  Weights are integers in units of 1/One   *)
(* and NaN ("no weight given") is a number outside 0..One; 1 / in-degree   *)
(* is exact when One is a multiple of the in-degree.                       *)
(***************************************************************************)
EXTENDS Sums, SequencesExt

CONSTANTS VertexListFiles,  \* sequences of vertex-list lines
          EdgeListFiles,    \* sequences of edge-list lines
          One,              \* the weight 1.0f
          RandomWeights     \* what 0.1f, 0.01f and 0.001f stand for

NaN == -1

AllWeights == (0..One) \cup {NaN}

EdgeListLine == [kind : {"edge", "comment", "blank", "meta"},
                 from : Nat, to : Nat, weight : AllWeights]

VertexListLine == [kind : {"vertex", "blank", "meta"}, neighbours : Seq(Nat)]

\* Meta data stands in the first line.
MetaComesFirst(lines) == \A i \in 1..Len(lines) : lines[i].kind = "meta" => i = 1

\* The neighbours of a vertex list have lines of their own, as Graph.cpp:90 needs.
NeighboursAreNodes(lines) ==
    \A i \in 1..Len(lines) : \A j \in 1..Len(lines[i].neighbours) :
        lines[i].kind = "vertex" =>
            lines[i].neighbours[j] + (IF lines[1].kind = "meta" THEN 1 ELSE 0) < Len(lines)

ASSUME BuildAssumption ==
    /\ One \in Nat \ {0}
    /\ RandomWeights \subseteq 1..One
    /\ \A lines \in EdgeListFiles : lines \in Seq(EdgeListLine) /\ MetaComesFirst(lines)
    /\ \A lines \in VertexListFiles : /\ lines \in Seq(VertexListLine)
                                      /\ MetaComesFirst(lines)
                                      /\ NeighboursAreNodes(lines)

VARIABLES
    file,                  \* the input: [mode |-> "VERTEX_LIST" | "EDGE_LIST", lines |-> ...]
    inverse, contains_meta_data, random_edge_weights,   \* the parser's parameters
    lines_read,            \* the number of lines that getline has returned
    adj_list, max,         \* of parseEdgeListFile
    adjacency_list, from, position,   \* of calculateBackwardEdges; position counts
                                      \* the edges of the node from that are done
    forward_offset_array_, backward_offset_array_,
    forward_edges_, backward_edges_,
    pc

parameters == <<file, inverse, random_edge_weights>>
reader     == <<contains_meta_data, lines_read, adj_list, max>>
collector  == <<adjacency_list, from, position>>
forward    == <<forward_offset_array_, forward_edges_>>
backward   == <<backward_offset_array_, backward_edges_>>
vars == <<parameters, reader, collector, forward, backward, pc>>

EdgeTo(destination, weight) == [destination |-> destination, weight |-> weight]

-----------------------------------------------------------------------------
(* The graph's accessors.  The arrays of the code are indexed from 0.       *)

Span(offsets, edges, node) ==
    SubSeq(edges, offsets[node + 1] + 1, offsets[node + 2])

getEdgesOf(node)        == Span(forward_offset_array_, forward_edges_, node)
getInverseEdgesOf(node) == Span(backward_offset_array_, backward_edges_, node)
getNumberOfNodes        == Len(forward_offset_array_) - 1
getInDegreeOf(node)     == Len(getInverseEdgesOf(node))

NodeIds == 0..(getNumberOfNodes - 1)

-----------------------------------------------------------------------------

HasLine(kind) == \E l \in Range(file.lines) : l.kind = kind

\* The flags are the user's; the one for meta data (-m) says how the file is.
Init == /\ \/ file \in [mode : {"VERTEX_LIST"}, lines : VertexListFiles]
           \/ file \in [mode : {"EDGE_LIST"}, lines : EdgeListFiles]
        /\ inverse \in BOOLEAN
        /\ contains_meta_data = HasLine("meta")
        /\ random_edge_weights \in BOOLEAN
        /\ lines_read = 0
        /\ adj_list = <<>>
        /\ max = 0
        /\ adjacency_list = <<>>
        /\ from = 0
        /\ position = 0
        /\ forward_offset_array_ = <<0>>
        /\ backward_offset_array_ = <<0>>
        /\ forward_edges_ = <<>>
        /\ backward_edges_ = <<>>
        /\ pc = "read"

appendNode(edges) ==
    /\ forward_edges_' = forward_edges_ \o edges
    /\ forward_offset_array_' =
          Append(forward_offset_array_, Len(forward_edges_) + Len(edges))

\* parseVertexListLine: the neighbours, without weights.  An empty line reads
\* as node 0 without neighbours; the node id itself is not used by appendNode.
parseVertexListLine(line) ==
    IF line.kind = "blank" THEN <<>>
    ELSE [i \in 1..Len(line.neighbours) |-> EdgeTo(line.neighbours[i], NaN)]

\* parseEdgeListLine: an empty line reads as an edge from 0 to 0.
parseEdgeListLine(line) ==
    IF line.kind = "blank" THEN [from |-> 0, to |-> 0, weight |-> NaN]
    ELSE [from |-> line.from, to |-> line.to, weight |-> line.weight]

SkipsLine(line) == \/ contains_meta_data
                   \/ file.mode = "EDGE_LIST" /\ line.kind = "comment"

LinesLeft == pc = "read" /\ lines_read < Len(file.lines)

Line == file.lines[lines_read + 1]

SkipLine == /\ LinesLeft
            /\ SkipsLine(Line)
            /\ contains_meta_data' = FALSE
            /\ lines_read' = lines_read + 1
            /\ UNCHANGED <<parameters, adj_list, max, collector, forward, backward, pc>>

ReadVertexLine == /\ LinesLeft
                  /\ file.mode = "VERTEX_LIST"
                  /\ ~SkipsLine(Line)
                  /\ appendNode(parseVertexListLine(Line))
                  /\ lines_read' = lines_read + 1
                  /\ UNCHANGED <<parameters, contains_meta_data, adj_list, max,
                                 collector, backward, pc>>

AdjListOf(node) == IF node \in DOMAIN adj_list THEN adj_list[node] ELSE <<>>

Larger(a, b) == IF a < b THEN b ELSE a

\* Mutant: adj_list[from] = {edge}, which keeps the last edge only.
WithLastEdge(line) ==
    [n \in DOMAIN adj_list \cup {line.from} |->
        IF n = line.from THEN <<EdgeTo(line.to, line.weight)>> ELSE adj_list[n]]

\* adj_list[from].emplace_back(to, weight): operator[] makes the missing entry.
WithEdge(line) ==
    [n \in DOMAIN adj_list \cup {line.from} |->
        IF n = line.from THEN Append(AdjListOf(n), EdgeTo(line.to, line.weight))
        ELSE adj_list[n]]

ReadEdgeLine == /\ LinesLeft
                /\ file.mode = "EDGE_LIST"
                /\ ~SkipsLine(Line)
                /\ LET line == parseEdgeListLine(Line) IN
                      /\ adj_list' = WithEdge(line)
                      /\ max' = Larger(Larger(max, line.from), line.to)
                /\ lines_read' = lines_read + 1
                /\ UNCHANGED <<parameters, contains_meta_data, collector, forward,
                               backward, pc>>

ReadDone == /\ pc = "read" /\ lines_read = Len(file.lines)
            /\ pc' = IF file.mode = "EDGE_LIST" THEN "append" ELSE "weights"
            /\ UNCHANGED <<parameters, reader, collector, forward, backward>>

\* The loop of lines 182-188; n is getNumberOfNodes, the nodes appended so far.
AppendNextNode == /\ pc = "append"
                  /\ getNumberOfNodes <= max
                  /\ appendNode(AdjListOf(getNumberOfNodes))
                  /\ UNCHANGED <<parameters, reader, collector, backward, pc>>

AppendDone == /\ pc = "append"
              /\ getNumberOfNodes > max
              /\ pc' = "weights"
              /\ UNCHANGED <<parameters, reader, collector, forward, backward>>

Weighted(edges, weight) ==
    [i \in 1..Len(edges) |-> [edges[i] EXCEPT !.weight = weight[i]]]

assignRandomForwardEdgeWeights ==
    /\ pc = "weights"
    /\ IF random_edge_weights
       THEN \E weight \in [1..Len(forward_edges_) -> RandomWeights] :
               forward_edges_' = Weighted(forward_edges_, weight)
       ELSE UNCHANGED forward_edges_
    /\ pc' = "backward"
    /\ UNCHANGED <<parameters, reader, collector, forward_offset_array_, backward>>

-----------------------------------------------------------------------------
(* calculateBackwardEdges.                                                  *)

BeginBackwardEdges == /\ pc = "backward"
                      /\ adjacency_list' = [n \in NodeIds |-> <<>>]
                      /\ from' = 0 /\ position' = 0
                      /\ pc' = "collect"
                      /\ UNCHANGED <<parameters, reader, forward, backward>>

\* Mutant: Edge back_e{from}, which leaves the weight behind.
UnweightedBackEdge(e) == EdgeTo(from, NaN)

BackEdge(e) == EdgeTo(from, e.weight)

CollectEdge == /\ pc = "collect"
               /\ from < getNumberOfNodes /\ position < Len(getEdgesOf(from))
               /\ LET e == getEdgesOf(from)[position + 1] IN
                     adjacency_list' = [adjacency_list EXCEPT ![e.destination] =
                                            Append(@, BackEdge(e))]
               /\ position' = position + 1
               /\ UNCHANGED <<parameters, reader, from, forward, backward, pc>>

CollectNextNode == /\ pc = "collect"
                   /\ from < getNumberOfNodes /\ position = Len(getEdgesOf(from))
                   /\ from' = from + 1
                   /\ position' = 0
                   /\ UNCHANGED <<parameters, reader, adjacency_list, forward, backward, pc>>

CollectDone == /\ pc = "collect"
               /\ from = getNumberOfNodes
               /\ pc' = "join"
               /\ UNCHANGED <<parameters, reader, collector, forward, backward>>

\* The nodes that are in the backward arrays, the n of the second loop.
Joined == Len(backward_offset_array_) - 1

JoinNode == /\ pc = "join"
            /\ Joined < getNumberOfNodes
            /\ backward_edges_' = backward_edges_ \o adjacency_list[Joined]
            /\ backward_offset_array_' =
                  Append(backward_offset_array_,
                         Len(backward_edges_) + Len(adjacency_list[Joined]))
            /\ UNCHANGED <<parameters, reader, collector, forward, pc>>

JoinDone == /\ pc = "join"
            /\ Joined = getNumberOfNodes
            /\ pc' = "inverse"
            /\ UNCHANGED <<parameters, reader, collector, forward, backward>>

-----------------------------------------------------------------------------

swap == /\ forward_offset_array_' = backward_offset_array_
        /\ backward_offset_array_' = forward_offset_array_
        /\ forward_edges_' = backward_edges_
        /\ backward_edges_' = forward_edges_

\* Graph::inverse, called when the -i flag is set.
CallInverse == /\ pc = "inverse"
               /\ IF inverse THEN swap ELSE UNCHANGED <<forward, backward>>
               /\ pc' = "normalise"
               /\ UNCHANGED <<parameters, reader, collector>>

\* Mutant: the span counted with its end.
InverseInDegreeOffByOne(node) == One \div (getInDegreeOf(node) + 1)

InverseInDegree(node) == One \div getInDegreeOf(node)

\* The node whose in-edges hold the edge at index i of backward_edges_.
BackwardOwner(i) ==
    CHOOSE n \in NodeIds : /\ backward_offset_array_[n + 1] < i
                           /\ i <= backward_offset_array_[n + 2]

ForwardWeight(e) ==
    IF e.weight = NaN THEN InverseInDegree(e.destination) ELSE e.weight

\* Every backward weight is overwritten, also one that the file gave.
BackwardWeight(i) == InverseInDegree(BackwardOwner(i))

calculateEdgeWeights ==
    /\ pc = "normalise"
    /\ IF random_edge_weights
       THEN UNCHANGED <<forward_edges_, backward_edges_>>
       ELSE /\ forward_edges_' = Weighted(forward_edges_,
                  [i \in 1..Len(forward_edges_) |-> ForwardWeight(forward_edges_[i])])
            /\ backward_edges_' = Weighted(backward_edges_,
                  [i \in 1..Len(backward_edges_) |-> BackwardWeight(i)])
    /\ pc' = "done"
    /\ UNCHANGED <<parameters, reader, collector, forward_offset_array_,
                   backward_offset_array_>>

Next == \/ SkipLine \/ ReadVertexLine \/ ReadEdgeLine \/ ReadDone
        \/ AppendNextNode \/ AppendDone
        \/ assignRandomForwardEdgeWeights
        \/ BeginBackwardEdges \/ CollectEdge \/ CollectNextNode \/ CollectDone
        \/ JoinNode \/ JoinDone
        \/ CallInverse \/ calculateEdgeWeights

Spec == Init /\ [][Next]_vars

-----------------------------------------------------------------------------
(* Properties.                                                             *)

IsBuilt == pc = "done"

Edge == [destination : Nat, weight : AllWeights]

TypeOK ==
    /\ file.mode \in {"VERTEX_LIST", "EDGE_LIST"}
    /\ {inverse, contains_meta_data, random_edge_weights} \subseteq BOOLEAN
    /\ lines_read \in 0..Len(file.lines)
    /\ max \in Nat /\ DOMAIN adj_list \subseteq 0..max
    /\ \A n \in DOMAIN adj_list : adj_list[n] \in Seq(Edge)
    /\ forward_offset_array_ \in Seq(Nat) /\ backward_offset_array_ \in Seq(Nat)
    /\ forward_edges_ \in Seq(Edge) /\ backward_edges_ \in Seq(Edge)
    /\ \A n \in DOMAIN adjacency_list : adjacency_list[n] \in Seq(Edge)
    /\ from \in Nat /\ position \in Nat
    /\ pc \in {"read", "append", "weights", "backward", "collect", "join", "inverse",
               "normalise", "done"}

\* A part of GraphIsTheFile: the offsets start at 0, never decrease and end at the
\* number of edges, so that getEdgesOf(n) and getEdgesOf(n + 1) are adjacent spans of
\* one array: no edge is outside every span and no span reaches past the end.
OffsetsCover(offsets, edges) ==
    /\ Len(offsets) > 0
    /\ offsets[1] = 0
    /\ \A i \in 1..(Len(offsets) - 1) : offsets[i] <= offsets[i + 1]
    /\ offsets[Len(offsets)] = Len(edges)

OffsetArraysAreSound == /\ TypeOK
                        /\ OffsetsCover(forward_offset_array_, forward_edges_)
                        /\ OffsetsCover(backward_offset_array_, backward_edges_)
                        /\ IsBuilt => Len(forward_offset_array_) = Len(backward_offset_array_)

Destinations(edges) == [i \in 1..Len(edges) |-> edges[i].destination]

Weights(edges) == [i \in 1..Len(edges) |-> edges[i].weight]

\* The elements of a list that keep names, for each number of elements looked at.
Picks(s, keep) ==
    LET picked[i \in 0..Len(s)] ==
            IF i = 0 THEN <<>>
            ELSE IF keep[i] THEN Append(picked[i - 1], s[i])
            ELSE picked[i - 1]
    IN  picked

\* The lines of a vertex list that are data, that is neither blank nor, with the
\* flag, the first line (README.md:116), and those of an edge list with the edges
\* of a node, which are not comments either.
VertexLines(lines) ==
    Picks(lines, [i \in 1..Len(lines) |-> lines[i].kind = "vertex"])

LinesFrom(node, lines) ==
    Picks(lines, [i \in 1..Len(lines) |-> lines[i].kind = "edge" /\ lines[i].from = node])

EdgesFrom(lines) == [i \in 1..Len(lines) |-> EdgeTo(lines[i].to, lines[i].weight)]

\* The edges of a node according to the file, in the file's order.
FileEdges(node) ==
    LET all == Len(file.lines)
    IN  IF file.mode = "VERTEX_LIST"
        THEN parseVertexListLine(VertexLines(file.lines)[all][node + 1])
        ELSE EdgesFrom(LinesFrom(node, file.lines)[all])

\* The nodes that the file speaks of.
FileNodesExist ==
    IF file.mode = "VERTEX_LIST"
    THEN getNumberOfNodes = Len(VertexLines(file.lines)[Len(file.lines)])
    ELSE \A l \in Range(file.lines) : l.kind = "edge" => {l.from, l.to} \subseteq NodeIds

\* At every step the offset arrays are sound, and the finished graph has the file's
\* nodes and edges and no other edges, parallel edges and self-loops included; with
\* -i they are its in-edges.  Every edge has a weight, as "prob > draw" would silently
\* take a missing one for 0, and without -i and -e an out-edge has the one that the
\* file gives.  (A blank line, which the file formats do not know, adds a node or an
\* edge from 0 to 0.)
GraphIsTheFile ==
    /\ OffsetArraysAreSound
    /\ IsBuilt /\ ~HasLine("blank") =>
          /\ FileNodesExist
          /\ \A n \in NodeIds :
                LET edges == IF inverse THEN getInverseEdgesOf(n) ELSE getEdgesOf(n)
                IN  /\ Destinations(edges) = Destinations(FileEdges(n))
                    /\ \A i \in 1..Len(edges) :
                          /\ edges[i].weight # NaN
                          /\ ~inverse /\ ~random_edge_weights =>
                                FileEdges(n)[i].weight \in {NaN, edges[i].weight}

\* Of a list of edges those to a node.
LedTo(node, edges) ==
    Picks(edges, [i \in 1..Len(edges) |-> edges[i].destination = node])

EdgesBetween(u, v) == LedTo(v, getEdgesOf(u))[Len(getEdgesOf(u))]

BackEdgesBetween(u, v) == LedTo(u, getInverseEdgesOf(v))[Len(getInverseEdgesOf(v))]

HasCustomWeights == \E l \in Range(file.lines) : l.kind = "edge" /\ l.weight # NaN

\* The two views of a graph have the same edges: v occurs among the out-edges of
\* u as often as u occurs among the in-edges of v.  Weights that were generated
\* are the same in both, so that a backward simulation or a reverse-reachable set
\* sees the graph a forward simulation sees; custom ones are not, as
\* calculateEdgeWeights overwrites them in the backward view.
ViewsMirror == IsBuilt => \A u, v \in NodeIds :
    /\ Len(EdgesBetween(u, v)) = Len(BackEdgesBetween(u, v))
    /\ random_edge_weights \/ ~HasCustomWeights =>
          Weights(EdgesBetween(u, v)) = Weights(BackEdgesBetween(u, v))

SumOfWeights(edges) == SumOfSeq(Weights(edges))

\* The linear threshold model needs the weights into a node to sum to one: they do
\* up to the rounding of 1 / in-degree, in the backward view and over all the nodes
\* that have an edge to the node.
InWeightsSumToOne ==
    IsBuilt /\ ~random_edge_weights /\ ~HasCustomWeights =>
        \A v \in NodeIds : getInDegreeOf(v) > 0 =>
            LET sum == One - (One % getInDegreeOf(v))
            IN  /\ SumOfWeights(getInverseEdgesOf(v)) = sum
                /\ SumOfSeq([u \in 1..getNumberOfNodes |->
                                SumOfWeights(EdgesBetween(u - 1, v))]) = sum

=============================================================================
