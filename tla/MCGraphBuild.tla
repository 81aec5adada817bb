---------------------------- MODULE MCGraphBuild ----------------------------
(* Three nodes.  Edge lists: every sequence of at most two edges, with and   *)
(* without weights, some longer ones, comments, blank lines, a line of meta  *)
(* data.  Vertex lists: every assignment of short neighbour lists.           *)
EXTENDS GraphBuild

Node == 0..2

EdgeLine(u, v, weight) ==
    [kind |-> "edge", from |-> u, to |-> v, weight |-> weight]
CommentLine == [kind |-> "comment", from |-> 0, to |-> 0, weight |-> NaN]
BlankLine   == [kind |-> "blank", from |-> 0, to |-> 0, weight |-> NaN]
\* "3 2" at the top of a file: three nodes, two edges.
MetaLine    == [kind |-> "meta", from |-> 3, to |-> 2, weight |-> NaN]

Edges(weights) == {EdgeLine(u, v, w) : u \in Node, v \in Node, w \in weights}

LongFiles ==
    { <<EdgeLine(0, 1, NaN), EdgeLine(0, 1, NaN), EdgeLine(2, 1, NaN), EdgeLine(1, 1, NaN)>>,
      <<EdgeLine(2, 0, NaN), EdgeLine(1, 0, 15), EdgeLine(0, 2, 60), EdgeLine(1, 2, NaN)>>,
      <<EdgeLine(1, 2, NaN), EdgeLine(0, 2, NaN), EdgeLine(1, 0, NaN), EdgeLine(1, 2, NaN)>> }

Decorated == { <<CommentLine, EdgeLine(0, 1, NaN), CommentLine, EdgeLine(1, 2, NaN)>>,
               <<MetaLine, CommentLine, EdgeLine(0, 1, NaN), EdgeLine(1, 2, NaN)>>,
               <<MetaLine, EdgeLine(2, 1, NaN), BlankLine>>,
               <<CommentLine>>, <<BlankLine>> }

MCEdgeListFiles == BoundedSeq(Edges({NaN, 15}), 2) \cup LongFiles \cup Decorated

VertexLine(neighbours) == [kind |-> "vertex", neighbours |-> neighbours]
VertexMeta == [kind |-> "meta", neighbours |-> <<2>>]
VertexBlank == [kind |-> "blank", neighbours |-> <<>>]

MCVertexListFiles ==
    LET graphs == {<<VertexLine(a), VertexLine(b), VertexLine(c)>> :
                     a \in BoundedSeq(Node, 2), b \in BoundedSeq(Node, 1), c \in BoundedSeq(Node, 1)}
    IN  graphs \cup { <<VertexMeta, VertexLine(<<1>>), VertexLine(<<0, 1>>)>>,
                      <<VertexLine(<<1>>), VertexLine(<<0>>), VertexBlank>> }

=============================================================================
