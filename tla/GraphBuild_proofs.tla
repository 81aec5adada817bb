------------------------- MODULE GraphBuild_proofs -------------------------
(***************************************************************************)
(* Theorems about the graph that the parsers build, for every file, every  *)
(* combination of the flags and every unit of the weights: the arrays hold *)
(* the edges of the file, the two views of the graph mirror each other and *)
(* generated weights into a node sum to one.  The invariant has a part for *)
(* each phase: what has been read stands in the lists of the parser, what  *)
(* has been appended in the spans of the arrays, and what has been turned  *)
(* round is as often in the lists of the heads as in the spans walked.     *)
(***************************************************************************)
EXTENDS GraphBuild, SequenceFacts

lines == file.lines

Modes == {"VERTEX_LIST", "EDGE_LIST"}

\* The file is one that the parser is written for.
FileInv ==
    /\ file.mode \in Modes
    /\ MetaComesFirst(lines)
    /\ file.mode = "EDGE_LIST" => lines \in Seq(EdgeListLine)
    /\ file.mode = "VERTEX_LIST" => lines \in Seq(VertexListLine) /\ NeighboursAreNodes(lines)

\* The line of meta data is the one that is skipped.
SkipInv ==
    /\ contains_meta_data <=> HasLine("meta") /\ lines_read = 0
    /\ pc # "read" => lines_read = Len(lines)

Plain == ~HasLine("blank")

\* An edge that the parser makes: it leads to a node below a bound, and has a weight
\* only if the file gives one.
Parsed(edges, bound) ==
    \A i \in 1..Len(edges) : /\ edges[i].destination < bound
                             /\ ~HasCustomWeights => edges[i].weight = NaN

ListsHoldTheLines ==
    /\ \A n \in DOMAIN adj_list : Parsed(adj_list[n], max + 1)
    /\ \A i \in 1..lines_read :
          lines[i].kind = "edge" => lines[i].from <= max /\ lines[i].to <= max
    /\ Plain => \A n \in Nat : AdjListOf(n) = EdgesFrom(LinesFrom(n, lines)[lines_read])

EdgeListInv ==
    file.mode = "EDGE_LIST" =>
        /\ ListsHoldTheLines
        /\ pc = "read" => forward_offset_array_ = << 0 >> /\ forward_edges_ = <<>>
        /\ pc = "append" => /\ getNumberOfNodes <= max + 1
                            /\ \A n \in NodeIds : getEdgesOf(n) = AdjListOf(n)

MetaLines == IF HasLine("meta") THEN 1 ELSE 0

VertexListInv ==
    file.mode = "VERTEX_LIST" =>
        /\ pc # "append"
        /\ pc = "read" =>
              /\ getNumberOfNodes = lines_read - (IF lines_read = 0 THEN 0 ELSE MetaLines)
              /\ Parsed(forward_edges_, Len(lines) - MetaLines)
              /\ Plain =>
                    LET data == VertexLines(lines)[lines_read]
                    IN  /\ getNumberOfNodes = Len(data)
                        /\ \A n \in NodeIds : getEdgesOf(n) = parseVertexListLine(data[n + 1])

\* The edges of a node as they were before a swap.
Swapped == inverse /\ pc \in {"normalise", "done"}

Original(n) == IF Swapped THEN getInverseEdgesOf(n) ELSE getEdgesOf(n)

\* Where the weights of a list stand before they are calculated.
Raw(edges) ==
    /\ random_edge_weights /\ pc # "weights" => \A i \in 1..Len(edges) : edges[i].weight # NaN
    /\ ~random_edge_weights /\ ~HasCustomWeights /\ pc # "done" =>
          \A i \in 1..Len(edges) : edges[i].weight = NaN

LeadToNodes(edges) == \A i \in 1..Len(edges) : edges[i].destination \in NodeIds

IsRead == pc \notin {"read", "append"}

ArraysHoldTheFile ==
    IsRead =>
        /\ LeadToNodes(forward_edges_) /\ LeadToNodes(backward_edges_)
        /\ Raw(forward_edges_) /\ Raw(backward_edges_)
        /\ Plain => /\ FileNodesExist
                    /\ \A n \in NodeIds :
                          /\ Destinations(Original(n)) = Destinations(FileEdges(n))
                          /\ ~random_edge_weights /\ pc # "done" => Original(n) = FileEdges(n)

\* How many edges of a node have been turned round.
Turned(u) == IF u < from THEN Len(getEdgesOf(u))
             ELSE IF u = from THEN position ELSE 0

\* What has been turned round of the edges from u to v is in the list of v.
TurnedAre(u, v, count) ==
    Weights(LedTo(u, adjacency_list[v])[Len(adjacency_list[v])]) =
        Weights(LedTo(v, getEdgesOf(u))[count])

CollectInv ==
    /\ pc \in {"read", "append", "weights", "backward", "collect"} =>
          backward_offset_array_ = << 0 >> /\ backward_edges_ = <<>>
    /\ pc \in {"collect", "join"} =>
          /\ adjacency_list \in [NodeIds -> Seq(Edge)]
          /\ \A n \in NodeIds : LeadToNodes(adjacency_list[n]) /\ Raw(adjacency_list[n])
    /\ pc = "collect" =>
          /\ from <= getNumberOfNodes
          /\ from < getNumberOfNodes => position <= Len(getEdgesOf(from))
          /\ \A u, v \in NodeIds : TurnedAre(u, v, Turned(u))
    /\ pc = "join" =>
          /\ Joined <= getNumberOfNodes
          /\ \A u, v \in NodeIds : TurnedAre(u, v, Len(getEdgesOf(u)))
          /\ \A n \in 0..(Joined - 1) : getInverseEdgesOf(n) = adjacency_list[n]

MirrorInv ==
    pc \in {"inverse", "normalise"} =>
        /\ Joined = getNumberOfNodes
        /\ \A u, v \in NodeIds : Weights(EdgesBetween(u, v)) = Weights(BackEdgesBetween(u, v))

Built == GraphIsTheFile /\ ViewsMirror /\ InWeightsSumToOne

IInv == /\ TypeOK
        /\ OffsetsCover(forward_offset_array_, forward_edges_)
        /\ OffsetsCover(backward_offset_array_, backward_edges_)
        /\ FileInv /\ SkipInv /\ EdgeListInv /\ VertexListInv
        /\ ArraysHoldTheFile /\ CollectInv /\ MirrorInv
        /\ IsBuilt => Built

-----------------------------------------------------------------------------
(* Lists that are picked from a list.                                      *)

\* The list picked from the first i elements is that from one element fewer, and the
\* i-th element if keep names it.
LEMMA PicksFollow ==
    ASSUME NEW S, NEW s \in Seq(S), NEW keep \in [1..Len(s) -> BOOLEAN]
    PROVE  /\ Picks(s, keep)[0] = <<>>
           /\ \A i \in 0..Len(s) : Picks(s, keep)[i] \in Seq(S)
           /\ \A i \in 1..Len(s) : Picks(s, keep)[i] =
                 IF keep[i] THEN Append(Picks(s, keep)[i - 1], s[i])
                 ELSE Picks(s, keep)[i - 1]
  <1> DEFINE l == Len(s)
             V == Seq(S)
             step == [i \in 1..l |-> [v \in V |-> IF keep[i] THEN Append(v, s[i]) ELSE v]]
             Rule(h) == h = [i \in 0..l |-> IF i = 0 THEN <<>>
                                            ELSE IF keep[i] THEN Append(h[i - 1], s[i])
                                            ELSE h[i - 1]]
  <1>1. l \in Nat /\ <<>> \in V
    OBVIOUS
  <1>2. step \in [1..l -> [V -> V]]
    <2>1. ASSUME NEW i \in 1..l PROVE [v \in V |-> IF keep[i] THEN Append(v, s[i]) ELSE v] \in [V -> V]
      <3>1. s[i] \in S
        OBVIOUS
      <3>2. ASSUME NEW v \in V PROVE (IF keep[i] THEN Append(v, s[i]) ELSE v) \in V
        BY <3>1
      <3> HIDE DEF V
      <3> QED BY <3>2
    <2> HIDE DEF V, l
    <2> QED BY <2>1
  <1>3. PICK f \in [0..l -> V] : Recurs(f, l, <<>>, step)
    <2> HIDE DEF step, l, V
    <2> QED BY <1>1, <1>2, BoundedRecursionExists
  <1>4. ASSUME NEW i \in 0..l
        PROVE  f[i] = IF i = 0 THEN <<>>
                      ELSE IF keep[i] THEN Append(f[i - 1], s[i]) ELSE f[i - 1]
    <2>1. CASE i = 0
      BY <1>3, <2>1 DEF Recurs
    <2>2. CASE i # 0
      <3>1. i \in 1..l /\ i - 1 \in 0..l
        BY <1>1, <2>2
      <3>2. f[i - 1] \in V
        <4> HIDE DEF V, step
        <4> QED BY <1>3, <3>1
      <3>3. f[i] = step[i][f[i - 1]]
        <4> HIDE DEF step, V
        <4> QED BY <1>3, <2>2 DEF Recurs
      <3>4. step[i][f[i - 1]] = IF keep[i] THEN Append(f[i - 1], s[i]) ELSE f[i - 1]
        <4> HIDE DEF V, l
        <4> QED BY <3>1, <3>2
      <3> HIDE DEF step, V
      <3> QED BY <2>2, <3>3, <3>4
    <2> QED BY <2>1, <2>2
  <1>5. Rule(f)
    <2>1. f = [i \in 0..l |-> f[i]]
      <3> HIDE DEF l, V, step
      <3> QED BY <1>3
    <2> HIDE DEF l, V, step
    <2> QED BY <1>4, <2>1
  <1> DEFINE picked == CHOOSE h : Rule(h)
  <1>6. Rule(picked)
    <2> HIDE DEF Rule
    <2> QED BY <1>5
  <1>7. Picks(s, keep) = picked
    BY DEF Picks
  <1> HIDE DEF picked
  <1>8. \A i \in 0..l : picked[i] = IF i = 0 THEN <<>>
                                    ELSE IF keep[i] THEN Append(picked[i - 1], s[i])
                                    ELSE picked[i - 1]
    BY <1>6
  <1> HIDE DEF Rule, step
  <1> DEFINE Same == {i \in Nat : i <= l => picked[i] = f[i]}
  <1>9. 0 \in Same
    <2> HIDE DEF V
    <2>1. 0 \in 0..l
      BY <1>1
    <2> QED BY <1>4, <1>8, <2>1
  <1>10. ASSUME NEW i \in Nat \cap Same PROVE i + 1 \in Same
    <2> SUFFICES ASSUME i + 1 <= l PROVE picked[i + 1] = f[i + 1]
      OBVIOUS
    <2>1. i + 1 \in 0..l /\ i + 1 # 0 /\ (i + 1) - 1 = i /\ picked[i] = f[i]
      <3> HIDE DEF l, V
      <3> QED BY <1>1
    <2> HIDE DEF l, V, Same
    <2> QED BY <1>4, <1>8, <2>1
  <1>11. Nat \subseteq Same
    <2> HIDE DEF Same
    <2> QED BY <1>9, <1>10, Induction
  <1>12. \A i \in 0..l : picked[i] = f[i] /\ f[i] \in V
    <2> HIDE DEF V
    <2> QED BY <1>1, <1>3, <1>11
  <1>13. 0 \in 0..l
    BY <1>1
  <1>14. \A i \in 1..l : i \in 0..l /\ i # 0
    BY <1>1
  <1> QED BY <1>7, <1>8, <1>12, <1>13, <1>14

\* Lists that begin alike are picked from alike.
Alike(m, s, keep, t, held) ==
    /\ m <= Len(s) /\ m <= Len(t)
    /\ \A i \in 1..m : s[i] = t[i] /\ keep[i] = held[i]

LEMMA PicksAgree ==
    ASSUME NEW S, NEW s \in Seq(S), NEW keep \in [1..Len(s) -> BOOLEAN],
           NEW t \in Seq(S), NEW held \in [1..Len(t) -> BOOLEAN],
           NEW m \in Nat, Alike(m, s, keep, t, held)
    PROVE  \A i \in 0..m : Picks(s, keep)[i] = Picks(t, held)[i]
  <1> USE DEF Alike
  <1> DEFINE P == Picks(s, keep)
             Q == Picks(t, held)
             Same == {i \in Nat : i <= m => P[i] = Q[i]}
  <1>1. /\ P[0] = <<>>
        /\ \A i \in 1..Len(s) : P[i] = IF keep[i] THEN Append(P[i - 1], s[i]) ELSE P[i - 1]
    BY PicksFollow
  <1>2. /\ Q[0] = <<>>
        /\ \A i \in 1..Len(t) : Q[i] = IF held[i] THEN Append(Q[i - 1], t[i]) ELSE Q[i - 1]
    BY PicksFollow
  <1>3. Len(s) \in Nat /\ Len(t) \in Nat
    OBVIOUS
  <1> HIDE DEF P, Q
  <1>4. 0 \in Same
    BY <1>1, <1>2
  <1>5. ASSUME NEW i \in Nat \cap Same PROVE i + 1 \in Same
    <2> SUFFICES ASSUME i + 1 <= m PROVE P[i + 1] = Q[i + 1]
      OBVIOUS
    <2>1. /\ i + 1 \in 1..m /\ i + 1 \in 1..Len(s) /\ i + 1 \in 1..Len(t)
          /\ (i + 1) - 1 = i /\ P[i] = Q[i]
      BY <1>3
    <2>2. s[i + 1] = t[i + 1] /\ keep[i + 1] = held[i + 1]
      BY <2>1
    <2> HIDE DEF Same
    <2> QED BY <1>1, <1>2, <2>1, <2>2
  <1>6. Nat \subseteq Same
    <2> HIDE DEF Same
    <2> QED BY <1>4, <1>5, Induction
  <1> QED BY <1>6 DEF P, Q

\* What is picked was there and was to be kept.
WasKept(e, s, keep, i) == \E p \in 1..i : keep[p] /\ e = s[p]

LEMMA PicksAreKept ==
    ASSUME NEW S, NEW s \in Seq(S), NEW keep \in [1..Len(s) -> BOOLEAN], NEW i \in 0..Len(s),
           NEW j \in 1..Len(Picks(s, keep)[i])
    PROVE  WasKept(Picks(s, keep)[i][j], s, keep, i)
  <1> DEFINE P == Picks(s, keep)
             Good == {n \in Nat : n <= Len(s) =>
                        \A q \in 1..Len(P[n]) : \E p \in 1..n : keep[p] /\ P[n][q] = s[p]}
  <1>1. /\ P[0] = <<>> /\ \A n \in 0..Len(s) : P[n] \in Seq(S)
        /\ \A n \in 1..Len(s) : P[n] = IF keep[n] THEN Append(P[n - 1], s[n]) ELSE P[n - 1]
    BY PicksFollow
  <1>2. Len(s) \in Nat
    OBVIOUS
  <1> HIDE DEF P
  <1>3. 0 \in Good
    BY <1>1
  <1>4. ASSUME NEW n \in Nat \cap Good PROVE n + 1 \in Good
    <2> SUFFICES ASSUME n + 1 <= Len(s), NEW q \in 1..Len(P[n + 1])
                 PROVE  \E p \in 1..(n + 1) : keep[p] /\ P[n + 1][q] = s[p]
      OBVIOUS
    <2>1. /\ n + 1 \in 1..Len(s) /\ (n + 1) - 1 = n /\ n \in 0..Len(s)
          /\ \A x \in 1..Len(P[n]) : \E p \in 1..n : keep[p] /\ P[n][x] = s[p]
      BY <1>2
    <2>2. P[n] \in Seq(S) /\ Len(P[n]) \in Nat
      BY <1>1, <2>1
    <2>3. P[n + 1] = IF keep[n + 1] THEN Append(P[n], s[n + 1]) ELSE P[n]
      BY <1>1, <2>1
    <2> HIDE DEF Good
    <2>4. CASE q \in 1..Len(P[n]) /\ P[n + 1][q] = P[n][q]
      <3>1. PICK p \in 1..n : keep[p] /\ P[n][q] = s[p]
        BY <2>1, <2>4
      <3>2. p \in 1..(n + 1)
        OBVIOUS
      <3> QED BY <2>4, <3>1, <3>2
    <2>5. CASE keep[n + 1] /\ P[n + 1][q] = s[n + 1]
      <3>1. n + 1 \in 1..(n + 1)
        OBVIOUS
      <3> QED BY <2>5, <3>1
    <2>6. CASE ~keep[n + 1]
      BY <2>3, <2>4, <2>6
    <2>7. CASE keep[n + 1]
      <3>1. q = Len(P[n]) + 1 => P[n + 1][q] = s[n + 1]
        BY <2>2, <2>3, <2>7
      <3>2. q # Len(P[n]) + 1 => q \in 1..Len(P[n]) /\ P[n + 1][q] = P[n][q]
        BY <2>2, <2>3, <2>7
      <3> QED BY <2>4, <2>5, <2>7, <3>1, <3>2
    <2> QED BY <2>6, <2>7
  <1>5. Nat \subseteq Good
    <2> HIDE DEF Good
    <2> QED BY <1>3, <1>4, Induction
  <1>6. i \in Nat /\ i <= Len(s)
    BY <1>2
  <1> QED BY <1>5, <1>6 DEF P, WasKept

\* How many are picked depends on keep alone.
LEMMA PicksCount ==
    ASSUME NEW S, NEW s \in Seq(S), NEW t \in Seq(S), Len(s) = Len(t),
           NEW keep \in [1..Len(s) -> BOOLEAN]
    PROVE  \A i \in 0..Len(s) : Len(Picks(s, keep)[i]) = Len(Picks(t, keep)[i])
  <1> DEFINE P == Picks(s, keep)
             Q == Picks(t, keep)
             Same == {i \in Nat : i <= Len(s) => Len(P[i]) = Len(Q[i])}
  <1>1. /\ P[0] = <<>> /\ \A i \in 0..Len(s) : P[i] \in Seq(S)
        /\ \A i \in 1..Len(s) : P[i] = IF keep[i] THEN Append(P[i - 1], s[i]) ELSE P[i - 1]
    BY PicksFollow
  <1>2. /\ Q[0] = <<>> /\ \A i \in 0..Len(s) : Q[i] \in Seq(S)
        /\ \A i \in 1..Len(s) : Q[i] = IF keep[i] THEN Append(Q[i - 1], t[i]) ELSE Q[i - 1]
    BY PicksFollow
  <1>3. Len(s) \in Nat
    OBVIOUS
  <1> HIDE DEF P, Q
  <1>4. 0 \in Same
    BY <1>1, <1>2
  <1>5. ASSUME NEW i \in Nat \cap Same PROVE i + 1 \in Same
    <2> SUFFICES ASSUME i + 1 <= Len(s) PROVE Len(P[i + 1]) = Len(Q[i + 1])
      OBVIOUS
    <2>1. i + 1 \in 1..Len(s) /\ i \in 0..Len(s) /\ (i + 1) - 1 = i /\ Len(P[i]) = Len(Q[i])
      BY <1>3
    <2>2. P[i] \in Seq(S) /\ Q[i] \in Seq(S)
      BY <1>1, <1>2, <2>1
    <2>3. /\ P[i + 1] = IF keep[i + 1] THEN Append(P[i], s[i + 1]) ELSE P[i]
          /\ Q[i + 1] = IF keep[i + 1] THEN Append(Q[i], t[i + 1]) ELSE Q[i]
      BY <1>1, <1>2, <2>1
    <2> HIDE DEF Same
    <2> QED BY <2>1, <2>2, <2>3
  <1>6. Nat \subseteq Same
    <2> HIDE DEF Same
    <2> QED BY <1>4, <1>5, Induction
  <1> QED BY <1>6 DEF P, Q

-----------------------------------------------------------------------------
(* Spans of the arrays.                                                    *)

Offsets(offsets, edges) == offsets \in Seq(Nat) /\ OffsetsCover(offsets, edges)

\* Offsets never decrease.
LEMMA OffsetsAscend ==
    ASSUME NEW edges \in Seq(Edge), NEW offsets, Offsets(offsets, edges),
           NEW i \in 1..Len(offsets), NEW j \in 1..Len(offsets), i <= j
    PROVE  offsets[i] <= offsets[j]
  <1> DEFINE Above == {d \in Nat : i + d <= Len(offsets) => offsets[i] <= offsets[i + d]}
  <1>1. /\ Len(offsets) \in Nat /\ \A x \in 1..Len(offsets) : offsets[x] \in Nat
        /\ \A x \in 1..(Len(offsets) - 1) : offsets[x] <= offsets[x + 1]
    BY DEF Offsets, OffsetsCover
  <1>2. 0 \in Above
    BY <1>1
  <1>3. ASSUME NEW d \in Nat \cap Above PROVE d + 1 \in Above
    <2> SUFFICES ASSUME i + (d + 1) <= Len(offsets) PROVE offsets[i] <= offsets[i + (d + 1)]
      OBVIOUS
    <2>1. /\ i + d \in 1..(Len(offsets) - 1) /\ i + (d + 1) = (i + d) + 1
          /\ i + d \in 1..Len(offsets) /\ (i + d) + 1 \in 1..Len(offsets)
          /\ offsets[i] <= offsets[i + d]
      BY <1>1
    <2>2. offsets[i + d] <= offsets[(i + d) + 1]
      BY <1>1, <2>1
    <2>3. offsets[i] \in Nat /\ offsets[i + d] \in Nat /\ offsets[(i + d) + 1] \in Nat
      BY <1>1, <2>1
    <2> HIDE DEF Above
    <2> QED BY <2>1, <2>2, <2>3
  <1>4. Nat \subseteq Above
    <2> HIDE DEF Above
    <2> QED BY <1>2, <1>3, Induction
  <1>5. j - i \in Nat /\ i + (j - i) = j /\ j <= Len(offsets)
    BY <1>1
  <1> QED BY <1>4, <1>5

\* The span of a node, element by element.
LEMMA SpanIs ==
    ASSUME NEW edges \in Seq(Edge), NEW offsets, Offsets(offsets, edges),
           NEW node \in 0..(Len(offsets) - 2)
    PROVE  /\ offsets[node + 1] \in Nat /\ offsets[node + 2] \in Nat
           /\ offsets[node + 1] <= offsets[node + 2] /\ offsets[node + 2] <= Len(edges)
           /\ Span(offsets, edges, node) \in Seq(Edge)
           /\ Len(Span(offsets, edges, node)) = offsets[node + 2] - offsets[node + 1]
           /\ \A i \in 1..Len(Span(offsets, edges, node)) :
                 /\ offsets[node + 1] + i \in 1..Len(edges)
                 /\ Span(offsets, edges, node)[i] = edges[offsets[node + 1] + i]
  <1>1. /\ Len(offsets) \in Nat /\ Len(edges) \in Nat
        /\ node + 1 \in 1..Len(offsets) /\ node + 2 \in 1..Len(offsets)
        /\ Len(offsets) \in 1..Len(offsets) /\ node + 1 <= node + 2 /\ node + 2 <= Len(offsets)
        /\ offsets[node + 1] \in Nat /\ offsets[node + 2] \in Nat
        /\ offsets[Len(offsets)] = Len(edges)
    BY DEF Offsets, OffsetsCover
  <1>2. offsets[node + 1] <= offsets[node + 2] /\ offsets[node + 2] <= Len(edges)
    BY <1>1, OffsetsAscend
  <1> DEFINE a == offsets[node + 1]
             b == offsets[node + 2]
  <1>3. a \in Nat /\ b \in Nat /\ a <= b /\ b <= Len(edges)
    BY <1>1, <1>2
  <1> HIDE DEF a, b
  <1>4. /\ SubSeq(edges, a + 1, b) \in Seq(Edge)
        /\ Len(SubSeq(edges, a + 1, b)) = b - a
        /\ \A i \in 1..(b - a) : SubSeq(edges, a + 1, b)[i] = edges[a + i]
    BY <1>1, <1>3
  <1>5. \A i \in 1..(b - a) : a + i \in 1..Len(edges)
    BY <1>1, <1>3
  <1> QED BY <1>1, <1>2, <1>3, <1>4, <1>5 DEF Span, a, b

\* The same with a name.
IsSpan(s, offsets, edges, node) ==
    /\ offsets[node + 1] \in Nat /\ offsets[node + 2] \in Nat
    /\ Len(s) = offsets[node + 2] - offsets[node + 1]
    /\ \A i \in 1..Len(s) : /\ offsets[node + 1] + i \in 1..Len(edges)
                           /\ s[i] = edges[offsets[node + 1] + i]

LEMMA SpanHolds ==
    ASSUME NEW edges \in Seq(Edge), NEW offsets, Offsets(offsets, edges),
           NEW node \in 0..(Len(offsets) - 2)
    PROVE  IsSpan(Span(offsets, edges, node), offsets, edges, node)
  BY SpanIs DEF IsSpan

\* Each edge lies in the span of one node.
LEMMA OwnerIs ==
    ASSUME NEW edges \in Seq(Edge), NEW offsets, Offsets(offsets, edges),
           NEW i \in 1..Len(edges)
    PROVE  \E n \in 0..(Len(offsets) - 2) : offsets[n + 1] < i /\ i <= offsets[n + 2]
  <1>1. /\ Len(offsets) \in Nat /\ Len(offsets) > 0 /\ Len(edges) \in Nat
        /\ \A x \in 1..Len(offsets) : offsets[x] \in Nat
        /\ offsets[1] = 0 /\ offsets[Len(offsets)] = Len(edges)
    BY DEF Offsets, OffsetsCover
  <1> DEFINE Below == {n \in Nat : n + 1 <= Len(offsets) => offsets[n + 1] < i}
  <1>2. SUFFICES ASSUME \A n \in 0..(Len(offsets) - 2) : ~(offsets[n + 1] < i /\ i <= offsets[n + 2])
                 PROVE  FALSE
    OBVIOUS
  <1>3. 0 \in Below
    BY <1>1
  <1>4. ASSUME NEW n \in Nat \cap Below PROVE n + 1 \in Below
    <2> SUFFICES ASSUME (n + 1) + 1 <= Len(offsets) PROVE offsets[(n + 1) + 1] < i
      OBVIOUS
    <2>1. n \in 0..(Len(offsets) - 2) /\ offsets[n + 1] < i /\ (n + 1) + 1 = n + 2 /\ n + 2 \in 1..Len(offsets)
      BY <1>1
    <2> HIDE DEF Below
    <2> QED BY <1>1, <1>2, <2>1
  <1>5. Nat \subseteq Below
    <2> HIDE DEF Below
    <2> QED BY <1>3, <1>4, Induction
  <1>6. Len(offsets) - 1 \in Nat /\ (Len(offsets) - 1) + 1 = Len(offsets)
    BY <1>1
  <1>7. offsets[Len(offsets)] < i
    <2>1. Len(offsets) - 1 \in Below
      <3> HIDE DEF Below
      <3> QED BY <1>5, <1>6
    <2>2. (Len(offsets) - 1) + 1 <= Len(offsets)
      BY <1>1
    <2> QED BY <1>6, <2>1, <2>2
  <1> QED BY <1>1, <1>7

LEMMA OwnerIsOne ==
    ASSUME NEW edges \in Seq(Edge), NEW offsets, Offsets(offsets, edges), NEW i \in Nat,
           NEW n \in 0..(Len(offsets) - 2), offsets[n + 1] < i, i <= offsets[n + 2],
           NEW m \in 0..(Len(offsets) - 2), offsets[m + 1] < i, i <= offsets[m + 2]
    PROVE  n = m
  <1>1. /\ Len(offsets) \in Nat /\ \A x \in 1..Len(offsets) : offsets[x] \in Nat
    BY DEF Offsets, OffsetsCover
  <1>2. /\ n + 1 \in 1..Len(offsets) /\ n + 2 \in 1..Len(offsets)
        /\ m + 1 \in 1..Len(offsets) /\ m + 2 \in 1..Len(offsets)
    BY <1>1
  <1>3. CASE n < m
    <2>1. offsets[n + 2] <= offsets[m + 1]
      <3>1. n + 2 <= m + 1
        BY <1>3
      <3> QED BY <1>2, <3>1, OffsetsAscend
    <2> QED BY <1>1, <1>2, <2>1
  <1>4. CASE m < n
    <2>1. offsets[m + 2] <= offsets[n + 1]
      <3>1. m + 2 <= n + 1
        BY <1>4
      <3> QED BY <1>2, <3>1, OffsetsAscend
    <2> QED BY <1>1, <1>2, <2>1
  <1> QED BY <1>3, <1>4

LEMMA ListOf == ASSUME NEW S, NEW n \in Nat, NEW s \in [1..n -> S] PROVE s \in Seq(S) /\ Len(s) = n
  OBVIOUS

\* Lists with the same elements are the same.
LEMMA SameList ==
    ASSUME NEW S, NEW s \in Seq(S), NEW t \in Seq(S), Len(s) = Len(t),
           \A i \in 1..Len(s) : s[i] = t[i]
    PROVE  s = t
  <1>1. s \in [1..Len(s) -> S] /\ t \in [1..Len(s) -> S]
    OBVIOUS
  <1> QED BY <1>1

\* Spans of arrays that begin alike.
Begins(s, t) == Len(s) <= Len(t) /\ \A i \in 1..Len(s) : t[i] = s[i]

LEMMA SpanAgrees ==
    ASSUME NEW edges \in Seq(Edge), NEW offsets, Offsets(offsets, edges),
           NEW joined \in Seq(Edge), NEW longer, Offsets(longer, joined),
           Begins(edges, joined), Begins(offsets, longer),
           NEW n \in 0..(Len(offsets) - 2)
    PROVE  Span(longer, joined, n) = Span(offsets, edges, n)
  <1>1. Len(offsets) \in Nat /\ Len(longer) \in Nat
    BY DEF Offsets
  <1> USE DEF Begins
  <1>2. /\ n \in 0..(Len(longer) - 2) /\ n + 1 \in 1..Len(offsets) /\ n + 2 \in 1..Len(offsets)
    BY <1>1
  <1>3. longer[n + 1] = offsets[n + 1] /\ longer[n + 2] = offsets[n + 2]
    BY <1>2
  <1>4. /\ Span(offsets, edges, n) \in Seq(Edge)
        /\ Len(Span(offsets, edges, n)) = offsets[n + 2] - offsets[n + 1]
        /\ \A i \in 1..Len(Span(offsets, edges, n)) :
              /\ offsets[n + 1] + i \in 1..Len(edges)
              /\ Span(offsets, edges, n)[i] = edges[offsets[n + 1] + i]
    BY SpanIs
  <1>5. /\ Span(longer, joined, n) \in Seq(Edge)
        /\ Len(Span(longer, joined, n)) = longer[n + 2] - longer[n + 1]
        /\ \A i \in 1..Len(Span(longer, joined, n)) :
              Span(longer, joined, n)[i] = joined[longer[n + 1] + i]
    BY <1>2, SpanIs
  <1>6. \A i \in 1..Len(Span(longer, joined, n)) :
           Span(longer, joined, n)[i] = Span(offsets, edges, n)[i]
    <2> SUFFICES ASSUME NEW i \in 1..Len(Span(longer, joined, n))
                 PROVE  Span(longer, joined, n)[i] = Span(offsets, edges, n)[i]
      OBVIOUS
    <2>1. Len(Span(longer, joined, n)) = Len(Span(offsets, edges, n))
      BY <1>3, <1>4, <1>5
    <2>2. /\ longer[n + 1] + i \in 1..Len(edges)
          /\ Span(offsets, edges, n)[i] = edges[longer[n + 1] + i]
      BY <1>3, <1>4, <2>1
    <2>3. Span(longer, joined, n)[i] = joined[longer[n + 1] + i]
      BY <1>5
    <2> QED BY <2>2, <2>3
  <1> QED BY <1>3, <1>4, <1>5, <1>6, SameList

\* The span of a node whose edges are the last.
LEMMA SpanOfLast ==
    ASSUME NEW joined \in Seq(Edge), NEW longer, Offsets(longer, joined), NEW more \in Seq(Edge),
           NEW first \in Nat, NEW n \in 0..(Len(longer) - 2),
           longer[n + 1] = first, longer[n + 2] = first + Len(more),
           \A i \in 1..Len(more) : joined[first + i] = more[i]
    PROVE  Span(longer, joined, n) = more
  <1>1. /\ Span(longer, joined, n) \in Seq(Edge)
        /\ Len(Span(longer, joined, n)) = longer[n + 2] - longer[n + 1]
        /\ \A i \in 1..Len(Span(longer, joined, n)) :
              Span(longer, joined, n)[i] = joined[longer[n + 1] + i]
    BY SpanIs
  <1>2. Len(Span(longer, joined, n)) = Len(more)
    BY <1>1
  <1>3. \A i \in 1..Len(Span(longer, joined, n)) : Span(longer, joined, n)[i] = more[i]
    BY <1>1, <1>2
  <1> QED BY <1>1, <1>2, <1>3, SameList

\* What is appended to the arrays is the span of a new node and leaves the others.
LEMMA SpanAppends ==
    ASSUME NEW edges \in Seq(Edge), NEW offsets, Offsets(offsets, edges), NEW more \in Seq(Edge)
    PROVE  LET longer == Append(offsets, Len(edges) + Len(more))
               joined == edges \o more
           IN  /\ joined \in Seq(Edge) /\ Offsets(longer, joined)
               /\ Len(longer) = Len(offsets) + 1 /\ Len(joined) = Len(edges) + Len(more)
               /\ \A i \in 1..Len(edges) : joined[i] = edges[i]
               /\ \A i \in 1..Len(more) : joined[Len(edges) + i] = more[i]
               /\ \A n \in 0..(Len(offsets) - 2) : Span(longer, joined, n) = Span(offsets, edges, n)
               /\ Span(longer, joined, Len(offsets) - 1) = more
  <1> DEFINE longer == Append(offsets, Len(edges) + Len(more))
             joined == edges \o more
  <1>1. /\ Len(offsets) \in Nat /\ Len(offsets) > 0 /\ Len(edges) \in Nat /\ Len(more) \in Nat
        /\ \A x \in 1..Len(offsets) : offsets[x] \in Nat
        /\ offsets \in Seq(Nat) /\ offsets[1] = 0 /\ offsets[Len(offsets)] = Len(edges)
        /\ \A x \in 1..(Len(offsets) - 1) : offsets[x] <= offsets[x + 1]
    BY DEF Offsets, OffsetsCover
  <1>2. /\ joined \in Seq(Edge) /\ Len(joined) = Len(edges) + Len(more)
        /\ \A i \in 1..Len(edges) : joined[i] = edges[i]
        /\ \A i \in 1..Len(more) : joined[Len(edges) + i] = more[i]
    OBVIOUS
  <1>3. /\ longer \in Seq(Nat) /\ Len(longer) = Len(offsets) + 1
        /\ \A x \in 1..Len(offsets) : longer[x] = offsets[x]
        /\ longer[Len(offsets) + 1] = Len(edges) + Len(more)
    BY <1>1
  <1> HIDE DEF longer, joined
  <1>4. Offsets(longer, joined)
    <2>1. longer[1] = 0 /\ Len(longer) > 0 /\ longer[Len(longer)] = Len(joined)
      <3>1. 1 \in 1..Len(offsets)
        BY <1>1
      <3>2. longer[1] = 0
        BY <1>1, <1>3, <3>1
      <3> QED BY <1>1, <1>2, <1>3, <3>2
    <2>2. ASSUME NEW x \in 1..(Len(longer) - 1) PROVE longer[x] <= longer[x + 1]
      <3>1. CASE x < Len(offsets)
        <4>1. x \in 1..(Len(offsets) - 1) /\ x \in 1..Len(offsets) /\ x + 1 \in 1..Len(offsets)
          BY <1>1, <1>3, <3>1
        <4> QED BY <1>1, <1>3, <4>1
      <3>2. CASE x = Len(offsets)
        BY <1>1, <1>3, <3>2
      <3> QED BY <1>1, <1>3, <3>1, <3>2
    <2> QED BY <1>3, <2>1, <2>2 DEF Offsets, OffsetsCover
  <1>5. ASSUME NEW n \in 0..(Len(offsets) - 2)
        PROVE  Span(longer, joined, n) = Span(offsets, edges, n)
    <2>1. Begins(edges, joined) /\ Begins(offsets, longer)
      <3>1. Len(edges) <= Len(joined)
        BY <1>1, <1>2
      <3>2. Len(offsets) <= Len(longer)
        BY <1>1, <1>3
      <3> QED BY <1>2, <1>3, <3>1, <3>2, Zenon DEF Begins
    <2>2. joined \in Seq(Edge)
      BY <1>2
    <2> QED BY <1>4, <2>1, <2>2, SpanAgrees
  <1>6. Span(longer, joined, Len(offsets) - 1) = more
    <2> DEFINE n == Len(offsets) - 1
    <2>1. n \in 0..(Len(longer) - 2) /\ n + 1 = Len(offsets) /\ n + 2 = Len(offsets) + 1
      BY <1>1, <1>3
    <2>2. longer[n + 1] = Len(edges) /\ longer[n + 2] = Len(edges) + Len(more)
      BY <1>1, <1>3, <2>1
    <2> HIDE DEF n
    <2>3. Span(longer, joined, n) = more
      BY <1>1, <1>2, <1>4, <2>1, <2>2, SpanOfLast
    <2> QED BY <2>3 DEF n
  <1> QED BY <1>2, <1>3, <1>4, <1>5, <1>6 DEF longer, joined

\* New weights leave the arrays as they are otherwise.
LEMMA WeightedIs ==
    ASSUME NEW edges \in Seq(Edge), NEW weight, \A i \in 1..Len(edges) : weight[i] \in AllWeights
    PROVE  /\ Weighted(edges, weight) \in Seq(Edge) /\ Len(Weighted(edges, weight)) = Len(edges)
           /\ \A i \in 1..Len(edges) :
                 /\ Weighted(edges, weight)[i].destination = edges[i].destination
                 /\ Weighted(edges, weight)[i].weight = weight[i]
  <1>1. \A i \in 1..Len(edges) : edges[i] \in Edge
    OBVIOUS
  <1>2. \A i \in 1..Len(edges) :
           /\ [edges[i] EXCEPT !.weight = weight[i]] \in Edge
           /\ [edges[i] EXCEPT !.weight = weight[i]].destination = edges[i].destination
           /\ [edges[i] EXCEPT !.weight = weight[i]].weight = weight[i]
    BY <1>1 DEF Edge
  <1> DEFINE e(i) == [edges[i] EXCEPT !.weight = weight[i]]
             new == [i \in 1..Len(edges) |-> e(i)]
  <1>3. Len(edges) \in Nat /\ \A i \in 1..Len(edges) : e(i) \in Edge
    BY <1>2
  <1>4. \A i \in 1..Len(edges) : e(i).destination = edges[i].destination /\ e(i).weight = weight[i]
    BY <1>2
  <1>5. Weighted(edges, weight) = new
    BY DEF Weighted
  <1> HIDE DEF e
  <1>6. new \in Seq(Edge) /\ Len(new) = Len(edges) /\ \A i \in 1..Len(edges) : new[i] = e(i)
    BY <1>3
  <1> HIDE DEF new
  <1> QED BY <1>4, <1>5, <1>6

LEMMA SpanWeighted ==
    ASSUME NEW edges \in Seq(Edge), NEW offsets, Offsets(offsets, edges),
           NEW weight, \A i \in 1..Len(edges) : weight[i] \in AllWeights,
           NEW n \in 0..(Len(offsets) - 2)
    PROVE  /\ Offsets(offsets, Weighted(edges, weight))
           /\ Span(offsets, Weighted(edges, weight), n) \in Seq(Edge)
           /\ Len(Span(offsets, Weighted(edges, weight), n)) = Len(Span(offsets, edges, n))
           /\ \A i \in 1..Len(Span(offsets, edges, n)) :
                 /\ offsets[n + 1] + i \in 1..Len(edges)
                 /\ offsets[n + 1] < offsets[n + 1] + i /\ offsets[n + 1] + i <= offsets[n + 2]
                 /\ Span(offsets, Weighted(edges, weight), n)[i].destination
                        = Span(offsets, edges, n)[i].destination
                 /\ Span(offsets, Weighted(edges, weight), n)[i].weight
                        = weight[offsets[n + 1] + i]
  <1> DEFINE new == Weighted(edges, weight)
  <1>1. /\ new \in Seq(Edge) /\ Len(new) = Len(edges)
        /\ \A i \in 1..Len(edges) : /\ new[i].destination = edges[i].destination
                                    /\ new[i].weight = weight[i]
    BY WeightedIs
  <1> HIDE DEF new
  <1>2. Offsets(offsets, new)
    BY <1>1 DEF Offsets, OffsetsCover
  <1>3. /\ offsets[n + 1] \in Nat /\ offsets[n + 2] \in Nat /\ offsets[n + 1] <= offsets[n + 2]
        /\ Span(offsets, edges, n) \in Seq(Edge)
        /\ Len(Span(offsets, edges, n)) = offsets[n + 2] - offsets[n + 1]
        /\ \A i \in 1..Len(Span(offsets, edges, n)) :
              /\ offsets[n + 1] + i \in 1..Len(edges)
              /\ Span(offsets, edges, n)[i] = edges[offsets[n + 1] + i]
    BY SpanIs
  <1>4. /\ Span(offsets, new, n) \in Seq(Edge)
        /\ Len(Span(offsets, new, n)) = offsets[n + 2] - offsets[n + 1]
        /\ \A i \in 1..Len(Span(offsets, new, n)) : Span(offsets, new, n)[i] = new[offsets[n + 1] + i]
    BY <1>1, <1>2, SpanIs
  <1>5. \A i \in 1..Len(Span(offsets, edges, n)) :
           offsets[n + 1] < offsets[n + 1] + i /\ offsets[n + 1] + i <= offsets[n + 2]
    BY <1>3
  <1> QED BY <1>1, <1>2, <1>3, <1>4, <1>5 DEF new

-----------------------------------------------------------------------------
(* What the lines and the lists consist of.                                *)

LEMMA Units == One \in Nat /\ One > 0 /\ NaN \notin 0..One /\ RandomWeights \subseteq AllWeights \ {NaN}
  BY BuildAssumption DEF NaN, AllWeights

LEMMA EdgeIs ==
    ASSUME NEW d \in Nat, NEW w \in AllWeights
    PROVE  /\ EdgeTo(d, w) \in Edge
           /\ EdgeTo(d, w).destination = d /\ EdgeTo(d, w).weight = w
  BY DEF EdgeTo, Edge

\* The line that is read next.
LEMMA LineIs ==
    ASSUME IInv, LinesLeft
    PROVE  /\ lines_read + 1 \in 1..Len(lines) /\ Line = lines[lines_read + 1]
           /\ file.mode = "EDGE_LIST" => Line \in EdgeListLine
           /\ file.mode = "VERTEX_LIST" => Line \in VertexListLine
           /\ Plain => Line.kind # "blank"
           /\ Line.kind = "meta" => lines_read = 0
           /\ HasLine("meta") /\ lines_read = 0 => Line.kind = "meta"
  <1>1. /\ lines_read \in Nat /\ lines_read < Len(lines) /\ Len(lines) \in Nat
        /\ DOMAIN lines = 1..Len(lines) /\ file.mode \in Modes
    BY DEF IInv, TypeOK, LinesLeft, lines, FileInv, Modes
  <1>2. lines_read + 1 \in 1..Len(lines) /\ Line = lines[lines_read + 1]
    BY <1>1 DEF Line, lines
  <1>3. /\ file.mode = "EDGE_LIST" => Line \in EdgeListLine
        /\ file.mode = "VERTEX_LIST" => Line \in VertexListLine
    BY <1>2 DEF IInv, FileInv
  <1>4. Plain => Line.kind # "blank"
    BY <1>1, <1>2 DEF Plain, HasLine, Range, lines
  <1>5. Line.kind = "meta" => lines_read = 0
    BY <1>1, <1>2 DEF IInv, FileInv, MetaComesFirst
  <1>6. HasLine("meta") /\ lines_read = 0 => Line.kind = "meta"
    <2> SUFFICES ASSUME HasLine("meta"), lines_read = 0 PROVE Line.kind = "meta"
      OBVIOUS
    <2>1. PICK i \in 1..Len(lines) : lines[i].kind = "meta"
      BY <1>1 DEF HasLine, Range, lines
    <2>2. i = 1
      BY <2>1 DEF IInv, FileInv, MetaComesFirst
    <2> QED BY <1>2, <2>1, <2>2
  <1> QED BY <1>2, <1>3, <1>4, <1>5, <1>6

\* The edges that a line of a vertex list becomes.
LEMMA VertexLineIs ==
    ASSUME NEW line \in VertexListLine
    PROVE  /\ parseVertexListLine(line) \in Seq(Edge)
           /\ line.kind # "blank" => Len(parseVertexListLine(line)) = Len(line.neighbours)
           /\ \A i \in 1..Len(parseVertexListLine(line)) :
                 /\ parseVertexListLine(line)[i].weight = NaN
                 /\ i \in 1..Len(line.neighbours) /\ line.kind # "blank"
                 /\ parseVertexListLine(line)[i].destination = line.neighbours[i]
  <1>1. CASE line.kind = "blank"
    BY <1>1 DEF parseVertexListLine
  <1>2. CASE line.kind # "blank"
    <2> DEFINE e(i) == EdgeTo(line.neighbours[i], NaN)
               new == [i \in 1..Len(line.neighbours) |-> e(i)]
    <2>1. line.neighbours \in Seq(Nat)
      BY DEF VertexListLine
    <2>2. /\ Len(line.neighbours) \in Nat
          /\ \A i \in 1..Len(line.neighbours) : line.neighbours[i] \in Nat
      BY <2>1
    <2>3. \A i \in 1..Len(line.neighbours) :
             /\ e(i) \in Edge /\ e(i).destination = line.neighbours[i] /\ e(i).weight = NaN
      BY <2>2, EdgeIs DEF AllWeights
    <2>4. parseVertexListLine(line) = new
      BY <1>2 DEF parseVertexListLine
    <2> HIDE DEF e
    <2>5. /\ new \in Seq(Edge) /\ Len(new) = Len(line.neighbours)
          /\ \A i \in 1..Len(line.neighbours) : new[i] = e(i)
      BY <2>2, <2>3
    <2> HIDE DEF new
    <2> QED BY <1>2, <2>3, <2>4, <2>5
  <1> QED BY <1>1, <1>2

\* The edge that a line of an edge list becomes.
LEMMA EdgeLineIs ==
    ASSUME NEW line \in EdgeListLine
    PROVE  LET edge == parseEdgeListLine(line)
           IN  /\ edge.from \in Nat /\ edge.to \in Nat /\ edge.weight \in AllWeights
               /\ line.kind # "blank" =>
                     edge.from = line.from /\ edge.to = line.to /\ edge.weight = line.weight
               /\ line.kind = "blank" => edge.weight = NaN
  BY DEF parseEdgeListLine, EdgeListLine, AllWeights

\* The lists that a line of an edge list leaves.
LEMMA WithEdgeIs ==
    ASSUME \A n \in DOMAIN adj_list : adj_list[n] \in Seq(Edge),
           NEW edge, edge.from \in Nat, edge.to \in Nat, edge.weight \in AllWeights
    PROVE  /\ DOMAIN WithEdge(edge) = DOMAIN adj_list \cup {edge.from}
           /\ \A n \in DOMAIN adj_list : n # edge.from => WithEdge(edge)[n] = adj_list[n]
           /\ WithEdge(edge)[edge.from] =
                 Append(AdjListOf(edge.from), EdgeTo(edge.to, edge.weight))
           /\ \A n \in Nat : AdjListOf(n) \in Seq(Edge)
           /\ \A n \in DOMAIN WithEdge(edge) : WithEdge(edge)[n] \in Seq(Edge)
  <1>1. \A n \in Nat : AdjListOf(n) \in Seq(Edge)
    BY DEF AdjListOf
  <1>2. EdgeTo(edge.to, edge.weight) \in Edge
    BY EdgeIs
  <1> DEFINE e == EdgeTo(edge.to, edge.weight)
             more == Append(AdjListOf(edge.from), e)
  <1>3. more \in Seq(Edge)
    BY <1>1, <1>2
  <1>4. WithEdge(edge) = [n \in DOMAIN adj_list \cup {edge.from} |->
                            IF n = edge.from THEN more ELSE adj_list[n]]
    BY DEF WithEdge
  <1> HIDE DEF more
  <1>5. \A n \in DOMAIN WithEdge(edge) : WithEdge(edge)[n] \in Seq(Edge)
    BY <1>3, <1>4
  <1> QED BY <1>1, <1>4, <1>5 DEF more

-----------------------------------------------------------------------------
(* The lists that the properties pick.                                     *)

LEMMA LinesFromFollow ==
    ASSUME NEW ls \in Seq(EdgeListLine), NEW n \in Nat
    PROVE  /\ LinesFrom(n, ls)[0] = <<>>
           /\ \A i \in 0..Len(ls) : LinesFrom(n, ls)[i] \in Seq(EdgeListLine)
           /\ \A i \in 1..Len(ls) : LinesFrom(n, ls)[i] =
                 IF ls[i].kind = "edge" /\ ls[i].from = n
                 THEN Append(LinesFrom(n, ls)[i - 1], ls[i])
                 ELSE LinesFrom(n, ls)[i - 1]
  <1> DEFINE keep == [i \in 1..Len(ls) |-> ls[i].kind = "edge" /\ ls[i].from = n]
  <1>1. keep \in [1..Len(ls) -> BOOLEAN]
    OBVIOUS
  <1>2. \A i \in 1..Len(ls) : keep[i] <=> ls[i].kind = "edge" /\ ls[i].from = n
    OBVIOUS
  <1>3. LinesFrom(n, ls) = Picks(ls, keep)
    BY DEF LinesFrom
  <1> HIDE DEF keep
  <1>4. /\ Picks(ls, keep)[0] = <<>>
        /\ \A i \in 0..Len(ls) : Picks(ls, keep)[i] \in Seq(EdgeListLine)
        /\ \A i \in 1..Len(ls) : Picks(ls, keep)[i] =
              IF keep[i] THEN Append(Picks(ls, keep)[i - 1], ls[i]) ELSE Picks(ls, keep)[i - 1]
    BY <1>1, PicksFollow
  <1> QED BY <1>2, <1>3, <1>4

LEMMA VertexLinesFollow ==
    ASSUME NEW ls \in Seq(VertexListLine)
    PROVE  /\ VertexLines(ls)[0] = <<>>
           /\ \A i \in 0..Len(ls) : VertexLines(ls)[i] \in Seq(VertexListLine)
           /\ \A i \in 1..Len(ls) : VertexLines(ls)[i] =
                 IF ls[i].kind = "vertex" THEN Append(VertexLines(ls)[i - 1], ls[i])
                 ELSE VertexLines(ls)[i - 1]
  <1> DEFINE keep == [i \in 1..Len(ls) |-> ls[i].kind = "vertex"]
  <1>1. keep \in [1..Len(ls) -> BOOLEAN]
    OBVIOUS
  <1>2. \A i \in 1..Len(ls) : keep[i] <=> ls[i].kind = "vertex"
    OBVIOUS
  <1>3. VertexLines(ls) = Picks(ls, keep)
    BY DEF VertexLines
  <1> HIDE DEF keep
  <1>4. /\ Picks(ls, keep)[0] = <<>>
        /\ \A i \in 0..Len(ls) : Picks(ls, keep)[i] \in Seq(VertexListLine)
        /\ \A i \in 1..Len(ls) : Picks(ls, keep)[i] =
              IF keep[i] THEN Append(Picks(ls, keep)[i - 1], ls[i]) ELSE Picks(ls, keep)[i - 1]
    BY <1>1, PicksFollow
  <1> QED BY <1>2, <1>3, <1>4

LEMMA LedToFollow ==
    ASSUME NEW edges \in Seq(Edge), NEW n \in Nat
    PROVE  /\ LedTo(n, edges)[0] = <<>>
           /\ \A i \in 0..Len(edges) : LedTo(n, edges)[i] \in Seq(Edge)
           /\ \A i \in 1..Len(edges) : LedTo(n, edges)[i] =
                 IF edges[i].destination = n THEN Append(LedTo(n, edges)[i - 1], edges[i])
                 ELSE LedTo(n, edges)[i - 1]
  <1> DEFINE keep == [i \in 1..Len(edges) |-> edges[i].destination = n]
  <1>1. keep \in [1..Len(edges) -> BOOLEAN]
    OBVIOUS
  <1>2. \A i \in 1..Len(edges) : keep[i] <=> edges[i].destination = n
    OBVIOUS
  <1>3. LedTo(n, edges) = Picks(edges, keep)
    BY DEF LedTo
  <1> HIDE DEF keep
  <1>4. /\ Picks(edges, keep)[0] = <<>>
        /\ \A i \in 0..Len(edges) : Picks(edges, keep)[i] \in Seq(Edge)
        /\ \A i \in 1..Len(edges) : Picks(edges, keep)[i] =
              IF keep[i] THEN Append(Picks(edges, keep)[i - 1], edges[i])
              ELSE Picks(edges, keep)[i - 1]
    BY <1>1, PicksFollow
  <1> QED BY <1>2, <1>3, <1>4

\* An edge that is appended to a list is picked, or not, after the others.
LEMMA LedToAppends ==
    ASSUME NEW edges \in Seq(Edge), NEW n \in Nat, NEW e \in Edge
    PROVE  LedTo(n, Append(edges, e))[Len(Append(edges, e))] =
              IF e.destination = n THEN Append(LedTo(n, edges)[Len(edges)], e)
              ELSE LedTo(n, edges)[Len(edges)]
  <1> DEFINE longer == Append(edges, e)
             l == Len(edges)
             keep == [i \in 1..Len(edges) |-> edges[i].destination = n]
             held == [i \in 1..Len(longer) |-> longer[i].destination = n]
  <1>1. /\ longer \in Seq(Edge) /\ Len(longer) = l + 1 /\ longer[l + 1] = e
        /\ \A i \in 1..l : longer[i] = edges[i]
        /\ l \in Nat
    OBVIOUS
  <1> HIDE DEF longer
  <1>2. /\ keep \in [1..Len(edges) -> BOOLEAN] /\ held \in [1..Len(longer) -> BOOLEAN]
        /\ \A i \in 1..l : edges[i] = longer[i] /\ keep[i] = held[i]
    BY <1>1
  <1>3. LedTo(n, edges) = Picks(edges, keep) /\ LedTo(n, longer) = Picks(longer, held)
    BY DEF LedTo
  <1> HIDE DEF keep, held
  <1>4. l <= Len(edges) /\ l <= Len(longer) /\ l \in 0..l /\ l + 1 \in 1..Len(longer) /\ (l + 1) - 1 = l
    BY <1>1
  <1>5. Picks(edges, keep)[l] = Picks(longer, held)[l]
    <2> HIDE DEF l
    <2>1. Alike(l, edges, keep, longer, held)
      BY <1>2, <1>4, Zenon DEF Alike
    <2>2. \A i \in 0..l : Picks(edges, keep)[i] = Picks(longer, held)[i]
      <3>1. longer \in Seq(Edge) /\ l \in Nat
        BY <1>1
      <3>2. keep \in [1..Len(edges) -> BOOLEAN] /\ held \in [1..Len(longer) -> BOOLEAN]
        BY <1>2
      <3> QED BY <2>1, <3>1, <3>2, PicksAgree
    <2> QED BY <1>4, <2>2
  <1>6. LedTo(n, longer)[l + 1] = IF longer[l + 1].destination = n
                                  THEN Append(LedTo(n, longer)[l], longer[l + 1])
                                  ELSE LedTo(n, longer)[l]
    <2> HIDE DEF l
    <2> QED BY <1>1, <1>4, LedToFollow
  <1> HIDE DEF l
  <1>7. LedTo(n, longer)[Len(longer)] = IF e.destination = n THEN Append(LedTo(n, edges)[l], e)
                                        ELSE LedTo(n, edges)[l]
    BY <1>1, <1>3, <1>5, <1>6
  <1> QED BY <1>7 DEF longer, l

\* The edges of one line more.
LEMMA EdgesFromAppends ==
    ASSUME NEW ls \in Seq(EdgeListLine), NEW line \in EdgeListLine
    PROVE  /\ EdgesFrom(ls) \in Seq(Edge)
           /\ EdgesFrom(Append(ls, line)) = Append(EdgesFrom(ls), EdgeTo(line.to, line.weight))
  <1> DEFINE e(s, i) == EdgeTo(s[i].to, s[i].weight)
             more == Append(ls, line)
             new == EdgeTo(line.to, line.weight)
  <1>1. /\ more \in Seq(EdgeListLine) /\ Len(more) = Len(ls) + 1 /\ Len(ls) \in Nat
        /\ \A i \in 1..Len(ls) : more[i] = ls[i] /\ ls[i] \in EdgeListLine
        /\ more[Len(ls) + 1] = line
    OBVIOUS
  <1>2. \A x \in EdgeListLine : EdgeTo(x.to, x.weight) \in Edge
    BY EdgeIs DEF EdgeListLine
  <1> HIDE DEF more
  <1>3. /\ \A i \in 1..Len(ls) : e(ls, i) \in Edge /\ e(more, i) = e(ls, i)
        /\ e(more, Len(ls) + 1) = new /\ new \in Edge
    BY <1>1, <1>2
  <1>4. EdgesFrom(ls) = [i \in 1..Len(ls) |-> e(ls, i)]
    BY DEF EdgesFrom
  <1>5. EdgesFrom(more) = [i \in 1..Len(more) |-> e(more, i)]
    BY DEF EdgesFrom
  <1> HIDE DEF e, new
  <1>6. /\ EdgesFrom(ls) \in Seq(Edge) /\ Len(EdgesFrom(ls)) = Len(ls)
        /\ \A i \in 1..Len(ls) : EdgesFrom(ls)[i] = e(ls, i)
    BY <1>1, <1>3, <1>4
  <1>7. \A i \in 1..(Len(ls) + 1) : e(more, i) \in Edge
    BY <1>1, <1>3
  <1>8. /\ EdgesFrom(more) \in Seq(Edge) /\ Len(EdgesFrom(more)) = Len(ls) + 1
        /\ \A i \in 1..(Len(ls) + 1) : EdgesFrom(more)[i] = e(more, i)
    BY <1>1, <1>5, <1>7
  <1> DEFINE t == Append(EdgesFrom(ls), new)
  <1>9. /\ t \in Seq(Edge) /\ Len(t) = Len(ls) + 1
        /\ \A i \in 1..Len(ls) : t[i] = EdgesFrom(ls)[i]
        /\ t[Len(ls) + 1] = new
    BY <1>3, <1>6
  <1> HIDE DEF t
  <1>10. \A i \in 1..(Len(ls) + 1) : EdgesFrom(more)[i] = t[i]
    <2> TAKE i \in 1..(Len(ls) + 1)
    <2>1. i \in 1..Len(ls) \/ i = Len(ls) + 1
      BY <1>1
    <2> QED BY <1>3, <1>6, <1>8, <1>9, <2>1
  <1>11. EdgesFrom(more) = t
    BY <1>8, <1>9, <1>10, SameList
  <1> QED BY <1>6, <1>11 DEF more, t, new

-----------------------------------------------------------------------------
(* The steps that read the file.                                           *)

\* While the file is read, nothing is said of the later phases.
LEMMA NotReadYet ==
    ASSUME pc' \in {"read", "append"}, backward_offset_array_' = << 0 >>, backward_edges_' = <<>>
    PROVE  /\ OffsetsCover(backward_offset_array_, backward_edges_)'
           /\ ArraysHoldTheFile' /\ CollectInv' /\ MirrorInv' /\ (IsBuilt => Built)'
  <1>1. OffsetsCover(backward_offset_array_, backward_edges_)'
    BY DEF OffsetsCover
  <1>2. ArraysHoldTheFile' /\ CollectInv' /\ MirrorInv' /\ (IsBuilt => Built)'
    BY DEF ArraysHoldTheFile, IsRead, CollectInv, MirrorInv, IsBuilt
  <1> QED BY <1>1, <1>2

\* No line of the file has been read, and none is in the lists.
LEMMA InitInvariant == Init => IInv
  <1> SUFFICES ASSUME Init PROVE IInv
    OBVIOUS
  <1> USE DEF Init
  <1>1. FileInv
    <2>1. \/ file.mode = "VERTEX_LIST" /\ file.lines \in VertexListFiles
          \/ file.mode = "EDGE_LIST" /\ file.lines \in EdgeListFiles
      OBVIOUS
    <2> QED BY <2>1, BuildAssumption DEF FileInv, Modes, lines
  <1>2. /\ lines_read = 0 /\ adj_list = <<>> /\ max = 0 /\ adjacency_list = <<>>
        /\ from = 0 /\ position = 0 /\ pc = "read"
        /\ forward_offset_array_ = << 0 >> /\ backward_offset_array_ = << 0 >>
        /\ forward_edges_ = <<>> /\ backward_edges_ = <<>>
        /\ inverse \in BOOLEAN /\ random_edge_weights \in BOOLEAN
        /\ contains_meta_data = HasLine("meta")
    OBVIOUS
  <1> HIDE DEF Init
  <1>3. Len(lines) \in Nat
    BY <1>1 DEF FileInv, Modes
  <1>4. TypeOK
    BY <1>1, <1>2, <1>3 DEF TypeOK, FileInv, Modes, lines, HasLine
  <1>5. /\ OffsetsCover(forward_offset_array_, forward_edges_)
        /\ OffsetsCover(backward_offset_array_, backward_edges_)
    BY <1>2 DEF OffsetsCover
  <1>6. SkipInv
    BY <1>2 DEF SkipInv
  <1>7. getNumberOfNodes = 0 /\ NodeIds = {}
    BY <1>2 DEF getNumberOfNodes, NodeIds
  <1>8. EdgeListInv
    <2> SUFFICES ASSUME file.mode = "EDGE_LIST" PROVE ListsHoldTheLines
      BY <1>2 DEF EdgeListInv
    <2>1. ASSUME NEW n \in Nat PROVE AdjListOf(n) = EdgesFrom(LinesFrom(n, lines)[lines_read])
      <3>1. lines \in Seq(EdgeListLine)
        BY <1>1 DEF FileInv
      <3> DEFINE keep == [i \in 1..Len(lines) |-> lines[i].kind = "edge" /\ lines[i].from = n]
      <3>2. keep \in [1..Len(lines) -> BOOLEAN]
        OBVIOUS
      <3> HIDE DEF keep
      <3>3. Picks(lines, keep)[0] = <<>>
        BY <3>1, <3>2, PicksFollow
      <3>4. LinesFrom(n, lines)[0] = <<>>
        BY <3>3 DEF LinesFrom, keep
      <3> QED BY <1>2, <3>4 DEF AdjListOf, EdgesFrom
    <2> QED BY <1>2, <2>1 DEF ListsHoldTheLines
  <1>9. VertexListInv
    <2> SUFFICES ASSUME file.mode = "VERTEX_LIST"
                 PROVE  Parsed(forward_edges_, Len(lines) - MetaLines)
                           /\ 0 = Len(VertexLines(lines)[lines_read])
      BY <1>2, <1>7 DEF VertexListInv
    <2>1. lines \in Seq(VertexListLine)
      BY <1>1 DEF FileInv
    <2> DEFINE keep == [i \in 1..Len(lines) |-> lines[i].kind = "vertex"]
    <2>2. keep \in [1..Len(lines) -> BOOLEAN]
      OBVIOUS
    <2> HIDE DEF keep
    <2>3. Picks(lines, keep)[0] = <<>>
      BY <2>1, <2>2, PicksFollow
    <2>4. VertexLines(lines)[0] = <<>>
      BY <2>3 DEF VertexLines, keep
    <2> QED BY <1>2, <2>4 DEF Parsed
  <1>10. ArraysHoldTheFile /\ CollectInv /\ MirrorInv /\ (IsBuilt => Built)
    BY <1>2 DEF ArraysHoldTheFile, IsRead, CollectInv, MirrorInv, IsBuilt
  <1> QED BY <1>1, <1>4, <1>5, <1>6, <1>8, <1>9, <1>10 DEF IInv

\* A line that is skipped has neither a node nor an edge.
LEMMA SkipLineStep == ASSUME IInv, SkipLine PROVE IInv'
  <1>1. /\ LinesLeft /\ SkipsLine(Line) /\ pc = "read" /\ pc' = "read"
        /\ contains_meta_data' = FALSE /\ lines_read' = lines_read + 1
        /\ file' = file /\ inverse' = inverse /\ random_edge_weights' = random_edge_weights
        /\ adj_list' = adj_list /\ max' = max /\ adjacency_list' = adjacency_list
        /\ from' = from /\ position' = position
        /\ forward_offset_array_' = forward_offset_array_ /\ forward_edges_' = forward_edges_
        /\ backward_offset_array_' = backward_offset_array_ /\ backward_edges_' = backward_edges_
    BY DEF SkipLine, LinesLeft, parameters, collector, forward, backward
  <1>2. /\ lines_read + 1 \in 1..Len(lines) /\ Line = lines[lines_read + 1]
        /\ Line.kind = "meta" => lines_read = 0
        /\ HasLine("meta") /\ lines_read = 0 => Line.kind = "meta"
    BY <1>1, LineIs
  <1>3. /\ lines_read \in Nat /\ Len(lines) \in Nat /\ lines' = lines
        /\ (HasLine("meta"))' = HasLine("meta") /\ (HasLine("blank"))' = HasLine("blank")
    BY <1>1, <1>2 DEF IInv, TypeOK, HasLine, lines, FileInv, Modes
  <1>4. contains_meta_data => HasLine("meta") /\ lines_read = 0 /\ Line.kind = "meta"
    BY <1>2 DEF IInv, SkipInv
  <1>5. Line.kind \notin {"edge", "vertex"}
    BY <1>1, <1>4 DEF SkipsLine
  <1>6. TypeOK'
    <2>1. TypeOK /\ lines_read' \in 0..Len(file.lines)
      BY <1>1, <1>2, <1>3 DEF IInv, lines
    <2> QED BY <1>1, <2>1 DEF TypeOK
  <1>7. OffsetsCover(forward_offset_array_, forward_edges_)'
    BY <1>1 DEF IInv, OffsetsCover
  <1>8. FileInv'
    BY <1>1, <1>3 DEF IInv, FileInv
  <1>9. SkipInv'
    BY <1>1, <1>2, <1>3 DEF SkipInv
  <1>10. EdgeListInv'
    <2> SUFFICES ASSUME file.mode = "EDGE_LIST" PROVE ListsHoldTheLines'
      BY <1>1 DEF IInv, EdgeListInv
    <2>1. ListsHoldTheLines /\ lines \in Seq(EdgeListLine)
      BY DEF IInv, EdgeListInv, FileInv
    <2>2. HasCustomWeights' = HasCustomWeights
      BY <1>1 DEF HasCustomWeights
    <2>3. (\A n \in DOMAIN adj_list : Parsed(adj_list[n], max + 1))'
      BY <1>1, <2>1, <2>2 DEF ListsHoldTheLines, Parsed
    <2>4. ASSUME NEW i \in 1..lines_read', lines[i].kind = "edge"
          PROVE  lines[i].from <= max /\ lines[i].to <= max
      <3>1. i # lines_read + 1
        BY <1>2, <1>5, <2>4
      <3>2. i \in 1..lines_read
        BY <1>1, <1>3, <3>1
      <3> QED BY <2>1, <2>4, <3>2 DEF ListsHoldTheLines
    <2>5. ASSUME Plain', NEW n \in Nat
          PROVE  AdjListOf(n)' = EdgesFrom(LinesFrom(n, lines)[lines_read'])
      <3>1. LinesFrom(n, lines)[lines_read + 1] = LinesFrom(n, lines)[lines_read]
        <4>1. (lines_read + 1) - 1 = lines_read
          BY <1>3
        <4> QED BY <1>2, <1>5, <2>1, <4>1, LinesFromFollow
      <3>2. AdjListOf(n) = EdgesFrom(LinesFrom(n, lines)[lines_read])
        BY <1>3, <2>1, <2>5 DEF ListsHoldTheLines, Plain
      <3>3. AdjListOf(n)' = AdjListOf(n)
        BY <1>1 DEF AdjListOf
      <3> QED BY <1>1, <3>1, <3>2, <3>3
    <2> QED BY <1>1, <1>3, <2>3, <2>4, <2>5 DEF ListsHoldTheLines
  <1>11. VertexListInv'
    <2> SUFFICES ASSUME file.mode = "VERTEX_LIST" PROVE VertexListInv'
      BY <1>1 DEF VertexListInv
    <2>1. lines \in Seq(VertexListLine)
      BY DEF IInv, FileInv
    <2>2. contains_meta_data
      BY <1>1 DEF SkipsLine
    <2>3. HasLine("meta") /\ lines_read = 0
      BY <1>4, <2>2
    <2>4. /\ getNumberOfNodes = 0 /\ Parsed(forward_edges_, Len(lines) - MetaLines)
          /\ Plain => 0 = Len(VertexLines(lines)[lines_read])
      BY <1>1, <1>3, <2>3 DEF IInv, VertexListInv
    <2>5. VertexLines(lines)[lines_read + 1] = VertexLines(lines)[lines_read]
      <3>1. (lines_read + 1) - 1 = lines_read
        BY <1>3
      <3> QED BY <1>2, <1>5, <2>1, <3>1, VertexLinesFollow
    <2>6. getNumberOfNodes' = 0 /\ MetaLines' = 1 /\ MetaLines = 1 /\ NodeIds' = {}
      <3>1. getNumberOfNodes' = getNumberOfNodes
        BY <1>1 DEF getNumberOfNodes
      <3>2. MetaLines' = 1 /\ MetaLines = 1
        BY <1>3, <2>3 DEF MetaLines
      <3>3. NodeIds' = {}
        BY <2>4, <3>1 DEF NodeIds
      <3> QED BY <2>4, <3>1, <3>2, <3>3
    <2>7. Parsed(forward_edges_, Len(lines) - MetaLines)'
      BY <1>1, <1>3, <2>4, <2>6 DEF Parsed, HasCustomWeights
    <2>8. getNumberOfNodes' = lines_read' - (IF lines_read' = 0 THEN 0 ELSE MetaLines')
      BY <1>1, <1>3, <2>3, <2>6
    <2>9. Plain' => 0 = Len(VertexLines(lines')[lines_read'])
      BY <1>1, <1>3, <2>4, <2>5 DEF Plain
    <2> QED BY <1>1, <2>6, <2>7, <2>8, <2>9 DEF VertexListInv
  <1>12. backward_offset_array_' = << 0 >> /\ backward_edges_' = <<>>
    BY <1>1 DEF IInv, CollectInv
  <1> QED BY <1>1, <1>6, <1>7, <1>8, <1>9, <1>10, <1>11, <1>12, NotReadYet DEF IInv

\* What appendNode does to the forward arrays.
LEMMA AppendNodeIs ==
    ASSUME IInv, NEW more \in Seq(Edge), appendNode(more)
    PROVE  /\ forward_edges_' \in Seq(Edge) /\ forward_offset_array_' \in Seq(Nat)
           /\ OffsetsCover(forward_offset_array_, forward_edges_)'
           /\ getNumberOfNodes' = getNumberOfNodes + 1 /\ getNumberOfNodes \in Nat
           /\ Len(forward_edges_') = Len(forward_edges_) + Len(more)
           /\ \A i \in 1..Len(forward_edges_) : forward_edges_'[i] = forward_edges_[i]
           /\ \A i \in 1..Len(more) : forward_edges_'[Len(forward_edges_) + i] = more[i]
           /\ \A n \in NodeIds : getEdgesOf(n)' = getEdgesOf(n)
           /\ \A n \in Nat : n = getNumberOfNodes => getEdgesOf(n)' = more
           /\ \A n \in NodeIds' : n \in NodeIds \/ n = getNumberOfNodes
  <1>1. forward_edges_ \in Seq(Edge) /\ Offsets(forward_offset_array_, forward_edges_)
    BY DEF IInv, TypeOK, Offsets
  <1>2. /\ Len(forward_offset_array_) \in Nat /\ Len(forward_offset_array_) > 0
    BY <1>1 DEF Offsets, OffsetsCover
  <1>3. /\ forward_edges_' = forward_edges_ \o more
        /\ forward_offset_array_' = Append(forward_offset_array_, Len(forward_edges_) + Len(more))
    BY DEF appendNode
  <1>4. /\ forward_edges_' \in Seq(Edge) /\ Offsets(forward_offset_array_', forward_edges_')
        /\ Len(forward_offset_array_') = Len(forward_offset_array_) + 1
        /\ Len(forward_edges_') = Len(forward_edges_) + Len(more)
        /\ \A i \in 1..Len(forward_edges_) : forward_edges_'[i] = forward_edges_[i]
        /\ \A i \in 1..Len(more) : forward_edges_'[Len(forward_edges_) + i] = more[i]
        /\ \A n \in 0..(Len(forward_offset_array_) - 2) :
              Span(forward_offset_array_', forward_edges_', n)
                = Span(forward_offset_array_, forward_edges_, n)
        /\ Span(forward_offset_array_', forward_edges_', Len(forward_offset_array_) - 1) = more
    <2>1. LET longer == Append(forward_offset_array_, Len(forward_edges_) + Len(more))
              joined == forward_edges_ \o more
          IN  /\ joined \in Seq(Edge) /\ Offsets(longer, joined)
              /\ Len(longer) = Len(forward_offset_array_) + 1
              /\ Len(joined) = Len(forward_edges_) + Len(more)
              /\ \A i \in 1..Len(forward_edges_) : joined[i] = forward_edges_[i]
              /\ \A i \in 1..Len(more) : joined[Len(forward_edges_) + i] = more[i]
              /\ \A n \in 0..(Len(forward_offset_array_) - 2) :
                    Span(longer, joined, n) = Span(forward_offset_array_, forward_edges_, n)
              /\ Span(longer, joined, Len(forward_offset_array_) - 1) = more
      BY <1>1, SpanAppends
    <2> QED BY <1>3, <2>1, Zenon
  <1>5. /\ getNumberOfNodes \in Nat /\ getNumberOfNodes' = getNumberOfNodes + 1
        /\ getNumberOfNodes - 1 = Len(forward_offset_array_) - 2
    BY <1>2, <1>4 DEF getNumberOfNodes
  <1>6. \A n \in NodeIds : getEdgesOf(n)' = getEdgesOf(n)
    BY <1>4, <1>5 DEF NodeIds, getEdgesOf
  <1>7. \A n \in Nat : n = getNumberOfNodes => getEdgesOf(n)' = more
    BY <1>4 DEF getNumberOfNodes, getEdgesOf
  <1>8. \A n \in NodeIds' : n \in NodeIds \/ n = getNumberOfNodes
    BY <1>5 DEF NodeIds
  <1> QED BY <1>4, <1>5, <1>6, <1>7, <1>8 DEF Offsets

\* A line of a vertex list is one node more, with the neighbours of the line.
LEMMA ReadVertexLineStep == ASSUME IInv, ReadVertexLine PROVE IInv'
  <1> DEFINE more == parseVertexListLine(Line)
  <1>1. /\ LinesLeft /\ ~SkipsLine(Line) /\ pc = "read" /\ pc' = "read"
        /\ file.mode = "VERTEX_LIST" /\ appendNode(more)
        /\ contains_meta_data' = contains_meta_data /\ lines_read' = lines_read + 1
        /\ file' = file /\ inverse' = inverse /\ random_edge_weights' = random_edge_weights
        /\ adj_list' = adj_list /\ max' = max /\ adjacency_list' = adjacency_list
        /\ from' = from /\ position' = position
        /\ backward_offset_array_' = backward_offset_array_ /\ backward_edges_' = backward_edges_
    BY DEF ReadVertexLine, LinesLeft, parameters, collector, backward
  <1>2. /\ lines_read + 1 \in 1..Len(lines) /\ Line = lines[lines_read + 1]
        /\ Line \in VertexListLine /\ lines \in Seq(VertexListLine)
        /\ Plain => Line.kind # "blank"
        /\ Line.kind = "meta" => lines_read = 0
        /\ HasLine("meta") /\ lines_read = 0 => Line.kind = "meta"
    BY <1>1, LineIs DEF IInv, FileInv
  <1>3. /\ lines_read \in Nat /\ Len(lines) \in Nat /\ lines' = lines
        /\ DOMAIN lines = 1..Len(lines)
        /\ (HasLine("meta"))' = HasLine("meta") /\ (HasLine("blank"))' = HasLine("blank")
        /\ MetaLines' = MetaLines /\ MetaLines \in {0, 1}
    BY <1>1, <1>2 DEF IInv, TypeOK, HasLine, lines, MetaLines
  <1>4. Line.kind # "meta" /\ (Plain => Line.kind = "vertex")
    <2>1. Line.kind = "meta" => HasLine("meta")
      BY <1>2, <1>3 DEF HasLine, Range, lines
    <2>2. ~contains_meta_data
      BY <1>1 DEF SkipsLine
    <2> QED BY <1>2, <2>1, <2>2 DEF IInv, SkipInv, VertexListLine
  <1>5. /\ more \in Seq(Edge)
        /\ Line.kind # "blank" => Len(more) = Len(Line.neighbours)
        /\ \A i \in 1..Len(more) : /\ more[i].weight = NaN
                                   /\ i \in 1..Len(Line.neighbours) /\ Line.kind # "blank"
                                   /\ more[i].destination = Line.neighbours[i]
    BY <1>2, VertexLineIs
  <1> HIDE DEF more
  <1>6. /\ forward_edges_' \in Seq(Edge) /\ forward_offset_array_' \in Seq(Nat)
        /\ OffsetsCover(forward_offset_array_, forward_edges_)'
        /\ getNumberOfNodes' = getNumberOfNodes + 1 /\ getNumberOfNodes \in Nat
        /\ Len(forward_edges_') = Len(forward_edges_) + Len(more)
        /\ \A i \in 1..Len(forward_edges_) : forward_edges_'[i] = forward_edges_[i]
        /\ \A i \in 1..Len(more) : forward_edges_'[Len(forward_edges_) + i] = more[i]
        /\ \A n \in NodeIds : getEdgesOf(n)' = getEdgesOf(n)
        /\ \A n \in Nat : n = getNumberOfNodes => getEdgesOf(n)' = more
        /\ \A n \in NodeIds' : n \in NodeIds \/ n = getNumberOfNodes
    BY <1>1, <1>5, AppendNodeIs
  <1>7. TypeOK'
    <2>1. TypeOK /\ lines_read' \in 0..Len(file.lines)
      BY <1>1, <1>2, <1>3 DEF IInv, lines
    <2> QED BY <1>1, <1>6, <2>1 DEF TypeOK
  <1>8. FileInv' /\ EdgeListInv'
    BY <1>1, <1>3 DEF IInv, FileInv, EdgeListInv
  <1>9. SkipInv'
    <2>1. contains_meta_data = FALSE
      BY <1>1 DEF SkipsLine, IInv, TypeOK
    <2> QED BY <1>1, <1>3, <2>1 DEF SkipInv
  <1>10. VertexListInv'
    <2>1. /\ getNumberOfNodes = lines_read - (IF lines_read = 0 THEN 0 ELSE MetaLines)
          /\ Parsed(forward_edges_, Len(lines) - MetaLines)
          /\ Plain => LET data == VertexLines(lines)[lines_read]
                      IN  /\ getNumberOfNodes = Len(data)
                          /\ \A n \in NodeIds : getEdgesOf(n) = parseVertexListLine(data[n + 1])
      BY <1>1 DEF IInv, VertexListInv
    <2>2. getNumberOfNodes' = lines_read' - (IF lines_read' = 0 THEN 0 ELSE MetaLines')
      <3>1. lines_read = 0 => MetaLines = 0
        BY <1>2, <1>4 DEF MetaLines
      <3> HIDE DEF getNumberOfNodes, MetaLines
      <3> QED BY <1>1, <1>3, <1>6, <2>1, <3>1
    <2>3. Parsed(forward_edges_, Len(lines) - MetaLines)'
      <3>1. ASSUME NEW i \in 1..Len(more)
            PROVE  more[i].destination < Len(lines) - MetaLines /\ more[i].weight = NaN
        <4>1. Line.kind = "vertex"
          BY <1>2, <1>4, <1>5 DEF VertexListLine
        <4>2. /\ i \in 1..Len(Line.neighbours) /\ more[i].destination = Line.neighbours[i]
              /\ more[i].weight = NaN
          BY <1>5
        <4>3. Line.neighbours[i] + (IF lines[1].kind = "meta" THEN 1 ELSE 0) < Len(lines)
          BY <1>1, <1>2, <4>1, <4>2 DEF IInv, FileInv, NeighboursAreNodes
        <4>4. HasLine("meta") <=> lines[1].kind = "meta"
          <5>1. 1 \in 1..Len(lines)
            BY <1>2, <1>3
          <5>2. lines[1].kind = "meta" => HasLine("meta")
            BY <1>3, <5>1 DEF HasLine, Range, lines
          <5>3. ASSUME HasLine("meta") PROVE lines[1].kind = "meta"
            <6>1. PICK k \in 1..Len(lines) : lines[k].kind = "meta"
              BY <1>3, <5>3 DEF HasLine, Range, lines
            <6> QED BY <6>1 DEF IInv, FileInv, MetaComesFirst
          <5> QED BY <5>2, <5>3
        <4>5. Line.neighbours[i] \in Nat
          BY <1>2, <4>2 DEF VertexListLine
        <4> QED BY <1>3, <4>2, <4>3, <4>4, <4>5 DEF MetaLines
      <3>2. ASSUME NEW i \in 1..Len(forward_edges_')
            PROVE  /\ forward_edges_'[i].destination < Len(lines) - MetaLines
                   /\ ~HasCustomWeights => forward_edges_'[i].weight = NaN
        <4>1. Len(forward_edges_) \in Nat /\ Len(more) \in Nat
          BY <1>5 DEF IInv, TypeOK
        <4>2. CASE i <= Len(forward_edges_)
          <5>1. i \in 1..Len(forward_edges_)
            BY <4>1, <4>2
          <5> QED BY <1>6, <2>1, <5>1 DEF Parsed
        <4>3. CASE i > Len(forward_edges_)
          <5>1. /\ i - Len(forward_edges_) \in 1..Len(more)
                /\ Len(forward_edges_) + (i - Len(forward_edges_)) = i
            BY <1>6, <4>1, <4>3
          <5>2. forward_edges_'[i] = more[i - Len(forward_edges_)]
            BY <1>6, <5>1
          <5> QED BY <3>1, <5>1, <5>2
        <4> QED BY <4>1, <4>2, <4>3
      <3>3. HasCustomWeights' = HasCustomWeights
        BY <1>1 DEF HasCustomWeights
      <3> QED BY <1>3, <3>2, <3>3 DEF Parsed
    <2>4. ASSUME Plain'
          PROVE  LET data == VertexLines(lines)[lines_read + 1]
                 IN  /\ getNumberOfNodes' = Len(data)
                     /\ \A n \in NodeIds' : getEdgesOf(n)' = parseVertexListLine(data[n + 1])
      <3> DEFINE data == VertexLines(lines)[lines_read]
      <3>1. /\ getNumberOfNodes = Len(data)
            /\ \A n \in NodeIds : getEdgesOf(n) = parseVertexListLine(data[n + 1])
            /\ Line.kind = "vertex"
        BY <1>3, <1>4, <2>1, <2>4 DEF Plain
      <3>2. /\ data \in Seq(VertexListLine)
            /\ VertexLines(lines)[lines_read + 1] = Append(data, Line)
        <4>1. (lines_read + 1) - 1 = lines_read /\ lines_read \in 0..Len(lines)
          BY <1>2, <1>3
        <4> QED BY <1>2, <3>1, <4>1, VertexLinesFollow
      <3> HIDE DEF data
      <3>3. /\ Len(Append(data, Line)) = Len(data) + 1 /\ Len(data) \in Nat
            /\ \A i \in 1..Len(data) : Append(data, Line)[i] = data[i]
            /\ Append(data, Line)[Len(data) + 1] = Line
        BY <1>2, <3>2
      <3>4. ASSUME NEW n \in NodeIds'
            PROVE  getEdgesOf(n)' = parseVertexListLine(Append(data, Line)[n + 1])
        <4>1. CASE n \in NodeIds
          <5>1. n + 1 \in 1..Len(data)
            BY <1>6, <3>1, <4>1 DEF NodeIds
          <5> QED BY <1>6, <3>1, <3>3, <4>1, <5>1
        <4>2. CASE n = getNumberOfNodes
          <5>1. n \in Nat
            BY <1>6, <4>2
          <5>2. getEdgesOf(n)' = more
            BY <1>6, <4>2, <5>1
          <5>3. Append(data, Line)[n + 1] = Line
            BY <3>1, <3>3, <4>2
          <5> QED BY <5>2, <5>3 DEF more
        <4> QED BY <1>6, <4>1, <4>2
      <3> QED BY <1>6, <3>1, <3>2, <3>3, <3>4
    <2>5. Plain' => LET data == VertexLines(lines')[lines_read']
                    IN  /\ getNumberOfNodes' = Len(data)
                        /\ \A n \in NodeIds' : getEdgesOf(n)' = parseVertexListLine(data[n + 1])
      BY <1>1, <1>3, <2>4
    <2> QED BY <1>1, <2>2, <2>3, <2>5 DEF VertexListInv
  <1>11. backward_offset_array_' = << 0 >> /\ backward_edges_' = <<>>
    BY <1>1 DEF IInv, CollectInv
  <1> QED BY <1>1, <1>6, <1>7, <1>8, <1>9, <1>10, <1>11, NotReadYet DEF IInv

\* A line of an edge list is one edge more in the list of its tail.
LEMMA ReadEdgeLineStep == ASSUME IInv, ReadEdgeLine PROVE IInv'
  <1> DEFINE edge == parseEdgeListLine(Line)
             new == EdgeTo(edge.to, edge.weight)
  <1>1. /\ LinesLeft /\ ~SkipsLine(Line) /\ pc = "read" /\ pc' = "read"
        /\ file.mode = "EDGE_LIST"
        /\ adj_list' = WithEdge(edge) /\ max' = Larger(Larger(max, edge.from), edge.to)
        /\ contains_meta_data' = contains_meta_data /\ lines_read' = lines_read + 1
        /\ file' = file /\ inverse' = inverse /\ random_edge_weights' = random_edge_weights
        /\ adjacency_list' = adjacency_list /\ from' = from /\ position' = position
        /\ forward_offset_array_' = forward_offset_array_ /\ forward_edges_' = forward_edges_
        /\ backward_offset_array_' = backward_offset_array_ /\ backward_edges_' = backward_edges_
    BY DEF ReadEdgeLine, LinesLeft, parameters, collector, forward, backward
  <1>2. /\ lines_read + 1 \in 1..Len(lines) /\ Line = lines[lines_read + 1]
        /\ Line \in EdgeListLine /\ lines \in Seq(EdgeListLine)
        /\ Plain => Line.kind # "blank"
        /\ Line.kind = "meta" => lines_read = 0
    BY <1>1, LineIs DEF IInv, FileInv
  <1>3. /\ lines_read \in Nat /\ Len(lines) \in Nat /\ lines' = lines
        /\ DOMAIN lines = 1..Len(lines)
        /\ (HasLine("meta"))' = HasLine("meta") /\ (HasLine("blank"))' = HasLine("blank")
        /\ HasCustomWeights' = HasCustomWeights
    BY <1>1, <1>2 DEF IInv, TypeOK, HasLine, lines, HasCustomWeights
  <1>4. Line.kind \in {"edge", "blank"} /\ (Plain => Line.kind = "edge")
    <2>1. Line.kind = "meta" => HasLine("meta")
      BY <1>2, <1>3 DEF HasLine, Range, lines
    <2>2. ~contains_meta_data /\ Line.kind # "comment"
      BY <1>1 DEF SkipsLine
    <2> QED BY <1>2, <2>1, <2>2 DEF IInv, SkipInv, EdgeListLine
  <1>5. /\ edge.from \in Nat /\ edge.to \in Nat /\ edge.weight \in AllWeights
        /\ Line.kind = "edge" =>
              edge.from = Line.from /\ edge.to = Line.to /\ edge.weight = Line.weight
        /\ Line.kind = "blank" => edge.weight = NaN
    BY <1>2, EdgeLineIs
  <1> HIDE DEF edge
  <1>6. new \in Edge /\ new.destination = edge.to /\ new.weight = edge.weight
    BY <1>5, EdgeIs
  <1>7. ~HasCustomWeights => edge.weight = NaN
    <2>1. Line.kind = "edge" /\ Line.weight # NaN => HasCustomWeights
      BY <1>2, <1>3 DEF HasCustomWeights, Range, lines
    <2> QED BY <1>4, <1>5, <2>1
  <1>8. /\ TypeOK /\ max \in Nat /\ DOMAIN adj_list \subseteq 0..max
        /\ \A n \in DOMAIN adj_list : adj_list[n] \in Seq(Edge)
        /\ ListsHoldTheLines
    BY <1>1 DEF IInv, TypeOK, EdgeListInv
  <1>9. /\ max' \in Nat /\ max <= max' /\ edge.from <= max' /\ edge.to <= max'
    BY <1>1, <1>5, <1>8 DEF Larger
  <1>10. /\ DOMAIN adj_list' = DOMAIN adj_list \cup {edge.from}
         /\ \A n \in DOMAIN adj_list : n # edge.from => adj_list'[n] = adj_list[n]
         /\ adj_list'[edge.from] = Append(AdjListOf(edge.from), new)
         /\ \A n \in Nat : AdjListOf(n) \in Seq(Edge)
         /\ \A n \in DOMAIN adj_list' : adj_list'[n] \in Seq(Edge)
    BY <1>1, <1>5, <1>8, WithEdgeIs
  <1> HIDE DEF new
  <1>11. TypeOK'
    <2>1. lines_read' \in 0..Len(file.lines)
      BY <1>1, <1>2, <1>3 DEF lines
    <2>2. DOMAIN adj_list' \subseteq 0..max'
      BY <1>5, <1>8, <1>9, <1>10
    <2> QED BY <1>1, <1>8, <1>9, <1>10, <2>1, <2>2 DEF TypeOK
  <1>12. FileInv' /\ VertexListInv' /\ OffsetsCover(forward_offset_array_, forward_edges_)'
    BY <1>1, <1>3 DEF IInv, FileInv, VertexListInv, OffsetsCover
  <1>13. SkipInv'
    <2>1. contains_meta_data = FALSE
      BY <1>1, <1>8 DEF SkipsLine, TypeOK
    <2> QED BY <1>1, <1>3, <2>1 DEF SkipInv
  <1>14. ASSUME NEW n \in DOMAIN adj_list' PROVE Parsed(adj_list[n], max + 1)'
    <2>1. ASSUME NEW m \in DOMAIN adj_list, NEW i \in 1..Len(adj_list[m])
          PROVE  adj_list[m][i].destination < max' + 1
                    /\ (~HasCustomWeights => adj_list[m][i].weight = NaN)
      <3>1. /\ adj_list[m][i].destination < max + 1
            /\ ~HasCustomWeights => adj_list[m][i].weight = NaN
        BY <1>8 DEF ListsHoldTheLines, Parsed
      <3>2. adj_list[m][i].destination \in Nat
        <4>1. adj_list[m] \in Seq(Edge)
          BY <1>8
        <4>2. adj_list[m][i] \in Edge
          BY <4>1
        <4> QED BY <4>2 DEF Edge
      <3> QED BY <1>8, <1>9, <3>1, <3>2
    <2>2. CASE n # edge.from
      <3>1. n \in DOMAIN adj_list /\ adj_list'[n] = adj_list[n]
        BY <1>10, <2>2
      <3> QED BY <1>3, <2>1, <3>1 DEF Parsed
    <2>3. CASE n = edge.from
      <3> DEFINE old == AdjListOf(edge.from)
      <3>1. old \in Seq(Edge) /\ adj_list'[n] = Append(old, new)
        BY <1>5, <1>10, <2>3
      <3>2. \A i \in 1..Len(old) : /\ old[i].destination < max' + 1
                                   /\ ~HasCustomWeights => old[i].weight = NaN
        BY <2>1 DEF AdjListOf
      <3>3. new.destination < max' + 1 /\ (~HasCustomWeights => new.weight = NaN)
        BY <1>5, <1>6, <1>7, <1>9
      <3> HIDE DEF old
      <3>4. /\ Len(Append(old, new)) = Len(old) + 1 /\ Len(old) \in Nat
            /\ \A i \in 1..Len(old) : Append(old, new)[i] = old[i]
            /\ Append(old, new)[Len(old) + 1] = new
        BY <1>6, <3>1
      <3>5. ASSUME NEW i \in 1..Len(Append(old, new))
            PROVE  /\ Append(old, new)[i].destination < max' + 1
                   /\ ~HasCustomWeights => Append(old, new)[i].weight = NaN
        <4>1. i \in 1..Len(old) \/ i = Len(old) + 1
          BY <3>4
        <4> QED BY <3>2, <3>3, <3>4, <4>1
      <3> QED BY <1>3, <3>1, <3>5 DEF Parsed
    <2> QED BY <2>2, <2>3
  <1>15. ASSUME NEW i \in 1..lines_read', lines[i].kind = "edge"
         PROVE  lines[i].from <= max' /\ lines[i].to <= max'
    <2>1. CASE i = lines_read + 1
      BY <1>2, <1>5, <1>9, <1>15, <2>1
    <2>2. CASE i # lines_read + 1
      <3>1. i \in 1..lines_read
        BY <1>1, <1>3, <2>2
      <3>2. lines[i].from <= max /\ lines[i].to <= max
        BY <1>8, <1>15, <3>1 DEF ListsHoldTheLines
      <3>3. lines[i].from \in Nat /\ lines[i].to \in Nat
        <4>1. lines[i] \in EdgeListLine
          BY <1>2, <1>3, <3>1
        <4> QED BY <4>1 DEF EdgeListLine
      <3> QED BY <1>8, <1>9, <3>2, <3>3
    <2> QED BY <2>1, <2>2
  <1>16. ASSUME Plain', NEW n \in Nat
         PROVE  AdjListOf(n)' = EdgesFrom(LinesFrom(n, lines)[lines_read + 1])
    <2> DEFINE picked == LinesFrom(n, lines)[lines_read]
    <2>1. Line.kind = "edge" /\ AdjListOf(n) = EdgesFrom(picked)
      BY <1>3, <1>4, <1>8, <1>16 DEF Plain, ListsHoldTheLines
    <2>2. /\ picked \in Seq(EdgeListLine)
          /\ LinesFrom(n, lines)[lines_read + 1] =
                IF Line.from = n THEN Append(picked, Line) ELSE picked
      <3>1. (lines_read + 1) - 1 = lines_read /\ lines_read \in 0..Len(lines)
        BY <1>2, <1>3
      <3> QED BY <1>2, <2>1, <3>1, LinesFromFollow
    <2> HIDE DEF picked
    <2>3. CASE n = edge.from
      <3>1. AdjListOf(n)' = Append(AdjListOf(n), new)
        BY <1>10, <2>3 DEF AdjListOf
      <3>2. EdgesFrom(Append(picked, Line)) = Append(EdgesFrom(picked), EdgeTo(Line.to, Line.weight))
        BY <1>2, <2>2, EdgesFromAppends
      <3>3. new = EdgeTo(Line.to, Line.weight) /\ Line.from = n
        BY <1>5, <2>1, <2>3 DEF new
      <3> QED BY <2>1, <2>2, <3>1, <3>2, <3>3
    <2>4. CASE n # edge.from
      <3>1. AdjListOf(n)' = AdjListOf(n)
        BY <1>10, <2>4 DEF AdjListOf
      <3> QED BY <1>5, <2>1, <2>2, <2>4, <3>1
    <2> QED BY <2>3, <2>4
  <1>17. EdgeListInv'
    <2>1. ListsHoldTheLines'
      <3>1. (\A n \in DOMAIN adj_list : Parsed(adj_list[n], max + 1))'
        BY <1>14
      <3>2. (\A i \in 1..lines_read :
                lines[i].kind = "edge" => lines[i].from <= max /\ lines[i].to <= max)'
        BY <1>3, <1>15
      <3>3. (Plain => \A n \in Nat : AdjListOf(n) = EdgesFrom(LinesFrom(n, lines)[lines_read]))'
        BY <1>1, <1>3, <1>16
      <3> QED BY <3>1, <3>2, <3>3 DEF ListsHoldTheLines
    <2> QED BY <1>1, <2>1 DEF IInv, EdgeListInv
  <1>18. backward_offset_array_' = << 0 >> /\ backward_edges_' = <<>>
    BY <1>1 DEF IInv, CollectInv
  <1> QED BY <1>1, <1>11, <1>12, <1>13, <1>17, <1>18, NotReadYet DEF IInv

-----------------------------------------------------------------------------
(* The steps that append the lists of an edge list.                        *)

\* Once the file is read, what is said of it stays.
LEMMA AlreadyRead ==
    ASSUME IInv, UNCHANGED <<parameters, reader>>, lines_read = Len(lines), pc' # "read"
    PROVE  /\ file' = file /\ inverse' = inverse /\ random_edge_weights' = random_edge_weights
           /\ adj_list' = adj_list /\ max' = max /\ lines_read' = lines_read
           /\ contains_meta_data' = contains_meta_data
           /\ lines' = lines /\ Plain' = Plain /\ HasCustomWeights' = HasCustomWeights
           /\ FileInv' /\ SkipInv'
           /\ file.mode = "EDGE_LIST" => ListsHoldTheLines'
           /\ pc' # "append" => EdgeListInv' /\ VertexListInv'
  <1>1. /\ file' = file /\ inverse' = inverse /\ random_edge_weights' = random_edge_weights
        /\ adj_list' = adj_list /\ max' = max /\ lines_read' = lines_read
        /\ contains_meta_data' = contains_meta_data
    BY DEF parameters, reader
  <1>2. /\ lines' = lines /\ HasLine("meta")' = HasLine("meta")
        /\ Plain' = Plain /\ HasCustomWeights' = HasCustomWeights
    BY <1>1 DEF lines, HasLine, HasCustomWeights, Plain
  <1>3. FileInv'
    BY <1>1, <1>2 DEF IInv, FileInv
  <1>4. SkipInv'
    BY <1>1, <1>2 DEF IInv, SkipInv
  <1>5. ASSUME file.mode = "EDGE_LIST" PROVE ListsHoldTheLines'
    <2>1. ListsHoldTheLines
      BY <1>5 DEF IInv, EdgeListInv
    <2>2. \A n : AdjListOf(n)' = AdjListOf(n)
      BY <1>1 DEF AdjListOf
    <2> QED BY <1>1, <1>2, <2>1, <2>2 DEF ListsHoldTheLines, Parsed
  <1>6. pc' # "append" => EdgeListInv' /\ VertexListInv'
    BY <1>1, <1>5 DEF EdgeListInv, VertexListInv
  <1> QED BY <1>1, <1>2, <1>3, <1>4, <1>5, <1>6

\* The nodes that the graph has depend on the length of the offset arrays alone.
LEMMA ForwardSame ==
    ASSUME UNCHANGED forward
    PROVE  /\ forward_offset_array_' = forward_offset_array_ /\ forward_edges_' = forward_edges_
           /\ getNumberOfNodes' = getNumberOfNodes /\ NodeIds' = NodeIds
           /\ \A n : getEdgesOf(n)' = getEdgesOf(n)
  BY DEF forward, getNumberOfNodes, NodeIds, getEdgesOf

LEMMA BackwardSame ==
    ASSUME UNCHANGED backward
    PROVE  /\ backward_offset_array_' = backward_offset_array_
           /\ backward_edges_' = backward_edges_
           /\ \A n : getInverseEdgesOf(n)' = getInverseEdgesOf(n)
  BY DEF backward, getInverseEdgesOf

\* The whole file is in the lists, or in the arrays already.
LEMMA ReadDoneStep == ASSUME IInv, ReadDone PROVE IInv'
  <1>1. /\ pc = "read" /\ lines_read = Len(lines)
        /\ pc' = IF file.mode = "EDGE_LIST" THEN "append" ELSE "weights"
        /\ UNCHANGED <<parameters, reader>> /\ UNCHANGED collector
        /\ UNCHANGED forward /\ UNCHANGED backward
    BY DEF ReadDone, lines
  <1>2. pc' # "read" /\ pc' \in {"append", "weights"}
    BY <1>1
  <1>3. /\ file' = file /\ inverse' = inverse /\ random_edge_weights' = random_edge_weights
        /\ adj_list' = adj_list /\ max' = max /\ lines_read' = lines_read
        /\ contains_meta_data' = contains_meta_data
        /\ lines' = lines /\ Plain' = Plain /\ HasCustomWeights' = HasCustomWeights
        /\ FileInv' /\ SkipInv'
        /\ file.mode = "EDGE_LIST" => ListsHoldTheLines'
        /\ pc' # "append" => EdgeListInv' /\ VertexListInv'
    BY <1>1, <1>2, AlreadyRead
  <1>4. /\ forward_offset_array_' = forward_offset_array_ /\ forward_edges_' = forward_edges_
        /\ getNumberOfNodes' = getNumberOfNodes /\ NodeIds' = NodeIds
        /\ \A n : getEdgesOf(n)' = getEdgesOf(n)
    BY <1>1, ForwardSame
  <1>5. /\ backward_offset_array_' = backward_offset_array_
        /\ backward_edges_' = backward_edges_
        /\ backward_offset_array_ = << 0 >> /\ backward_edges_ = <<>>
    BY <1>1, BackwardSame DEF IInv, CollectInv
  <1>6. TypeOK'
    <2>1. TypeOK /\ adjacency_list' = adjacency_list /\ from' = from /\ position' = position
      BY <1>1 DEF IInv, collector
    <2> QED BY <1>2, <1>3, <1>4, <1>5, <2>1 DEF TypeOK
  <1>7. OffsetsCover(forward_offset_array_, forward_edges_)'
    BY <1>4 DEF IInv
  <1>8. CASE file.mode = "EDGE_LIST"
    <2>1. pc' = "append"
      BY <1>1, <1>8
    <2>2. EdgeListInv'
      <3>1. /\ getNumberOfNodes' <= max' + 1 /\ NodeIds' = {}
        <4>1. forward_offset_array_ = << 0 >> /\ max \in Nat
          BY <1>1, <1>8 DEF IInv, EdgeListInv, TypeOK
        <4>2. getNumberOfNodes = 0 /\ NodeIds = {}
          BY <4>1 DEF getNumberOfNodes, NodeIds
        <4> QED BY <1>3, <1>4, <4>1, <4>2
      <3> QED BY <1>3, <1>8, <2>1, <3>1 DEF EdgeListInv
    <2>3. VertexListInv'
      BY <1>3, <1>8 DEF VertexListInv
    <2> QED BY <1>3, <1>5, <1>6, <1>7, <2>1, <2>2, <2>3, NotReadYet DEF IInv
  <1>9. CASE file.mode # "EDGE_LIST"
    <2>1. pc' = "weights" /\ file.mode = "VERTEX_LIST"
      BY <1>1, <1>9 DEF IInv, FileInv, Modes
    <2>2. /\ getNumberOfNodes = lines_read - (IF lines_read = 0 THEN 0 ELSE MetaLines)
          /\ Parsed(forward_edges_, Len(lines) - MetaLines)
          /\ Plain => LET data == VertexLines(lines)[lines_read]
                      IN  /\ getNumberOfNodes = Len(data)
                          /\ \A n \in NodeIds : getEdgesOf(n) = parseVertexListLine(data[n + 1])
      BY <1>1, <2>1 DEF IInv, VertexListInv
    <2>3. getNumberOfNodes = Len(lines) - MetaLines /\ getNumberOfNodes \in Int
      <3>1. lines \in Seq(VertexListLine)
        BY <2>1 DEF IInv, FileInv
      <3>2. Len(lines) \in Nat /\ DOMAIN lines = 1..Len(lines)
        BY <3>1
      <3>3. Len(lines) = 0 => MetaLines = 0
        BY <3>2 DEF MetaLines, HasLine, Range, lines
      <3>4. MetaLines \in {0, 1}
        BY DEF MetaLines
      <3> HIDE DEF getNumberOfNodes, MetaLines
      <3> QED BY <1>1, <2>2, <3>2, <3>3, <3>4
    <2>4. LeadToNodes(forward_edges_)'
      <3>1. ASSUME NEW i \in 1..Len(forward_edges_) PROVE forward_edges_[i].destination \in NodeIds
        <4>1. forward_edges_[i].destination \in Nat
          <5>1. forward_edges_ \in Seq(Edge)
            BY DEF IInv, TypeOK
          <5>2. forward_edges_[i] \in Edge
            BY <5>1
          <5> QED BY <5>2 DEF Edge
        <4>2. forward_edges_[i].destination < getNumberOfNodes
          BY <2>2, <2>3 DEF Parsed
        <4> QED BY <2>3, <4>1, <4>2 DEF NodeIds
      <3> QED BY <1>4, <3>1 DEF LeadToNodes
    <2>5. Raw(forward_edges_)'
      BY <1>3, <1>4, <2>1, <2>2 DEF Raw, Parsed
    <2>6. LeadToNodes(backward_edges_)' /\ Raw(backward_edges_)'
      BY <1>5 DEF LeadToNodes, Raw
    <2>7. ASSUME Plain
          PROVE  /\ FileNodesExist'
                 /\ \A n \in NodeIds' : Original(n)' = FileEdges(n)'
      <3>1. FileNodesExist'
        BY <1>1, <1>3, <1>4, <2>1, <2>2, <2>7 DEF FileNodesExist, lines
      <3>2. ASSUME NEW n \in NodeIds PROVE Original(n)' = FileEdges(n)'
        <4>1. Original(n)' = getEdgesOf(n)
          BY <1>4, <2>1 DEF Original, Swapped
        <4>2. FileEdges(n)' = parseVertexListLine(VertexLines(lines)[Len(lines)][n + 1])
          BY <1>3, <2>1 DEF FileEdges, lines
        <4> QED BY <1>1, <2>2, <2>7, <4>1, <4>2
      <3> QED BY <1>4, <3>1, <3>2
    <2>8. ArraysHoldTheFile'
      BY <1>3, <2>4, <2>5, <2>6, <2>7 DEF ArraysHoldTheFile
    <2>9. /\ CollectInv' /\ MirrorInv' /\ (IsBuilt => Built)'
          /\ OffsetsCover(backward_offset_array_, backward_edges_)'
      BY <1>5, <2>1 DEF CollectInv, MirrorInv, IsBuilt, OffsetsCover
    <2> QED BY <1>3, <1>6, <1>7, <2>1, <2>8, <2>9 DEF IInv
  <1> QED BY <1>8, <1>9

\* The list of the next node is the span of that node.
LEMMA AppendNextNodeStep == ASSUME IInv, AppendNextNode PROVE IInv'
  <1> DEFINE more == AdjListOf(getNumberOfNodes)
  <1>1. /\ pc = "append" /\ pc' = "append" /\ getNumberOfNodes <= max /\ appendNode(more)
        /\ UNCHANGED <<parameters, reader>> /\ UNCHANGED collector /\ UNCHANGED backward
    BY DEF AppendNextNode
  <1>2. lines_read = Len(lines) /\ file.mode = "EDGE_LIST"
    BY <1>1 DEF IInv, SkipInv, VertexListInv, FileInv, Modes
  <1>3. /\ file' = file /\ inverse' = inverse /\ random_edge_weights' = random_edge_weights
        /\ adj_list' = adj_list /\ max' = max /\ lines_read' = lines_read
        /\ contains_meta_data' = contains_meta_data
        /\ FileInv' /\ SkipInv' /\ ListsHoldTheLines'
    BY <1>1, <1>2, AlreadyRead
  <1>4. /\ TypeOK /\ getNumberOfNodes <= max + 1 /\ \A n \in NodeIds : getEdgesOf(n) = AdjListOf(n)
        /\ max \in Nat
    BY <1>1, <1>2 DEF IInv, EdgeListInv, TypeOK
  <1>5. more \in Seq(Edge)
    BY <1>4 DEF TypeOK, AdjListOf
  <1> HIDE DEF more
  <1>6. /\ forward_edges_' \in Seq(Edge) /\ forward_offset_array_' \in Seq(Nat)
        /\ OffsetsCover(forward_offset_array_, forward_edges_)'
        /\ getNumberOfNodes' = getNumberOfNodes + 1 /\ getNumberOfNodes \in Nat
        /\ \A n \in NodeIds : getEdgesOf(n)' = getEdgesOf(n)
        /\ \A n \in Nat : n = getNumberOfNodes => getEdgesOf(n)' = more
        /\ \A n \in NodeIds' : n \in NodeIds \/ n = getNumberOfNodes
    BY <1>1, <1>5, AppendNodeIs
  <1>7. /\ backward_offset_array_' = backward_offset_array_
        /\ backward_edges_' = backward_edges_
        /\ backward_offset_array_ = << 0 >> /\ backward_edges_ = <<>>
    BY <1>1, BackwardSame DEF IInv, CollectInv
  <1>8. TypeOK'
    <2>1. adjacency_list' = adjacency_list /\ from' = from /\ position' = position
      BY <1>1 DEF collector
    <2> QED BY <1>1, <1>3, <1>4, <1>6, <1>7, <2>1 DEF TypeOK
  <1>9. EdgeListInv'
    <2>1. ASSUME NEW n \in NodeIds' PROVE getEdgesOf(n)' = AdjListOf(n)'
      <3>1. AdjListOf(n)' = AdjListOf(n)
        BY <1>3 DEF AdjListOf
      <3>2. CASE n \in NodeIds
        BY <1>4, <1>6, <3>1, <3>2
      <3>3. CASE n = getNumberOfNodes
        <4>1. getEdgesOf(n)' = more
          BY <1>6, <3>3
        <4> QED BY <3>1, <3>3, <4>1 DEF more
      <3> QED BY <1>6, <3>2, <3>3
    <2>2. getNumberOfNodes' <= max' + 1
      <3> HIDE DEF getNumberOfNodes
      <3> QED BY <1>1, <1>3, <1>4, <1>6
    <2> QED BY <1>1, <1>3, <2>1, <2>2 DEF EdgeListInv
  <1>10. VertexListInv'
    BY <1>2, <1>3 DEF VertexListInv
  <1> QED BY <1>1, <1>3, <1>6, <1>7, <1>8, <1>9, <1>10, NotReadYet DEF IInv

\* Each edge is in the span of a node.
HasNode(e, offsets, edges) ==
    \E n \in 0..(Len(offsets) - 2) : \E j \in 1..Len(Span(offsets, edges, n)) :
        e = Span(offsets, edges, n)[j]

LEMMA EdgeHasNode ==
    ASSUME NEW edges \in Seq(Edge), NEW offsets, Offsets(offsets, edges), NEW i \in 1..Len(edges)
    PROVE  HasNode(edges[i], offsets, edges)
  <1>1. PICK n \in 0..(Len(offsets) - 2) : offsets[n + 1] < i /\ i <= offsets[n + 2]
    BY OwnerIs
  <1>2. /\ offsets[n + 1] \in Nat /\ offsets[n + 2] \in Nat
        /\ Len(Span(offsets, edges, n)) = offsets[n + 2] - offsets[n + 1]
        /\ \A j \in 1..Len(Span(offsets, edges, n)) :
              Span(offsets, edges, n)[j] = edges[offsets[n + 1] + j]
    <2>1. IsSpan(Span(offsets, edges, n), offsets, edges, n)
      BY SpanHolds
    <2> QED BY <2>1 DEF IsSpan
  <1>3. /\ i - offsets[n + 1] \in 1..Len(Span(offsets, edges, n))
        /\ offsets[n + 1] + (i - offsets[n + 1]) = i
    BY <1>1, <1>2
  <1> QED BY <1>2, <1>3 DEF HasNode

\* Every list has become a span, and leads to nodes that exist.
LEMMA AppendDoneStep == ASSUME IInv, AppendDone PROVE IInv'
  <1>1. /\ pc = "append" /\ pc' = "weights" /\ getNumberOfNodes > max
        /\ UNCHANGED <<parameters, reader>> /\ UNCHANGED collector
        /\ UNCHANGED forward /\ UNCHANGED backward
    BY DEF AppendDone
  <1>2. lines_read = Len(lines) /\ file.mode = "EDGE_LIST"
    BY <1>1 DEF IInv, SkipInv, VertexListInv, FileInv, Modes
  <1>3. /\ file' = file /\ inverse' = inverse /\ random_edge_weights' = random_edge_weights
        /\ adj_list' = adj_list /\ max' = max /\ lines_read' = lines_read
        /\ contains_meta_data' = contains_meta_data
        /\ lines' = lines /\ Plain' = Plain /\ HasCustomWeights' = HasCustomWeights
        /\ FileInv' /\ SkipInv' /\ EdgeListInv' /\ VertexListInv'
    BY <1>1, <1>2, AlreadyRead
  <1>4. /\ forward_offset_array_' = forward_offset_array_ /\ forward_edges_' = forward_edges_
        /\ getNumberOfNodes' = getNumberOfNodes /\ NodeIds' = NodeIds
        /\ \A n : getEdgesOf(n)' = getEdgesOf(n)
    BY <1>1, ForwardSame
  <1>5. /\ backward_offset_array_' = backward_offset_array_
        /\ backward_edges_' = backward_edges_
        /\ backward_offset_array_ = << 0 >> /\ backward_edges_ = <<>>
    BY <1>1, BackwardSame DEF IInv, CollectInv
  <1>6. /\ TypeOK /\ getNumberOfNodes <= max + 1 /\ max \in Nat
        /\ \A n \in NodeIds : getEdgesOf(n) = AdjListOf(n)
        /\ ListsHoldTheLines
    BY <1>1, <1>2 DEF IInv, EdgeListInv, TypeOK
  <1>7. TypeOK'
    <2>1. adjacency_list' = adjacency_list /\ from' = from /\ position' = position
      BY <1>1 DEF collector
    <2> QED BY <1>1, <1>3, <1>4, <1>5, <1>6, <2>1 DEF TypeOK
  <1>8. Offsets(forward_offset_array_, forward_edges_) /\ forward_edges_ \in Seq(Edge)
    BY <1>6 DEF IInv, TypeOK, Offsets
  <1>9. /\ getNumberOfNodes = max + 1 /\ NodeIds = 0..max
        /\ getNumberOfNodes - 1 = Len(forward_offset_array_) - 2
    <2>1. Len(forward_offset_array_) \in Nat
      BY <1>8 DEF Offsets
    <2> QED BY <1>1, <1>6, <2>1 DEF getNumberOfNodes, NodeIds
  <1>10. ASSUME NEW i \in 1..Len(forward_edges_)
         PROVE  /\ forward_edges_[i].destination \in NodeIds
                /\ ~HasCustomWeights => forward_edges_[i].weight = NaN
    <2>1. PICK n \in 0..(Len(forward_offset_array_) - 2) :
             \E j \in 1..Len(Span(forward_offset_array_, forward_edges_, n)) :
                forward_edges_[i] = Span(forward_offset_array_, forward_edges_, n)[j]
      <3>1. HasNode(forward_edges_[i], forward_offset_array_, forward_edges_)
        BY <1>8, EdgeHasNode
      <3> QED BY <3>1 DEF HasNode
    <2>2. n \in NodeIds
      BY <1>9 DEF NodeIds
    <2>3. PICK j \in 1..Len(AdjListOf(n)) : forward_edges_[i] = AdjListOf(n)[j]
      BY <1>6, <2>1, <2>2 DEF getEdgesOf
    <2>4. n \in DOMAIN adj_list /\ AdjListOf(n) = adj_list[n]
      BY <2>3 DEF AdjListOf
    <2>5. /\ forward_edges_[i].destination < max + 1
          /\ ~HasCustomWeights => forward_edges_[i].weight = NaN
      BY <1>6, <2>3, <2>4 DEF ListsHoldTheLines, Parsed
    <2>6. forward_edges_[i].destination \in Nat
      <3>1. forward_edges_[i] \in Edge
        BY <1>8
      <3> QED BY <3>1 DEF Edge
    <2> QED BY <1>6, <1>9, <2>5, <2>6
  <1>11. LeadToNodes(forward_edges_)' /\ Raw(forward_edges_)'
    BY <1>1, <1>3, <1>4, <1>10 DEF LeadToNodes, Raw
  <1>12. LeadToNodes(backward_edges_)' /\ Raw(backward_edges_)'
    BY <1>5 DEF LeadToNodes, Raw
  <1>13. FileNodesExist'
    <2>1. \A l \in Range(lines) : l.kind = "edge" => {l.from, l.to} \subseteq NodeIds
      <3> SUFFICES ASSUME NEW i \in 1..Len(lines), lines[i].kind = "edge"
                   PROVE  lines[i].from \in NodeIds /\ lines[i].to \in NodeIds
        <4>1. lines \in Seq(EdgeListLine)
          BY <1>2 DEF IInv, FileInv
        <4> QED BY <4>1 DEF Range
      <3>1. lines[i] \in EdgeListLine
        BY <1>2 DEF IInv, FileInv
      <3>2. lines[i].from \in Nat /\ lines[i].to \in Nat
        BY <3>1 DEF EdgeListLine
      <3>3. lines[i].from <= max /\ lines[i].to <= max
        BY <1>2, <1>6 DEF ListsHoldTheLines
      <3> QED BY <1>6, <1>9, <3>2, <3>3
    <2> QED BY <1>2, <1>3, <1>4, <2>1 DEF FileNodesExist, lines
  <1>14. ASSUME Plain, NEW n \in NodeIds PROVE Original(n)' = FileEdges(n)'
    <2>1. Original(n)' = getEdgesOf(n)
      BY <1>1, <1>4 DEF Original, Swapped
    <2>2. FileEdges(n)' = EdgesFrom(LinesFrom(n, lines)[Len(lines)])
      BY <1>2, <1>3 DEF FileEdges, lines
    <2>3. n \in Nat
      BY <1>9
    <2>4. getEdgesOf(n) = EdgesFrom(LinesFrom(n, lines)[Len(lines)])
      BY <1>2, <1>6, <1>14, <2>3 DEF ListsHoldTheLines
    <2> QED BY <2>1, <2>2, <2>4
  <1>15. ArraysHoldTheFile'
    BY <1>3, <1>4, <1>11, <1>12, <1>13, <1>14 DEF ArraysHoldTheFile
  <1>16. /\ CollectInv' /\ MirrorInv' /\ (IsBuilt => Built)'
         /\ OffsetsCover(backward_offset_array_, backward_edges_)'
         /\ OffsetsCover(forward_offset_array_, forward_edges_)'
    BY <1>1, <1>4, <1>5 DEF IInv, CollectInv, MirrorInv, IsBuilt, OffsetsCover
  <1> QED BY <1>3, <1>7, <1>15, <1>16 DEF IInv

-----------------------------------------------------------------------------
(* The random weights.                                                     *)

LEMMA RandomWeightsStep == ASSUME IInv, assignRandomForwardEdgeWeights PROVE IInv'
  <1>1. /\ pc = "weights" /\ pc' = "backward"
        /\ IF random_edge_weights
           THEN \E weight \in [1..Len(forward_edges_) -> RandomWeights] :
                   forward_edges_' = Weighted(forward_edges_, weight)
           ELSE forward_edges_' = forward_edges_
        /\ UNCHANGED <<parameters, reader>> /\ UNCHANGED collector
        /\ forward_offset_array_' = forward_offset_array_ /\ UNCHANGED backward
    BY DEF assignRandomForwardEdgeWeights
  <1>2. lines_read = Len(lines)
    BY <1>1 DEF IInv, SkipInv
  <1>3. /\ file' = file /\ inverse' = inverse /\ random_edge_weights' = random_edge_weights
        /\ adj_list' = adj_list /\ max' = max /\ lines_read' = lines_read
        /\ contains_meta_data' = contains_meta_data
        /\ lines' = lines /\ Plain' = Plain /\ HasCustomWeights' = HasCustomWeights
        /\ FileInv' /\ SkipInv' /\ EdgeListInv' /\ VertexListInv'
    BY <1>1, <1>2, AlreadyRead
  <1>4. /\ backward_offset_array_' = backward_offset_array_
        /\ backward_edges_' = backward_edges_
        /\ backward_offset_array_ = << 0 >> /\ backward_edges_ = <<>>
    BY <1>1, BackwardSame DEF IInv, CollectInv
  <1>5. /\ TypeOK /\ ArraysHoldTheFile /\ IsRead
        /\ Offsets(forward_offset_array_, forward_edges_) /\ forward_edges_ \in Seq(Edge)
        /\ Len(forward_edges_) \in Nat
    BY <1>1 DEF IInv, TypeOK, Offsets, IsRead
  <1>6. getNumberOfNodes' = getNumberOfNodes /\ NodeIds' = NodeIds
    BY <1>1 DEF getNumberOfNodes, NodeIds
  <1>7. NodeIds = 0..(Len(forward_offset_array_) - 2)
    <2>1. Len(forward_offset_array_) \in Nat
      BY <1>5 DEF Offsets
    <2> QED BY <2>1 DEF NodeIds, getNumberOfNodes
  \* The forward edges keep their places and their destinations.
  <1>8. /\ forward_edges_' \in Seq(Edge) /\ Offsets(forward_offset_array_, forward_edges_')
        /\ Len(forward_edges_') = Len(forward_edges_)
        /\ \A i \in 1..Len(forward_edges_) :
              forward_edges_'[i].destination = forward_edges_[i].destination
        /\ random_edge_weights => \A i \in 1..Len(forward_edges_) : forward_edges_'[i].weight # NaN
        /\ \A n \in NodeIds : /\ Len(getEdgesOf(n)') = Len(getEdgesOf(n))
                              /\ \A i \in 1..Len(getEdgesOf(n)) :
                                    getEdgesOf(n)'[i].destination = getEdgesOf(n)[i].destination
    <2>1. CASE random_edge_weights
      <3>1. PICK weight \in [1..Len(forward_edges_) -> RandomWeights] :
               forward_edges_' = Weighted(forward_edges_, weight)
        BY <1>1, <2>1
      <3>2. /\ \A i \in 1..Len(forward_edges_) : weight[i] \in AllWeights
            /\ \A i \in 1..Len(forward_edges_) : weight[i] # NaN
        BY <3>1, Units
      <3>3. /\ forward_edges_' \in Seq(Edge) /\ Len(forward_edges_') = Len(forward_edges_)
            /\ \A i \in 1..Len(forward_edges_) :
                  /\ forward_edges_'[i].destination = forward_edges_[i].destination
                  /\ forward_edges_'[i].weight = weight[i]
        BY <1>5, <3>1, <3>2, WeightedIs
      <3>4. Offsets(forward_offset_array_, forward_edges_')
        BY <1>5, <3>3 DEF Offsets, OffsetsCover
      <3>5. ASSUME NEW n \in NodeIds
            PROVE  /\ Len(getEdgesOf(n)') = Len(getEdgesOf(n))
                   /\ \A i \in 1..Len(getEdgesOf(n)) :
                         getEdgesOf(n)'[i].destination = getEdgesOf(n)[i].destination
        <4>1. n \in 0..(Len(forward_offset_array_) - 2)
          BY <1>7
        <4>2. LET s == Span(forward_offset_array_, forward_edges_, n)
                  t == Span(forward_offset_array_, Weighted(forward_edges_, weight), n)
              IN  Len(t) = Len(s) /\ \A i \in 1..Len(s) : t[i].destination = s[i].destination
          BY <1>5, <3>2, <4>1, SpanWeighted
        <4> QED BY <1>1, <3>1, <4>2 DEF getEdgesOf
      <3> QED BY <3>2, <3>3, <3>4, <3>5
    <2>2. CASE ~random_edge_weights
      <3>1. forward_edges_' = forward_edges_
        BY <1>1, <2>2
      <3>2. \A n : getEdgesOf(n)' = getEdgesOf(n)
        BY <1>1, <3>1 DEF getEdgesOf
      <3> QED BY <1>5, <2>2, <3>1, <3>2
    <2> QED BY <2>1, <2>2
  <1>9. TypeOK'
    <2>1. adjacency_list' = adjacency_list /\ from' = from /\ position' = position
      BY <1>1 DEF collector
    <2> QED BY <1>1, <1>3, <1>4, <1>5, <1>8, <2>1 DEF TypeOK
  <1>10. LeadToNodes(forward_edges_)' /\ Raw(forward_edges_)'
    <2>1. LeadToNodes(forward_edges_) /\ Raw(forward_edges_)
      BY <1>5 DEF ArraysHoldTheFile
    <2>2. LeadToNodes(forward_edges_)'
      BY <1>6, <1>8, <2>1 DEF LeadToNodes
    <2>3. ~random_edge_weights => forward_edges_' = forward_edges_
      BY <1>1
    <2>4. Raw(forward_edges_)'
      BY <1>1, <1>3, <1>8, <2>1, <2>3 DEF Raw
    <2> QED BY <2>2, <2>4
  <1>11. LeadToNodes(backward_edges_)' /\ Raw(backward_edges_)'
    BY <1>4 DEF LeadToNodes, Raw
  <1>12. ASSUME Plain
         PROVE  /\ FileNodesExist'
                /\ \A n \in NodeIds :
                      /\ Destinations(Original(n))' = Destinations(FileEdges(n))'
                      /\ ~random_edge_weights => Original(n)' = FileEdges(n)'
    <2>1. FileNodesExist'
      <3>1. FileNodesExist
        BY <1>5, <1>12 DEF ArraysHoldTheFile
      <3> QED BY <1>3, <1>6, <3>1 DEF FileNodesExist
    <2>2. ASSUME NEW n \in NodeIds
          PROVE  /\ Destinations(Original(n))' = Destinations(FileEdges(n))'
                 /\ ~random_edge_weights => Original(n)' = FileEdges(n)'
      <3>1. Original(n)' = getEdgesOf(n)' /\ Original(n) = getEdgesOf(n)
        BY <1>1 DEF Original, Swapped
      <3>2. FileEdges(n)' = FileEdges(n)
        BY <1>3 DEF FileEdges
      <3>3. /\ Destinations(Original(n)) = Destinations(FileEdges(n))
            /\ ~random_edge_weights => Original(n) = FileEdges(n)
        BY <1>1, <1>5, <1>12 DEF ArraysHoldTheFile
      <3>4. Destinations(getEdgesOf(n)') = Destinations(getEdgesOf(n))
        BY <1>8 DEF Destinations
      <3>5. ~random_edge_weights => getEdgesOf(n)' = getEdgesOf(n)
        BY <1>1 DEF getEdgesOf
      <3>6. /\ Destinations(Original(n))' = Destinations(Original(n)')
            /\ Destinations(FileEdges(n))' = Destinations(FileEdges(n)')
        BY DEF Destinations
      <3> QED BY <3>1, <3>2, <3>3, <3>4, <3>5, <3>6
    <2> QED BY <2>1, <2>2
  <1>13. ArraysHoldTheFile'
    BY <1>3, <1>6, <1>10, <1>11, <1>12 DEF ArraysHoldTheFile
  <1>14. /\ CollectInv' /\ MirrorInv' /\ (IsBuilt => Built)'
         /\ OffsetsCover(backward_offset_array_, backward_edges_)'
         /\ OffsetsCover(forward_offset_array_, forward_edges_)'
    BY <1>1, <1>4, <1>8 DEF CollectInv, MirrorInv, IsBuilt, OffsetsCover, Offsets
  <1> QED BY <1>3, <1>9, <1>13, <1>14 DEF IInv

-----------------------------------------------------------------------------
(* The steps of calculateBackwardEdges.                                    *)

Collecting == {"backward", "collect", "join"}

\* The file and the forward arrays stay as they are while the edges are turned round.
LEMMA ForwardStays ==
    ASSUME IInv, pc \in Collecting, pc' \in {"collect", "join", "inverse"},
           UNCHANGED <<parameters, reader>>, UNCHANGED forward
    PROVE  /\ file' = file /\ inverse' = inverse /\ random_edge_weights' = random_edge_weights
           /\ adj_list' = adj_list /\ max' = max /\ lines_read' = lines_read
           /\ contains_meta_data' = contains_meta_data
           /\ HasCustomWeights' = HasCustomWeights
           /\ FileInv' /\ SkipInv' /\ EdgeListInv' /\ VertexListInv'
           /\ forward_offset_array_' = forward_offset_array_ /\ forward_edges_' = forward_edges_
           /\ getNumberOfNodes' = getNumberOfNodes /\ NodeIds' = NodeIds
           /\ \A n : getEdgesOf(n)' = getEdgesOf(n)
           /\ OffsetsCover(forward_offset_array_, forward_edges_)'
           /\ \A edges : LeadToNodes(edges)' <=> LeadToNodes(edges)
           /\ \A edges : Raw(edges)' <=> Raw(edges)
           /\ LeadToNodes(backward_edges_) /\ Raw(backward_edges_)
           /\ LeadToNodes(forward_edges_) /\ Raw(forward_edges_)
           /\ LeadToNodes(backward_edges_)' /\ Raw(backward_edges_)' => ArraysHoldTheFile'
  <1>1. lines_read = Len(lines) /\ IsRead /\ pc' # "read" /\ pc' # "append"
    BY DEF IInv, SkipInv, Collecting, IsRead
  <1>2. /\ file' = file /\ inverse' = inverse /\ random_edge_weights' = random_edge_weights
        /\ adj_list' = adj_list /\ max' = max /\ lines_read' = lines_read
        /\ contains_meta_data' = contains_meta_data
        /\ Plain' = Plain /\ HasCustomWeights' = HasCustomWeights
        /\ FileInv' /\ SkipInv' /\ EdgeListInv' /\ VertexListInv'
    BY <1>1, AlreadyRead
  <1>3. /\ forward_offset_array_' = forward_offset_array_ /\ forward_edges_' = forward_edges_
        /\ getNumberOfNodes' = getNumberOfNodes /\ NodeIds' = NodeIds
        /\ \A n : getEdgesOf(n)' = getEdgesOf(n)
    BY ForwardSame
  <1>4. OffsetsCover(forward_offset_array_, forward_edges_)'
    BY <1>3 DEF IInv
  <1>5. ArraysHoldTheFile
    BY DEF IInv
  <1>6. /\ LeadToNodes(backward_edges_) /\ Raw(backward_edges_)
        /\ LeadToNodes(forward_edges_) /\ Raw(forward_edges_)
    BY <1>1, <1>5 DEF ArraysHoldTheFile
  <1>7. /\ \A edges : LeadToNodes(edges)' <=> LeadToNodes(edges)
        /\ \A edges : Raw(edges)' <=> Raw(edges)
    BY <1>2, <1>3 DEF LeadToNodes, Raw, Collecting
  <1>8. LeadToNodes(forward_edges_)' /\ Raw(forward_edges_)'
    BY <1>2, <1>3, <1>6 DEF LeadToNodes, Raw, Collecting
  <1>9. ASSUME Plain
        PROVE  /\ FileNodesExist'
               /\ \A n \in NodeIds :
                     /\ Destinations(Original(n)') = Destinations(FileEdges(n)')
                     /\ ~random_edge_weights => Original(n)' = FileEdges(n)'
    <2>1. /\ FileNodesExist
          /\ \A n \in NodeIds :
                /\ Destinations(Original(n)) = Destinations(FileEdges(n))
                /\ ~random_edge_weights => Original(n) = FileEdges(n)
      BY <1>1, <1>5, <1>9 DEF ArraysHoldTheFile, Collecting
    <2>2. \A n : Original(n)' = Original(n)
      BY <1>2, <1>3 DEF Original, Swapped, Collecting
    <2>3. \A n : FileEdges(n)' = FileEdges(n)
      BY <1>2 DEF FileEdges
    <2>4. FileNodesExist'
      BY <1>2, <1>3, <2>1 DEF FileNodesExist
    <2> QED BY <2>1, <2>2, <2>3, <2>4
  <1>10. ASSUME LeadToNodes(backward_edges_)', Raw(backward_edges_)' PROVE ArraysHoldTheFile'
    <2>1. \A n : /\ Destinations(Original(n))' = Destinations(Original(n)')
                 /\ Destinations(FileEdges(n))' = Destinations(FileEdges(n)')
      BY DEF Destinations
    <2> QED BY <1>2, <1>3, <1>8, <1>9, <1>10, <2>1 DEF ArraysHoldTheFile
  <1> QED BY <1>2, <1>3, <1>4, <1>6, <1>7, <1>10

\* No edge has been turned round yet.
LEMMA BeginBackwardEdgesStep == ASSUME IInv, BeginBackwardEdges PROVE IInv'
  <1>1. /\ pc = "backward" /\ pc' = "collect"
        /\ adjacency_list' = [n \in NodeIds |-> <<>>] /\ from' = 0 /\ position' = 0
        /\ UNCHANGED <<parameters, reader>> /\ UNCHANGED forward /\ UNCHANGED backward
    BY DEF BeginBackwardEdges
  <1>2. pc \in Collecting /\ pc' \in {"collect", "join", "inverse"}
    BY <1>1 DEF Collecting
  <1>3. /\ file' = file /\ inverse' = inverse /\ random_edge_weights' = random_edge_weights
        /\ adj_list' = adj_list /\ max' = max /\ lines_read' = lines_read
        /\ contains_meta_data' = contains_meta_data
        /\ HasCustomWeights' = HasCustomWeights
        /\ FileInv' /\ SkipInv' /\ EdgeListInv' /\ VertexListInv'
        /\ forward_offset_array_' = forward_offset_array_ /\ forward_edges_' = forward_edges_
        /\ getNumberOfNodes' = getNumberOfNodes /\ NodeIds' = NodeIds
        /\ \A n : getEdgesOf(n)' = getEdgesOf(n)
        /\ OffsetsCover(forward_offset_array_, forward_edges_)'
        /\ LeadToNodes(backward_edges_)' /\ Raw(backward_edges_)' => ArraysHoldTheFile'
    BY <1>1, <1>2, ForwardStays
  <1>4. /\ backward_offset_array_' = backward_offset_array_
        /\ backward_edges_' = backward_edges_
        /\ backward_offset_array_ = << 0 >> /\ backward_edges_ = <<>>
    BY <1>1, BackwardSame DEF IInv, CollectInv
  <1>5. ArraysHoldTheFile'
    <2>1. LeadToNodes(backward_edges_)' /\ Raw(backward_edges_)'
      BY <1>4 DEF LeadToNodes, Raw
    <2> QED BY <1>3, <2>1
  <1>6. TypeOK'
    <2>1. TypeOK
      BY DEF IInv
    <2> QED BY <1>1, <1>3, <1>4, <2>1 DEF TypeOK
  <1>7. CollectInv'
    <2>1. /\ adjacency_list' \in [NodeIds -> Seq(Edge)]
          /\ \A n \in NodeIds : LeadToNodes(adjacency_list[n])' /\ Raw(adjacency_list[n])'
      BY <1>1 DEF LeadToNodes, Raw
    <2>2. /\ forward_edges_ \in Seq(Edge) /\ Offsets(forward_offset_array_, forward_edges_)
          /\ Len(forward_offset_array_) \in Nat /\ getNumberOfNodes \in Nat
      BY DEF IInv, TypeOK, Offsets, OffsetsCover, getNumberOfNodes
    <2>3. NodeIds = 0..(Len(forward_offset_array_) - 2) /\ NodeIds \subseteq Nat
      BY <2>2 DEF NodeIds, getNumberOfNodes
    <2>4. \A n \in NodeIds : getEdgesOf(n) \in Seq(Edge)
      BY <2>2, <2>3, SpanIs DEF getEdgesOf
    <2>5. (from <= getNumberOfNodes)' /\ (from < getNumberOfNodes => position <= Len(getEdgesOf(from)))'
      <3>1. getEdgesOf(from)' = getEdgesOf(0)
        BY <1>1, <1>3 DEF getEdgesOf
      <3>2. 0 < getNumberOfNodes => 0 \in NodeIds
        BY <2>2 DEF NodeIds
      <3> HIDE DEF getNumberOfNodes
      <3>3. 0 < getNumberOfNodes => Len(getEdgesOf(0)) \in Nat
        BY <2>4, <3>2
      <3> QED BY <1>1, <1>3, <2>2, <3>1, <3>3
    <2>6. ASSUME NEW u \in NodeIds, NEW v \in NodeIds PROVE TurnedAre(u, v, Turned(u))'
      <3>1. Turned(u)' = 0
        BY <1>1, <2>3 DEF Turned
      <3>2. LedTo(u, <<>>)[0] = <<>>
        <4>1. <<>> \in Seq(Edge) /\ u \in Nat
          BY <2>3
        <4> QED BY <4>1, LedToFollow
      <3>3. LedTo(v, getEdgesOf(u))[0] = <<>>
        BY <2>3, <2>4, LedToFollow
      <3>4. adjacency_list'[v] = <<>> /\ Len(<<>>) = 0
        BY <1>1
      <3> QED BY <1>3, <3>1, <3>2, <3>3, <3>4 DEF TurnedAre
    <2> QED BY <1>1, <1>3, <1>4, <2>1, <2>5, <2>6 DEF CollectInv
  <1>8. /\ MirrorInv' /\ (IsBuilt => Built)'
        /\ OffsetsCover(backward_offset_array_, backward_edges_)'
    BY <1>1, <1>4 DEF MirrorInv, IsBuilt, OffsetsCover
  <1> QED BY <1>3, <1>5, <1>6, <1>7, <1>8 DEF IInv

\* What holds of all the edges of an array holds of a span.
LEMMA SpanInherits ==
    ASSUME NEW edges \in Seq(Edge), NEW offsets, Offsets(offsets, edges),
           NEW n \in 0..(Len(offsets) - 2)
    PROVE  /\ LeadToNodes(edges) => LeadToNodes(Span(offsets, edges, n))
           /\ Raw(edges) => Raw(Span(offsets, edges, n))
  <1>1. \A i \in 1..Len(Span(offsets, edges, n)) :
           \E k \in 1..Len(edges) : Span(offsets, edges, n)[i] = edges[k]
    <2>1. IsSpan(Span(offsets, edges, n), offsets, edges, n)
      BY SpanHolds
    <2> QED BY <2>1 DEF IsSpan
  <1>2. LeadToNodes(edges) => LeadToNodes(Span(offsets, edges, n))
    BY <1>1 DEF LeadToNodes
  <1>3. Raw(edges) => Raw(Span(offsets, edges, n))
    BY <1>1 DEF Raw
  <1> QED BY <1>2, <1>3

\* The nodes and their spans.
LEMMA Nodes ==
    ASSUME TypeOK, OffsetsCover(forward_offset_array_, forward_edges_)
    PROVE  /\ getNumberOfNodes \in Nat /\ NodeIds \subseteq Nat
           /\ NodeIds = 0..(Len(forward_offset_array_) - 2)
           /\ forward_edges_ \in Seq(Edge) /\ Offsets(forward_offset_array_, forward_edges_)
           /\ \A n \in NodeIds : getEdgesOf(n) \in Seq(Edge) /\ Len(getEdgesOf(n)) \in Nat
           /\ LeadToNodes(forward_edges_) => \A n \in NodeIds : LeadToNodes(getEdgesOf(n))
           /\ Raw(forward_edges_) => \A n \in NodeIds : Raw(getEdgesOf(n))
  <1>1. /\ forward_edges_ \in Seq(Edge) /\ Offsets(forward_offset_array_, forward_edges_)
        /\ Len(forward_offset_array_) \in Nat /\ getNumberOfNodes \in Nat
    BY DEF TypeOK, Offsets, OffsetsCover, getNumberOfNodes
  <1>2. NodeIds = 0..(Len(forward_offset_array_) - 2) /\ NodeIds \subseteq Nat
    BY <1>1 DEF NodeIds, getNumberOfNodes
  <1>3. \A n \in NodeIds : getEdgesOf(n) \in Seq(Edge)
    BY <1>1, <1>2, SpanIs DEF getEdgesOf
  <1>4. \A n \in NodeIds : Len(getEdgesOf(n)) \in Nat
    BY <1>3
  <1>5. /\ LeadToNodes(forward_edges_) => \A n \in NodeIds : LeadToNodes(getEdgesOf(n))
        /\ Raw(forward_edges_) => \A n \in NodeIds : Raw(getEdgesOf(n))
    BY <1>1, <1>2, SpanInherits DEF getEdgesOf
  <1> QED BY <1>1, <1>2, <1>3, <1>4, <1>5

LEMMA WeightsAppend ==
    ASSUME NEW edges \in Seq(Edge), NEW e \in Edge
    PROVE  /\ Weights(edges) \in Seq(AllWeights) /\ Len(Weights(edges)) = Len(edges)
           /\ Weights(Append(edges, e)) = Append(Weights(edges), e.weight)
  <1> DEFINE w(s, i) == s[i].weight
             more == Append(edges, e)
  <1>1. /\ more \in Seq(Edge) /\ Len(more) = Len(edges) + 1 /\ Len(edges) \in Nat
        /\ \A i \in 1..Len(edges) : more[i] = edges[i] /\ edges[i] \in Edge
        /\ more[Len(edges) + 1] = e
    OBVIOUS
  <1>2. \A x \in Edge : x.weight \in AllWeights
    BY DEF Edge
  <1> HIDE DEF more
  <1>3. /\ \A i \in 1..Len(edges) : w(edges, i) \in AllWeights /\ w(more, i) = w(edges, i)
        /\ w(more, Len(edges) + 1) = e.weight /\ e.weight \in AllWeights
    BY <1>1, <1>2
  <1>4. Weights(edges) = [i \in 1..Len(edges) |-> w(edges, i)]
    BY DEF Weights
  <1>5. Weights(more) = [i \in 1..Len(more) |-> w(more, i)]
    BY DEF Weights
  <1> HIDE DEF w
  <1>6. /\ Weights(edges) \in Seq(AllWeights) /\ Len(Weights(edges)) = Len(edges)
        /\ \A i \in 1..Len(edges) : Weights(edges)[i] = w(edges, i)
    BY <1>1, <1>3, <1>4
  <1>7. \A i \in 1..(Len(edges) + 1) : w(more, i) \in AllWeights
    BY <1>1, <1>3
  <1>8. /\ Weights(more) \in Seq(AllWeights) /\ Len(Weights(more)) = Len(edges) + 1
        /\ \A i \in 1..(Len(edges) + 1) : Weights(more)[i] = w(more, i)
    BY <1>1, <1>5, <1>7
  <1> DEFINE t == Append(Weights(edges), e.weight)
  <1>9. /\ t \in Seq(AllWeights) /\ Len(t) = Len(edges) + 1
        /\ \A i \in 1..Len(edges) : t[i] = Weights(edges)[i]
        /\ t[Len(edges) + 1] = e.weight
    BY <1>3, <1>6
  <1> HIDE DEF t
  <1>10. \A i \in 1..(Len(edges) + 1) : Weights(more)[i] = t[i]
    <2> TAKE i \in 1..(Len(edges) + 1)
    <2>1. i \in 1..Len(edges) \/ i = Len(edges) + 1
      BY <1>1
    <2> QED BY <1>3, <1>6, <1>8, <1>9, <2>1
  <1>11. Weights(more) = t
    BY <1>8, <1>9, <1>10, SameList
  <1> QED BY <1>6, <1>11 DEF more, t

\* An edge from u to v that is turned round is one more in both lists.
LEMMA CollectEdgeStep == ASSUME IInv, CollectEdge PROVE IInv'
  <1> DEFINE es == getEdgesOf(from)
             e == es[position + 1]
             d == e.destination
             b == BackEdge(e)
  <1>1. /\ pc = "collect" /\ pc' = "collect"
        /\ from < getNumberOfNodes /\ position < Len(es)
        /\ adjacency_list' = [adjacency_list EXCEPT ![d] = Append(@, b)]
        /\ position' = position + 1 /\ from' = from
        /\ UNCHANGED <<parameters, reader>> /\ UNCHANGED forward /\ UNCHANGED backward
    BY DEF CollectEdge
  <1>2. pc \in Collecting /\ pc' \in {"collect", "join", "inverse"}
    BY <1>1 DEF Collecting
  <1>3. /\ file' = file /\ inverse' = inverse /\ random_edge_weights' = random_edge_weights
        /\ adj_list' = adj_list /\ max' = max /\ lines_read' = lines_read
        /\ contains_meta_data' = contains_meta_data
        /\ FileInv' /\ SkipInv' /\ EdgeListInv' /\ VertexListInv'
        /\ forward_offset_array_' = forward_offset_array_ /\ forward_edges_' = forward_edges_
        /\ getNumberOfNodes' = getNumberOfNodes /\ NodeIds' = NodeIds
        /\ \A n : getEdgesOf(n)' = getEdgesOf(n)
        /\ OffsetsCover(forward_offset_array_, forward_edges_)'
        /\ \A edges : LeadToNodes(edges)' <=> LeadToNodes(edges)
        /\ \A edges : Raw(edges)' <=> Raw(edges)
        /\ LeadToNodes(forward_edges_) /\ Raw(forward_edges_)
        /\ LeadToNodes(backward_edges_)' /\ Raw(backward_edges_)' => ArraysHoldTheFile'
    BY <1>1, <1>2, ForwardStays
  <1>4. /\ backward_offset_array_' = backward_offset_array_
        /\ backward_edges_' = backward_edges_
        /\ backward_offset_array_ = << 0 >> /\ backward_edges_ = <<>>
    BY <1>1, BackwardSame DEF IInv, CollectInv
  <1>5. ArraysHoldTheFile'
    <2>1. LeadToNodes(backward_edges_)' /\ Raw(backward_edges_)'
      BY <1>4 DEF LeadToNodes, Raw
    <2> QED BY <1>3, <2>1
  <1>6. /\ TypeOK /\ from \in Nat /\ position \in Nat
        /\ adjacency_list \in [NodeIds -> Seq(Edge)]
        /\ \A n \in NodeIds : LeadToNodes(adjacency_list[n]) /\ Raw(adjacency_list[n])
        /\ from <= getNumberOfNodes
        /\ \A u, v \in NodeIds : TurnedAre(u, v, Turned(u))
    BY <1>1 DEF IInv, TypeOK, CollectInv
  <1>7. /\ getNumberOfNodes \in Nat /\ NodeIds \subseteq Nat
        /\ \A n \in NodeIds : getEdgesOf(n) \in Seq(Edge) /\ Len(getEdgesOf(n)) \in Nat
        /\ \A n \in NodeIds : LeadToNodes(getEdgesOf(n)) /\ Raw(getEdgesOf(n))
    BY <1>3, <1>6, Nodes DEF IInv
  <1>8. from \in NodeIds
    <2> HIDE DEF getNumberOfNodes
    <2> QED BY <1>1, <1>6, <1>7 DEF NodeIds
  <1>9. es \in Seq(Edge) /\ Len(es) \in Nat /\ LeadToNodes(es) /\ Raw(es)
    <2> HIDE DEF getEdgesOf
    <2> QED BY <1>7, <1>8
  <1> HIDE DEF es
  <1>10. /\ position + 1 \in 1..Len(es) /\ position \in 0..Len(es) /\ (position + 1) - 1 = position
    BY <1>1, <1>6, <1>9
  <1>11. e \in Edge /\ d \in NodeIds /\ e.weight \in AllWeights /\ d \in Nat
    <2>1. e \in Edge /\ d \in NodeIds
      BY <1>9, <1>10 DEF LeadToNodes
    <2> QED BY <1>7, <2>1 DEF Edge
  <1>12. b \in Edge /\ b.destination = from /\ b.weight = e.weight
    BY <1>6, <1>11, EdgeIs DEF BackEdge
  <1>13. /\ random_edge_weights => e.weight # NaN
         /\ ~random_edge_weights /\ ~HasCustomWeights => e.weight = NaN
    BY <1>1, <1>9, <1>10 DEF Raw
  <1> HIDE DEF e, d, b
  <1>14. /\ adjacency_list' \in [NodeIds -> Seq(Edge)]
         /\ adjacency_list'[d] = Append(adjacency_list[d], b)
         /\ \A n \in NodeIds : n # d => adjacency_list'[n] = adjacency_list[n]
    BY <1>1, <1>6, <1>11, <1>12
  <1>15. TypeOK'
    BY <1>1, <1>3, <1>4, <1>6, <1>14 DEF TypeOK
  <1>16. ASSUME NEW n \in NodeIds PROVE LeadToNodes(adjacency_list[n])' /\ Raw(adjacency_list[n])'
    <2>1. LeadToNodes(adjacency_list'[n]) /\ Raw(adjacency_list'[n])
      <3>1. CASE n # d
        BY <1>6, <1>14, <3>1
      <3>2. CASE n = d
        <4> DEFINE old == adjacency_list[d]
        <4>1. old \in Seq(Edge) /\ LeadToNodes(old) /\ Raw(old) /\ adjacency_list'[n] = Append(old, b)
          BY <1>6, <1>11, <1>14, <3>2
        <4> HIDE DEF old
        <4>2. /\ Len(Append(old, b)) = Len(old) + 1 /\ Len(old) \in Nat
              /\ \A i \in 1..Len(old) : Append(old, b)[i] = old[i]
              /\ Append(old, b)[Len(old) + 1] = b
          BY <1>12, <4>1
        <4>3. \A i \in 1..Len(Append(old, b)) : i \in 1..Len(old) \/ i = Len(old) + 1
          BY <4>2
        <4>4. LeadToNodes(Append(old, b))
          BY <1>8, <1>12, <4>1, <4>2, <4>3 DEF LeadToNodes
        <4>5. Raw(Append(old, b))
          BY <1>12, <1>13, <4>1, <4>2, <4>3 DEF Raw
        <4> QED BY <4>1, <4>4, <4>5
      <3> QED BY <3>1, <3>2
    <2> QED BY <1>1, <1>3, <2>1 DEF LeadToNodes, Raw
  <1>17. ASSUME NEW u \in NodeIds, NEW v \in NodeIds PROVE TurnedAre(u, v, Turned(u))'
    <2> DEFINE list == adjacency_list[v]
               out == getEdgesOf(u)
    <2>1. /\ list \in Seq(Edge) /\ out \in Seq(Edge) /\ u \in Nat /\ v \in Nat
          /\ Weights(LedTo(u, list)[Len(list)]) = Weights(LedTo(v, out)[Turned(u)])
      BY <1>6, <1>7 DEF TurnedAre
    <2>2. Turned(u) = IF u = from THEN position ELSE Turned(u)
      BY <1>6, <2>1 DEF Turned
    <2>3. Turned(u)' = IF u = from THEN position + 1 ELSE Turned(u)
      BY <1>1, <1>3, <1>6, <2>1 DEF Turned
    <2>4. \* The list of v.
          LedTo(u, adjacency_list'[v])[Len(adjacency_list'[v])] =
             IF v = d /\ u = from THEN Append(LedTo(u, list)[Len(list)], b)
             ELSE LedTo(u, list)[Len(list)]
      <3>1. CASE v # d
        BY <1>14, <3>1
      <3>2. CASE v = d
        <4>1. adjacency_list'[v] = Append(list, b)
          BY <1>14, <3>2
        <4>2. LedTo(u, Append(list, b))[Len(Append(list, b))] =
                 IF b.destination = u THEN Append(LedTo(u, list)[Len(list)], b)
                 ELSE LedTo(u, list)[Len(list)]
          <5> HIDE DEF list
          <5> QED BY <1>12, <2>1, LedToAppends
        <4> HIDE DEF list
        <4> QED BY <1>12, <3>2, <4>1, <4>2
      <3> QED BY <3>1, <3>2
    <2>5. \* The span of u.
          LedTo(v, out)[Turned(u)'] =
             IF v = d /\ u = from THEN Append(LedTo(v, out)[Turned(u)], e)
             ELSE LedTo(v, out)[Turned(u)]
      <3>1. CASE u # from
        BY <2>3, <3>1
      <3>2. CASE u = from
        <4>1. out = es
          BY <3>2 DEF es
        <4>2. LedTo(v, es)[position + 1] =
                 IF es[position + 1].destination = v
                 THEN Append(LedTo(v, es)[(position + 1) - 1], es[position + 1])
                 ELSE LedTo(v, es)[(position + 1) - 1]
          BY <1>9, <1>10, <2>1, LedToFollow
        <4>3. Turned(u) = position /\ Turned(u)' = position + 1
          BY <2>2, <2>3, <3>2
        <4> QED BY <1>10, <3>2, <4>1, <4>2, <4>3 DEF e, d
      <3> QED BY <3>1, <3>2
    <2>6. Weights(LedTo(u, adjacency_list'[v])[Len(adjacency_list'[v])]) = Weights(LedTo(v, out)[Turned(u)'])
      <3>1. CASE v = d /\ u = from
        <4> DEFINE p == LedTo(u, list)[Len(list)]
                   q == LedTo(v, out)[Turned(u)]
        <4>1. p \in Seq(Edge)
          <5>1. Len(list) \in 0..Len(list)
            BY <2>1
          <5> HIDE DEF list
          <5> QED BY <2>1, <5>1, LedToFollow
        <4>2. q \in Seq(Edge)
          <5>1. out = es /\ Turned(u) = position
            BY <2>2, <3>1 DEF es
          <5> HIDE DEF out
          <5> QED BY <1>9, <1>10, <2>1, <5>1, LedToFollow
        <4>3. Weights(p) = Weights(q)
          BY <2>1
        <4> HIDE DEF p, q
        <4>4. Weights(Append(p, b)) = Append(Weights(p), b.weight)
          BY <1>12, <4>1, WeightsAppend
        <4>5. Weights(Append(q, e)) = Append(Weights(q), e.weight)
          BY <1>11, <4>2, WeightsAppend
        <4>6. Weights(Append(p, b)) = Weights(Append(q, e))
          BY <1>12, <4>3, <4>4, <4>5
        <4> QED BY <2>4, <2>5, <3>1, <4>6 DEF p, q
      <3>2. CASE ~(v = d /\ u = from)
        BY <2>1, <2>4, <2>5, <3>2
      <3> QED BY <3>1, <3>2
    <2> QED BY <1>3, <2>6 DEF TurnedAre
  <1>18. CollectInv'
    <2>1. (from < getNumberOfNodes => position <= Len(getEdgesOf(from)))'
      <3>1. getEdgesOf(from)' = es
        BY <1>1, <1>3 DEF getEdgesOf, es
      <3> QED BY <1>1, <1>10, <3>1
    <2> QED BY <1>1, <1>3, <1>4, <1>6, <1>14, <1>16, <1>17, <2>1 DEF CollectInv
  <1>19. /\ MirrorInv' /\ (IsBuilt => Built)'
         /\ OffsetsCover(backward_offset_array_, backward_edges_)'
    BY <1>1, <1>4 DEF MirrorInv, IsBuilt, OffsetsCover
  <1> QED BY <1>3, <1>5, <1>15, <1>18, <1>19 DEF IInv

\* All the edges of a node have been turned round.
LEMMA CollectNextNodeStep == ASSUME IInv, CollectNextNode PROVE IInv'
  <1>1. /\ pc = "collect" /\ pc' = "collect"
        /\ from < getNumberOfNodes /\ position = Len(getEdgesOf(from))
        /\ adjacency_list' = adjacency_list /\ position' = 0 /\ from' = from + 1
        /\ UNCHANGED <<parameters, reader>> /\ UNCHANGED forward /\ UNCHANGED backward
    BY DEF CollectNextNode
  <1>2. pc \in Collecting /\ pc' \in {"collect", "join", "inverse"}
    BY <1>1 DEF Collecting
  <1>3. /\ file' = file /\ inverse' = inverse /\ random_edge_weights' = random_edge_weights
        /\ adj_list' = adj_list /\ max' = max /\ lines_read' = lines_read
        /\ contains_meta_data' = contains_meta_data
        /\ FileInv' /\ SkipInv' /\ EdgeListInv' /\ VertexListInv'
        /\ forward_offset_array_' = forward_offset_array_ /\ forward_edges_' = forward_edges_
        /\ getNumberOfNodes' = getNumberOfNodes /\ NodeIds' = NodeIds
        /\ \A n : getEdgesOf(n)' = getEdgesOf(n)
        /\ OffsetsCover(forward_offset_array_, forward_edges_)'
        /\ \A edges : LeadToNodes(edges)' <=> LeadToNodes(edges)
        /\ \A edges : Raw(edges)' <=> Raw(edges)
        /\ LeadToNodes(backward_edges_)' /\ Raw(backward_edges_)' => ArraysHoldTheFile'
    BY <1>1, <1>2, ForwardStays
  <1>4. /\ backward_offset_array_' = backward_offset_array_
        /\ backward_edges_' = backward_edges_
        /\ backward_offset_array_ = << 0 >> /\ backward_edges_ = <<>>
    BY <1>1, BackwardSame DEF IInv, CollectInv
  <1>5. ArraysHoldTheFile'
    <2>1. LeadToNodes(backward_edges_)' /\ Raw(backward_edges_)'
      BY <1>4 DEF LeadToNodes, Raw
    <2> QED BY <1>3, <2>1
  <1>6. /\ TypeOK /\ from \in Nat
        /\ adjacency_list \in [NodeIds -> Seq(Edge)]
        /\ \A n \in NodeIds : LeadToNodes(adjacency_list[n]) /\ Raw(adjacency_list[n])
        /\ \A u, v \in NodeIds : TurnedAre(u, v, Turned(u))
    BY <1>1 DEF IInv, TypeOK, CollectInv
  <1>7. /\ getNumberOfNodes \in Nat /\ NodeIds \subseteq Nat
        /\ \A n \in NodeIds : getEdgesOf(n) \in Seq(Edge) /\ Len(getEdgesOf(n)) \in Nat
    BY <1>6, Nodes DEF IInv
  <1>8. TypeOK'
    BY <1>1, <1>3, <1>4, <1>6 DEF TypeOK
  <1>9. CollectInv'
    <2>1. (from <= getNumberOfNodes)' /\ (from < getNumberOfNodes => position <= Len(getEdgesOf(from)))'
      <3>1. \A n \in Nat : n = from + 1 /\ n < getNumberOfNodes => Len(getEdgesOf(n)) \in Nat
        <4> HIDE DEF getNumberOfNodes
        <4>1. \A n \in Nat : n < getNumberOfNodes => n \in NodeIds
          BY <1>7 DEF NodeIds
        <4> QED BY <1>7, <4>1
      <3>2. PICK n \in Nat : n = from + 1
        BY <1>6
      <3>3. getEdgesOf(from)' = getEdgesOf(n)
        BY <1>1, <1>3, <3>2 DEF getEdgesOf
      <3> HIDE DEF getNumberOfNodes
      <3> QED BY <1>1, <1>3, <1>6, <1>7, <3>1, <3>2, <3>3
    <2>2. ASSUME NEW u \in NodeIds, NEW v \in NodeIds PROVE TurnedAre(u, v, Turned(u))'
      <3>1. Turned(u)' = Turned(u)
        <4>1. u \in Nat
          BY <1>7
        <4>2. CASE u = from
          BY <1>1, <1>3, <1>6, <4>1, <4>2 DEF Turned
        <4>3. CASE u # from
          BY <1>1, <1>3, <1>6, <4>1, <4>3 DEF Turned
        <4> QED BY <4>2, <4>3
      <3> QED BY <1>1, <1>3, <1>6, <3>1 DEF TurnedAre
    <2>3. \A n \in NodeIds : LeadToNodes(adjacency_list[n])' /\ Raw(adjacency_list[n])'
      BY <1>1, <1>3, <1>6 DEF LeadToNodes, Raw
    <2> QED BY <1>1, <1>3, <1>4, <1>6, <2>1, <2>2, <2>3 DEF CollectInv
  <1>10. /\ MirrorInv' /\ (IsBuilt => Built)'
         /\ OffsetsCover(backward_offset_array_, backward_edges_)'
    BY <1>1, <1>4 DEF MirrorInv, IsBuilt, OffsetsCover
  <1> QED BY <1>3, <1>5, <1>8, <1>9, <1>10 DEF IInv

\* All the edges have been turned round.
LEMMA CollectDoneStep == ASSUME IInv, CollectDone PROVE IInv'
  <1>1. /\ pc = "collect" /\ pc' = "join" /\ from = getNumberOfNodes
        /\ UNCHANGED <<parameters, reader>> /\ UNCHANGED forward /\ UNCHANGED backward
        /\ adjacency_list' = adjacency_list /\ from' = from /\ position' = position
    BY DEF CollectDone, collector
  <1>2. pc \in Collecting /\ pc' \in {"collect", "join", "inverse"}
    BY <1>1 DEF Collecting
  <1>3. /\ file' = file /\ inverse' = inverse /\ random_edge_weights' = random_edge_weights
        /\ adj_list' = adj_list /\ max' = max /\ lines_read' = lines_read
        /\ contains_meta_data' = contains_meta_data
        /\ HasCustomWeights' = HasCustomWeights
        /\ FileInv' /\ SkipInv' /\ EdgeListInv' /\ VertexListInv'
        /\ forward_offset_array_' = forward_offset_array_ /\ forward_edges_' = forward_edges_
        /\ getNumberOfNodes' = getNumberOfNodes /\ NodeIds' = NodeIds
        /\ \A n : getEdgesOf(n)' = getEdgesOf(n)
        /\ OffsetsCover(forward_offset_array_, forward_edges_)'
        /\ LeadToNodes(backward_edges_)' /\ Raw(backward_edges_)' => ArraysHoldTheFile'
    BY <1>1, <1>2, ForwardStays
  <1>4. /\ backward_offset_array_' = backward_offset_array_
        /\ backward_edges_' = backward_edges_
        /\ backward_offset_array_ = << 0 >> /\ backward_edges_ = <<>>
    BY <1>1, BackwardSame DEF IInv, CollectInv
  <1>5. ArraysHoldTheFile'
    <2>1. LeadToNodes(backward_edges_)' /\ Raw(backward_edges_)'
      BY <1>4 DEF LeadToNodes, Raw
    <2> QED BY <1>3, <2>1
  <1>6. /\ TypeOK /\ adjacency_list \in [NodeIds -> Seq(Edge)]
        /\ \A n \in NodeIds : LeadToNodes(adjacency_list[n]) /\ Raw(adjacency_list[n])
        /\ \A u, v \in NodeIds : TurnedAre(u, v, Turned(u))
    BY <1>1 DEF IInv, CollectInv
  <1>7. TypeOK'
    BY <1>1, <1>3, <1>4, <1>6 DEF TypeOK
  <1>8. CollectInv'
    <2>1. Joined' = 0 /\ getNumberOfNodes \in Nat
      BY <1>4, <1>6, Nodes DEF Joined, IInv
    <2>2. \A u \in NodeIds : Turned(u) = Len(getEdgesOf(u))
      BY <1>1, <2>1 DEF Turned, NodeIds
    <2>3. \A u, v \in NodeIds : TurnedAre(u, v, Len(getEdgesOf(u)))'
      BY <1>1, <1>3, <1>6, <2>2 DEF TurnedAre
    <2>4. \A n \in NodeIds : LeadToNodes(adjacency_list[n])' /\ Raw(adjacency_list[n])'
      BY <1>1, <1>3, <1>6 DEF LeadToNodes, Raw
    <2>5. (Joined <= getNumberOfNodes)' /\ \A n \in 0..(Joined - 1)' : FALSE
      BY <1>3, <2>1
    <2> QED BY <1>1, <1>3, <1>6, <2>3, <2>4, <2>5 DEF CollectInv
  <1>9. /\ MirrorInv' /\ (IsBuilt => Built)'
        /\ OffsetsCover(backward_offset_array_, backward_edges_)'
    BY <1>1, <1>4 DEF MirrorInv, IsBuilt, OffsetsCover
  <1> QED BY <1>3, <1>5, <1>7, <1>8, <1>9 DEF IInv

\* The nodes of the backward arrays and their spans.
LEMMA BackwardNodes ==
    ASSUME TypeOK, OffsetsCover(backward_offset_array_, backward_edges_)
    PROVE  /\ Joined \in Nat /\ 0..(Joined - 1) = 0..(Len(backward_offset_array_) - 2)
           /\ backward_edges_ \in Seq(Edge) /\ Offsets(backward_offset_array_, backward_edges_)
           /\ \A n \in 0..(Joined - 1) :
                 getInverseEdgesOf(n) \in Seq(Edge) /\ Len(getInverseEdgesOf(n)) \in Nat
           /\ LeadToNodes(backward_edges_) =>
                 \A n \in 0..(Joined - 1) : LeadToNodes(getInverseEdgesOf(n))
           /\ Raw(backward_edges_) => \A n \in 0..(Joined - 1) : Raw(getInverseEdgesOf(n))
  <1>1. /\ backward_edges_ \in Seq(Edge) /\ Offsets(backward_offset_array_, backward_edges_)
        /\ Len(backward_offset_array_) \in Nat /\ Joined \in Nat
    BY DEF TypeOK, Offsets, OffsetsCover, Joined
  <1>2. 0..(Joined - 1) = 0..(Len(backward_offset_array_) - 2)
    BY <1>1 DEF Joined
  <1>3. \A n \in 0..(Joined - 1) : getInverseEdgesOf(n) \in Seq(Edge)
    BY <1>1, <1>2, SpanIs DEF getInverseEdgesOf
  <1>4. \A n \in 0..(Joined - 1) : Len(getInverseEdgesOf(n)) \in Nat
    BY <1>3
  <1>5. /\ LeadToNodes(backward_edges_) =>
              \A n \in 0..(Joined - 1) : LeadToNodes(getInverseEdgesOf(n))
        /\ Raw(backward_edges_) => \A n \in 0..(Joined - 1) : Raw(getInverseEdgesOf(n))
    BY <1>1, <1>2, SpanInherits DEF getInverseEdgesOf
  <1> QED BY <1>1, <1>2, <1>3, <1>4, <1>5

\* The list of the next node is the span of its in-edges.
LEMMA JoinNodeStep == ASSUME IInv, JoinNode PROVE IInv'
  <1> DEFINE more == adjacency_list[Joined]
  <1>1. /\ pc = "join" /\ pc' = "join" /\ Joined < getNumberOfNodes
        /\ backward_edges_' = backward_edges_ \o more
        /\ backward_offset_array_' =
              Append(backward_offset_array_, Len(backward_edges_) + Len(more))
        /\ UNCHANGED <<parameters, reader>> /\ UNCHANGED forward
        /\ adjacency_list' = adjacency_list /\ from' = from /\ position' = position
    BY DEF JoinNode, collector
  <1>2. pc \in Collecting /\ pc' \in {"collect", "join", "inverse"}
    BY <1>1 DEF Collecting
  <1>3. /\ file' = file /\ inverse' = inverse /\ random_edge_weights' = random_edge_weights
        /\ adj_list' = adj_list /\ max' = max /\ lines_read' = lines_read
        /\ contains_meta_data' = contains_meta_data
        /\ FileInv' /\ SkipInv' /\ EdgeListInv' /\ VertexListInv'
        /\ forward_offset_array_' = forward_offset_array_ /\ forward_edges_' = forward_edges_
        /\ getNumberOfNodes' = getNumberOfNodes /\ NodeIds' = NodeIds
        /\ \A n : getEdgesOf(n)' = getEdgesOf(n)
        /\ OffsetsCover(forward_offset_array_, forward_edges_)'
        /\ \A edges : LeadToNodes(edges)' <=> LeadToNodes(edges)
        /\ \A edges : Raw(edges)' <=> Raw(edges)
        /\ LeadToNodes(backward_edges_) /\ Raw(backward_edges_)
        /\ LeadToNodes(backward_edges_)' /\ Raw(backward_edges_)' => ArraysHoldTheFile'
    BY <1>1, <1>2, ForwardStays
  <1>4. /\ TypeOK /\ adjacency_list \in [NodeIds -> Seq(Edge)]
        /\ \A n \in NodeIds : LeadToNodes(adjacency_list[n]) /\ Raw(adjacency_list[n])
        /\ \A u, v \in NodeIds : TurnedAre(u, v, Len(getEdgesOf(u)))
        /\ \A n \in 0..(Joined - 1) : getInverseEdgesOf(n) = adjacency_list[n]
    BY <1>1 DEF IInv, CollectInv
  <1>5. /\ Joined \in Nat /\ 0..(Joined - 1) = 0..(Len(backward_offset_array_) - 2)
        /\ backward_edges_ \in Seq(Edge) /\ Offsets(backward_offset_array_, backward_edges_)
    BY <1>4, BackwardNodes DEF IInv
  <1>6. getNumberOfNodes \in Nat
    BY <1>4, Nodes DEF IInv
  <1>7. Joined \in NodeIds
    <2> HIDE DEF getNumberOfNodes, Joined
    <2> QED BY <1>1, <1>5, <1>6 DEF NodeIds
  <1>8. more \in Seq(Edge) /\ LeadToNodes(more) /\ Raw(more)
    <2> HIDE DEF Joined
    <2> QED BY <1>4, <1>7
  <1> HIDE DEF more
  <1>9. /\ backward_edges_' \in Seq(Edge) /\ Offsets(backward_offset_array_', backward_edges_')
        /\ Len(backward_offset_array_') = Len(backward_offset_array_) + 1
        /\ Len(backward_edges_') = Len(backward_edges_) + Len(more)
        /\ \A i \in 1..Len(backward_edges_) : backward_edges_'[i] = backward_edges_[i]
        /\ \A i \in 1..Len(more) : backward_edges_'[Len(backward_edges_) + i] = more[i]
        /\ \A n \in 0..(Len(backward_offset_array_) - 2) :
              Span(backward_offset_array_', backward_edges_', n)
                = Span(backward_offset_array_, backward_edges_, n)
        /\ Span(backward_offset_array_', backward_edges_', Len(backward_offset_array_) - 1) = more
    <2>1. LET longer == Append(backward_offset_array_, Len(backward_edges_) + Len(more))
              joined == backward_edges_ \o more
          IN  /\ joined \in Seq(Edge) /\ Offsets(longer, joined)
              /\ Len(longer) = Len(backward_offset_array_) + 1
              /\ Len(joined) = Len(backward_edges_) + Len(more)
              /\ \A i \in 1..Len(backward_edges_) : joined[i] = backward_edges_[i]
              /\ \A i \in 1..Len(more) : joined[Len(backward_edges_) + i] = more[i]
              /\ \A n \in 0..(Len(backward_offset_array_) - 2) :
                    Span(longer, joined, n) = Span(backward_offset_array_, backward_edges_, n)
              /\ Span(longer, joined, Len(backward_offset_array_) - 1) = more
      BY <1>5, <1>8, SpanAppends
    <2> QED BY <1>1, <2>1, Zenon
  <1>10. Joined' = Joined + 1
    BY <1>5, <1>9 DEF Joined, Offsets
  <1>11. LeadToNodes(backward_edges_)' /\ Raw(backward_edges_)'
    <2>1. Len(backward_edges_) \in Nat /\ Len(more) \in Nat
      BY <1>5, <1>8
    <2>2. ASSUME NEW i \in 1..Len(backward_edges_')
          PROVE  \/ \E k \in 1..Len(backward_edges_) : backward_edges_'[i] = backward_edges_[k]
                 \/ \E k \in 1..Len(more) : backward_edges_'[i] = more[k]
      <3>1. CASE i <= Len(backward_edges_)
        BY <1>9, <2>1, <3>1
      <3>2. CASE i > Len(backward_edges_)
        <4>1. /\ i - Len(backward_edges_) \in 1..Len(more)
              /\ Len(backward_edges_) + (i - Len(backward_edges_)) = i
          BY <1>9, <2>1, <3>2
        <4> QED BY <1>9, <4>1
      <3> QED BY <2>1, <3>1, <3>2
    <2>3. LeadToNodes(backward_edges_')
      BY <1>3, <1>8, <2>2 DEF LeadToNodes
    <2>4. Raw(backward_edges_')
      BY <1>3, <1>8, <2>2 DEF Raw
    <2>5. LeadToNodes(backward_edges_)'
      BY <1>3, <2>3 DEF LeadToNodes
    <2>6. Raw(backward_edges_)'
      BY <1>1, <1>3, <2>4 DEF Raw, HasCustomWeights
    <2> QED BY <2>5, <2>6
  <1>12. TypeOK'
    BY <1>1, <1>3, <1>4, <1>9 DEF TypeOK, Offsets
  <1>13. CollectInv'
    <2>1. ASSUME NEW n \in 0..(Joined' - 1) PROVE getInverseEdgesOf(n)' = adjacency_list[n]
      <3>1. CASE n \in 0..(Joined - 1)
        <4>1. getInverseEdgesOf(n)' = getInverseEdgesOf(n)
          BY <1>5, <1>9, <3>1 DEF getInverseEdgesOf
        <4> QED BY <1>4, <3>1, <4>1
      <3>2. CASE n = Joined
        <4>1. n = Len(backward_offset_array_) - 1
          BY <3>2 DEF Joined
        <4>2. getInverseEdgesOf(n)' = more
          BY <1>9, <4>1 DEF getInverseEdgesOf
        <4> QED BY <3>2, <4>2 DEF more
      <3> HIDE DEF Joined
      <3> QED BY <1>5, <1>10, <3>1, <3>2
    <2>2. (Joined <= getNumberOfNodes)'
      <3> HIDE DEF Joined, getNumberOfNodes
      <3> QED BY <1>1, <1>3, <1>5, <1>6, <1>10
    <2>3. \A u, v \in NodeIds : TurnedAre(u, v, Len(getEdgesOf(u)))'
      BY <1>1, <1>3, <1>4 DEF TurnedAre
    <2>4. \A n \in NodeIds : LeadToNodes(adjacency_list[n])' /\ Raw(adjacency_list[n])'
      BY <1>1, <1>3, <1>4 DEF LeadToNodes, Raw
    <2> QED BY <1>1, <1>3, <1>4, <2>1, <2>2, <2>3, <2>4 DEF CollectInv
  <1>14. /\ MirrorInv' /\ (IsBuilt => Built)'
         /\ OffsetsCover(backward_offset_array_, backward_edges_)'
    BY <1>1, <1>9 DEF MirrorInv, IsBuilt, Offsets
  <1> QED BY <1>3, <1>11, <1>12, <1>13, <1>14 DEF IInv

\* The lists of the heads are the spans of the in-edges.
LEMMA JoinDoneStep == ASSUME IInv, JoinDone PROVE IInv'
  <1>1. /\ pc = "join" /\ pc' = "inverse" /\ Joined = getNumberOfNodes
        /\ UNCHANGED <<parameters, reader>> /\ UNCHANGED forward /\ UNCHANGED backward
        /\ adjacency_list' = adjacency_list /\ from' = from /\ position' = position
    BY DEF JoinDone, collector
  <1>2. pc \in Collecting /\ pc' \in {"collect", "join", "inverse"}
    BY <1>1 DEF Collecting
  <1>3. /\ file' = file /\ inverse' = inverse /\ random_edge_weights' = random_edge_weights
        /\ adj_list' = adj_list /\ max' = max /\ lines_read' = lines_read
        /\ contains_meta_data' = contains_meta_data
        /\ HasCustomWeights' = HasCustomWeights
        /\ FileInv' /\ SkipInv' /\ EdgeListInv' /\ VertexListInv'
        /\ forward_offset_array_' = forward_offset_array_ /\ forward_edges_' = forward_edges_
        /\ getNumberOfNodes' = getNumberOfNodes /\ NodeIds' = NodeIds
        /\ \A n : getEdgesOf(n)' = getEdgesOf(n)
        /\ OffsetsCover(forward_offset_array_, forward_edges_)'
        /\ LeadToNodes(backward_edges_) /\ Raw(backward_edges_)
        /\ LeadToNodes(backward_edges_)' /\ Raw(backward_edges_)' => ArraysHoldTheFile'
    BY <1>1, <1>2, ForwardStays
  <1>4. /\ backward_offset_array_' = backward_offset_array_
        /\ backward_edges_' = backward_edges_
        /\ \A n : getInverseEdgesOf(n)' = getInverseEdgesOf(n)
    BY <1>1, BackwardSame
  <1>5. ArraysHoldTheFile'
    <2>1. LeadToNodes(backward_edges_)' /\ Raw(backward_edges_)'
      BY <1>1, <1>3, <1>4 DEF LeadToNodes, Raw
    <2> QED BY <1>3, <2>1
  <1>6. /\ TypeOK
        /\ \A u, v \in NodeIds : TurnedAre(u, v, Len(getEdgesOf(u)))
        /\ \A n \in 0..(Joined - 1) : getInverseEdgesOf(n) = adjacency_list[n]
    BY <1>1 DEF IInv, CollectInv
  <1>7. TypeOK'
    BY <1>1, <1>3, <1>4, <1>6 DEF TypeOK
  <1>8. MirrorInv'
    <2>1. Joined' = Joined /\ 0..(Joined - 1) = NodeIds
      BY <1>1, <1>4 DEF Joined, NodeIds
    <2>2. ASSUME NEW u \in NodeIds, NEW v \in NodeIds
          PROVE  Weights(EdgesBetween(u, v)') = Weights(BackEdgesBetween(u, v)')
      <3>1. EdgesBetween(u, v)' = LedTo(v, getEdgesOf(u))[Len(getEdgesOf(u))]
        BY <1>3 DEF EdgesBetween
      <3>2. BackEdgesBetween(u, v)' = LedTo(u, adjacency_list[v])[Len(adjacency_list[v])]
        <4>1. getInverseEdgesOf(v)' = adjacency_list[v]
          BY <1>4, <1>6, <2>1
        <4> QED BY <4>1 DEF BackEdgesBetween
      <3>3. TurnedAre(u, v, Len(getEdgesOf(u)))
        BY <1>6
      <3> QED BY <3>1, <3>2, <3>3 DEF TurnedAre
    <2>3. \A u, v : /\ Weights(EdgesBetween(u, v))' = Weights(EdgesBetween(u, v)')
                    /\ Weights(BackEdgesBetween(u, v))' = Weights(BackEdgesBetween(u, v)')
      BY DEF Weights
    <2> QED BY <1>1, <1>3, <2>1, <2>2, <2>3 DEF MirrorInv
  <1>9. /\ CollectInv' /\ (IsBuilt => Built)'
        /\ OffsetsCover(backward_offset_array_, backward_edges_)'
    BY <1>1, <1>4 DEF IInv, CollectInv, IsBuilt, OffsetsCover
  <1> QED BY <1>3, <1>5, <1>7, <1>8, <1>9 DEF IInv

-----------------------------------------------------------------------------
(* The swap of the views.                                                  *)

\* The two views change places, or stay.
LEMMA CallInverseStep == ASSUME IInv, CallInverse PROVE IInv'
  <1>1. /\ pc = "inverse" /\ pc' = "normalise"
        /\ UNCHANGED <<parameters, reader>>
        /\ adjacency_list' = adjacency_list /\ from' = from /\ position' = position
        /\ inverse => swap
        /\ ~inverse => UNCHANGED <<forward, backward>>
    BY DEF CallInverse, collector
  <1>2. lines_read = Len(lines) /\ IsRead /\ pc' # "read" /\ pc' # "append"
    BY <1>1 DEF IInv, SkipInv, IsRead
  <1>3. /\ file' = file /\ inverse' = inverse /\ random_edge_weights' = random_edge_weights
        /\ adj_list' = adj_list /\ max' = max /\ lines_read' = lines_read
        /\ contains_meta_data' = contains_meta_data
        /\ lines' = lines /\ Plain' = Plain /\ HasCustomWeights' = HasCustomWeights
        /\ FileInv' /\ SkipInv' /\ EdgeListInv' /\ VertexListInv'
    BY <1>1, <1>2, AlreadyRead
  <1>4. /\ inverse => /\ forward_offset_array_' = backward_offset_array_
                      /\ backward_offset_array_' = forward_offset_array_
                      /\ forward_edges_' = backward_edges_ /\ backward_edges_' = forward_edges_
        /\ ~inverse => /\ forward_offset_array_' = forward_offset_array_
                       /\ backward_offset_array_' = backward_offset_array_
                       /\ forward_edges_' = forward_edges_ /\ backward_edges_' = backward_edges_
    BY <1>1 DEF swap, forward, backward
  <1>5. /\ TypeOK /\ ArraysHoldTheFile /\ Joined = getNumberOfNodes
        /\ \A u, v \in NodeIds : Weights(EdgesBetween(u, v)) = Weights(BackEdgesBetween(u, v))
        /\ OffsetsCover(forward_offset_array_, forward_edges_)
        /\ OffsetsCover(backward_offset_array_, backward_edges_)
    BY <1>1 DEF IInv, MirrorInv
  <1>6. TypeOK'
    BY <1>1, <1>3, <1>4, <1>5 DEF TypeOK
  <1>7. /\ OffsetsCover(forward_offset_array_, forward_edges_)'
        /\ OffsetsCover(backward_offset_array_, backward_edges_)'
    BY <1>4, <1>5
  <1>8. /\ getNumberOfNodes' = getNumberOfNodes /\ NodeIds' = NodeIds /\ Joined' = getNumberOfNodes'
    BY <1>4, <1>5 DEF getNumberOfNodes, NodeIds, Joined
  <1>9. /\ inverse => \A n : /\ getEdgesOf(n)' = getInverseEdgesOf(n)
                             /\ getInverseEdgesOf(n)' = getEdgesOf(n)
        /\ ~inverse => \A n : /\ getEdgesOf(n)' = getEdgesOf(n)
                              /\ getInverseEdgesOf(n)' = getInverseEdgesOf(n)
    BY <1>4 DEF getEdgesOf, getInverseEdgesOf
  <1>10. /\ LeadToNodes(forward_edges_)' /\ LeadToNodes(backward_edges_)'
         /\ Raw(forward_edges_)' /\ Raw(backward_edges_)'
    <2>1. /\ LeadToNodes(forward_edges_) /\ LeadToNodes(backward_edges_)
          /\ Raw(forward_edges_) /\ Raw(backward_edges_)
      BY <1>2, <1>5 DEF ArraysHoldTheFile
    <2>2. LeadToNodes(forward_edges_)' /\ LeadToNodes(backward_edges_)'
      BY <1>4, <1>8, <2>1 DEF LeadToNodes
    <2>3. Raw(forward_edges_)' /\ Raw(backward_edges_)'
      <3>1. CASE inverse
        BY <1>1, <1>3, <1>4, <2>1, <3>1 DEF Raw
      <3>2. CASE ~inverse
        BY <1>1, <1>3, <1>4, <2>1, <3>2 DEF Raw
      <3> QED BY <3>1, <3>2
    <2> QED BY <2>2, <2>3
  <1>11. ASSUME Plain
         PROVE  /\ FileNodesExist'
                /\ \A n \in NodeIds :
                      /\ Destinations(Original(n)') = Destinations(FileEdges(n)')
                      /\ ~random_edge_weights => Original(n)' = FileEdges(n)'
    <2>1. /\ FileNodesExist
          /\ \A n \in NodeIds :
                /\ Destinations(Original(n)) = Destinations(FileEdges(n))
                /\ ~random_edge_weights => Original(n) = FileEdges(n)
      BY <1>1, <1>2, <1>5, <1>11 DEF ArraysHoldTheFile
    <2>2. \A n : Original(n)' = Original(n)
      BY <1>1, <1>3, <1>9 DEF Original, Swapped
    <2>3. \A n : FileEdges(n)' = FileEdges(n)
      BY <1>3 DEF FileEdges
    <2>4. FileNodesExist'
      BY <1>3, <1>8, <2>1 DEF FileNodesExist
    <2> QED BY <2>1, <2>2, <2>3, <2>4
  <1>12. ArraysHoldTheFile'
    <2>1. \A n : /\ Destinations(Original(n))' = Destinations(Original(n)')
                 /\ Destinations(FileEdges(n))' = Destinations(FileEdges(n)')
      BY DEF Destinations
    <2> QED BY <1>3, <1>8, <1>10, <1>11, <2>1 DEF ArraysHoldTheFile
  <1>13. MirrorInv'
    <2>1. inverse => \A u, v : /\ EdgesBetween(u, v)' = BackEdgesBetween(v, u)
                               /\ BackEdgesBetween(u, v)' = EdgesBetween(v, u)
      BY <1>9 DEF EdgesBetween, BackEdgesBetween
    <2>2. ~inverse => \A u, v : /\ EdgesBetween(u, v)' = EdgesBetween(u, v)
                                /\ BackEdgesBetween(u, v)' = BackEdgesBetween(u, v)
      BY <1>9 DEF EdgesBetween, BackEdgesBetween
    <2>3. ASSUME NEW u \in NodeIds, NEW v \in NodeIds
          PROVE  Weights(EdgesBetween(u, v)') = Weights(BackEdgesBetween(u, v)')
      BY <1>5, <2>1, <2>2
    <2>4. \A u, v : /\ Weights(EdgesBetween(u, v))' = Weights(EdgesBetween(u, v)')
                    /\ Weights(BackEdgesBetween(u, v))' = Weights(BackEdgesBetween(u, v)')
      BY DEF Weights
    <2> QED BY <1>8, <2>3, <2>4 DEF MirrorInv
  <1>14. CollectInv' /\ (IsBuilt => Built)'
    BY <1>1 DEF CollectInv, IsBuilt
  <1> QED BY <1>3, <1>6, <1>7, <1>12, <1>13, <1>14 DEF IInv

-----------------------------------------------------------------------------
(* Counting and adding up.                                                 *)

LEMMA Quotient ==
    ASSUME NEW a \in Nat, NEW d \in Nat \ {0}
    PROVE  /\ a \div d \in 0..a
           /\ d * (a \div d) = a - (a % d)
  <1>1. a = d * (a \div d) + (a % d) /\ a % d \in 0..(d - 1) /\ a \div d \in Int
    OBVIOUS
  <1> DEFINE q == a \div d
             r == a % d
  <1>2. q \in Int /\ r \in Nat /\ r < d /\ a = d * q + r
    BY <1>1
  <1> HIDE DEF q, r
  <1>3. q >= 0
    <2> SUFFICES ASSUME q <= -1 PROVE FALSE
      BY <1>2
    <2>1. d * q <= d * (-1)
      BY <1>2
    <2> QED BY <1>2, <2>1
  <1>4. q <= a
    <2>1. q <= d * q
      BY <1>2, <1>3
    <2> QED BY <1>2, <2>1
  <1> QED BY <1>2, <1>3, <1>4 DEF q, r

\* What is picked of a list of edges are its edges to the node.
LEMMA LedToKept ==
    ASSUME NEW edges \in Seq(Edge), NEW n \in Nat,
           NEW i \in 1..Len(LedTo(n, edges)[Len(edges)])
    PROVE  \E j \in 1..Len(edges) : edges[j].destination = n
                                       /\ LedTo(n, edges)[Len(edges)][i] = edges[j]
  <1> DEFINE keep == [j \in 1..Len(edges) |-> edges[j].destination = n]
             l == Len(edges)
  <1>1. keep \in [1..Len(edges) -> BOOLEAN]
    OBVIOUS
  <1>2. \A j \in 1..Len(edges) : keep[j] <=> edges[j].destination = n
    OBVIOUS
  <1>3. LedTo(n, edges) = Picks(edges, keep)
    BY DEF LedTo
  <1>4. l \in 0..Len(edges)
    OBVIOUS
  <1> HIDE DEF keep
  <1>5. i \in 1..Len(Picks(edges, keep)[l])
    BY <1>3
  <1> HIDE DEF l
  <1>6. WasKept(Picks(edges, keep)[l][i], edges, keep, l)
    BY <1>1, <1>4, <1>5, PicksAreKept
  <1> QED BY <1>2, <1>3, <1>6 DEF l, WasKept

\* An edge to the node is picked.
LEMMA LedToHolds ==
    ASSUME NEW edges \in Seq(Edge), NEW n \in Nat,
           NEW j \in 1..Len(edges), edges[j].destination = n
    PROVE  Len(LedTo(n, edges)[Len(edges)]) > 0
  <1> DEFINE P == LedTo(n, edges)
             Long == {d \in Nat : j + d <= Len(edges) => Len(P[j + d]) > 0}
  <1>1. /\ \A i \in 0..Len(edges) : P[i] \in Seq(Edge)
        /\ \A i \in 1..Len(edges) :
              P[i] = IF edges[i].destination = n THEN Append(P[i - 1], edges[i]) ELSE P[i - 1]
    BY LedToFollow
  <1>2. Len(edges) \in Nat /\ \A i \in 1..Len(edges) : edges[i] \in Edge
    OBVIOUS
  <1> HIDE DEF P
  <1>3. \A i \in 1..Len(edges) : i - 1 \in 0..Len(edges) /\ P[i - 1] \in Seq(Edge)
    BY <1>1, <1>2
  <1>4. 0 \in Long
    <2>1. P[j] = Append(P[j - 1], edges[j]) /\ P[j - 1] \in Seq(Edge)
      BY <1>1, <1>3
    <2>2. Len(P[j]) > 0
      BY <1>2, <2>1
    <2> QED BY <2>2
  <1>5. ASSUME NEW d \in Nat \cap Long PROVE d + 1 \in Long
    <2> SUFFICES ASSUME j + (d + 1) <= Len(edges) PROVE Len(P[j + (d + 1)]) > 0
      OBVIOUS
    <2>1. /\ j + (d + 1) \in 1..Len(edges) /\ (j + (d + 1)) - 1 = j + d /\ Len(P[j + d]) > 0
      BY <1>2
    <2> HIDE DEF Long
    <2>2. P[j + d] \in Seq(Edge)
      BY <1>3, <2>1
    <2>3. P[j + (d + 1)] = IF edges[j + (d + 1)].destination = n
                           THEN Append(P[j + d], edges[j + (d + 1)]) ELSE P[j + d]
      BY <1>1, <2>1
    <2> QED BY <1>2, <2>1, <2>2, <2>3
  <1>6. Nat \subseteq Long
    <2> HIDE DEF Long
    <2> QED BY <1>4, <1>5, Induction
  <1>7. Len(edges) - j \in Nat /\ j + (Len(edges) - j) = Len(edges)
    BY <1>2
  <1> QED BY <1>2, <1>6, <1>7 DEF P

\* How many edges lead to a node depends on the destinations alone.
SameDestinations(s, t) ==
    Len(s) = Len(t) /\ \A i \in 1..Len(s) : s[i].destination = t[i].destination

LEMMA LedToCount ==
    ASSUME NEW s \in Seq(Edge), NEW t \in Seq(Edge), SameDestinations(s, t), NEW n \in Nat
    PROVE  Len(LedTo(n, s)[Len(s)]) = Len(LedTo(n, t)[Len(t)])
  <1> DEFINE keep == [i \in 1..Len(s) |-> s[i].destination = n]
  <1>1. keep \in [1..Len(s) -> BOOLEAN] /\ Len(s) \in 0..Len(s)
    OBVIOUS
  <1>2. Len(s) = Len(t)
    BY DEF SameDestinations
  <1>3. LedTo(n, s) = Picks(s, keep) /\ LedTo(n, t) = Picks(t, keep)
    <2>1. keep = [i \in 1..Len(t) |-> t[i].destination = n]
      BY DEF SameDestinations
    <2> QED BY <2>1 DEF LedTo
  <1> HIDE DEF keep
  <1>4. \A i \in 0..Len(s) : Len(Picks(s, keep)[i]) = Len(Picks(t, keep)[i])
    <2>1. keep \in [1..Len(s) -> BOOLEAN]
      BY <1>1
    <2> HIDE DEF SameDestinations
    <2> QED BY <1>2, <2>1, PicksCount
  <1> QED BY <1>1, <1>2, <1>3, <1>4

LEMMA SumOfConstants ==
    ASSUME NEW s \in Seq(Int), NEW c \in Int, \A i \in 1..Len(s) : s[i] = c
    PROVE  SumOfSeq(s) = Len(s) * c
  <1> DEFINE f == [n \in Nat |-> n * c]
  <1>1. Len(s) \in Nat
    OBVIOUS
  <1>2. f \in [Nat -> Int] /\ \A n \in Nat : f[n] = n * c
    OBVIOUS
  <1>3. \A n \in Nat : f[n + 1] = f[n] + c
    <2> TAKE n \in Nat
    <2>1. (n + 1) * c = n * c + c
      OBVIOUS
    <2> QED BY <1>2, <2>1
  <1> HIDE DEF f
  <1>4. \A i \in 1..Len(s) : i - 1 \in Nat /\ (i - 1) + 1 = i
    BY <1>1
  <1>5. \A i \in 1..Len(s) : f[i] = f[i - 1] + s[i]
    BY <1>3, <1>4
  <1>6. f[0] = 0
    BY <1>2
  <1>7. AddsUp(s, Len(s) * c)
    BY <1>1, <1>2, <1>5, <1>6 DEF AddsUp
  <1> QED BY <1>7, SumAddsUp, AddsUpOnce

\* The edges of a list are as many as those that are picked for the nodes.
LEMMA PicksAddUp ==
    ASSUME NEW edges \in Seq(Edge), NEW nodes \in Nat, NEW c \in Int,
           \A i \in 1..Len(edges) : edges[i].destination \in 0..(nodes - 1)
    PROVE  SumOfSeq([u \in 1..nodes |-> c * Len(LedTo(u - 1, edges)[Len(edges)])]) = Len(edges) * c
  <1> DEFINE picked(k) == [u \in 1..nodes |-> c * Len(LedTo(u - 1, edges)[k])]
             Good == {k \in Nat : k <= Len(edges) => SumOfSeq(picked(k)) = k * c}
  <1>1. Len(edges) \in Nat /\ \A i \in 1..Len(edges) : edges[i] \in Edge
    OBVIOUS
  <1>2. \A u \in 1..nodes :
           /\ LedTo(u - 1, edges)[0] = <<>>
           /\ \A i \in 0..Len(edges) : LedTo(u - 1, edges)[i] \in Seq(Edge)
           /\ \A i \in 1..Len(edges) : LedTo(u - 1, edges)[i] =
                 IF edges[i].destination = u - 1 THEN Append(LedTo(u - 1, edges)[i - 1], edges[i])
                 ELSE LedTo(u - 1, edges)[i - 1]
    <2> TAKE u \in 1..nodes
    <2>1. u - 1 \in Nat
      OBVIOUS
    <2> QED BY <2>1, LedToFollow
  <1>3. ASSUME NEW k \in 0..Len(edges)
        PROVE  /\ picked(k) \in Seq(Int) /\ Len(picked(k)) = nodes
               /\ \A u \in 1..nodes : picked(k)[u] = c * Len(LedTo(u - 1, edges)[k])
    <2> DEFINE e(u) == c * Len(LedTo(u - 1, edges)[k])
    <2>1. \A u \in 1..nodes : e(u) \in Int
      BY <1>2
    <2> HIDE DEF e
    <2> DEFINE new == [u \in 1..nodes |-> e(u)]
    <2>2. new \in [1..nodes -> Int]
      BY <2>1
    <2>3. new \in Seq(Int) /\ Len(new) = nodes
      <3> HIDE DEF new
      <3> QED BY <2>2, ListOf
    <2> QED BY <2>3 DEF e
  <1> HIDE DEF picked
  <1>4. 0 \in Good
    <2>1. 0 \in 0..Len(edges)
      BY <1>1
    <2>2. ASSUME NEW u \in 1..nodes PROVE picked(0)[u] = 0
      <3>1. picked(0)[u] = c * Len(LedTo(u - 1, edges)[0])
        BY <1>3, <2>1
      <3>2. Len(LedTo(u - 1, edges)[0]) = 0
        BY <1>2
      <3> QED BY <3>1, <3>2
    <2>3. SumOfSeq(picked(0)) = 0
      BY <1>3, <2>1, <2>2, SumOfZeros
    <2> QED BY <2>3
  <1>5. ASSUME NEW k \in Nat \cap Good PROVE k + 1 \in Good
    <2> SUFFICES ASSUME k + 1 <= Len(edges) PROVE SumOfSeq(picked(k + 1)) = (k + 1) * c
      OBVIOUS
    <2>1. /\ k \in 0..Len(edges) /\ k + 1 \in 0..Len(edges) /\ k + 1 \in 1..Len(edges)
          /\ (k + 1) - 1 = k /\ SumOfSeq(picked(k)) = k * c
      BY <1>1
    <2> HIDE DEF Good
    <2> DEFINE h == edges[k + 1].destination + 1
    <2>2. h \in 1..nodes /\ h - 1 = edges[k + 1].destination
      BY <2>1
    <2>3. \A u \in 1..nodes : u - 1 = edges[k + 1].destination <=> u = h
      BY <2>2
    <2> HIDE DEF h
    <2>4. ASSUME NEW u \in 1..nodes
          PROVE  picked(k + 1)[u] = IF u = h THEN picked(k)[u] + c ELSE picked(k)[u]
      <3> DEFINE p == LedTo(u - 1, edges)[k]
      <3>1. LedTo(u - 1, edges)[k + 1] = IF u = h THEN Append(p, edges[k + 1]) ELSE p
        BY <1>2, <2>1, <2>3
      <3>2. p \in Seq(Edge) /\ edges[k + 1] \in Edge
        BY <1>1, <1>2, <2>1
      <3>3. picked(k + 1)[u] = c * Len(LedTo(u - 1, edges)[k + 1]) /\ picked(k)[u] = c * Len(p)
        BY <1>3, <2>1
      <3> HIDE DEF p
      <3>4. Len(p) \in Nat /\ Len(Append(p, edges[k + 1])) = Len(p) + 1
        BY <3>2
      <3>5. c * (Len(p) + 1) = c * Len(p) + c
        BY <3>4
      <3> QED BY <3>1, <3>3, <3>4, <3>5
    <2>5. Grown(picked(k + 1), picked(k), h, c)
      BY <1>3, <2>1, <2>4 DEF Grown
    <2>6. SumOfSeq(picked(k + 1)) = SumOfSeq(picked(k)) + c
      <3>1. /\ picked(k) \in Seq(Int) /\ picked(k + 1) \in Seq(Int)
            /\ h \in 1..Len(picked(k))
        BY <1>3, <2>1, <2>2
      <3> QED BY <2>5, <3>1, SumGrows
    <2>7. (k + 1) * c = k * c + c
      OBVIOUS
    <2> QED BY <2>1, <2>6, <2>7
  <1>6. Nat \subseteq Good
    <2> HIDE DEF Good
    <2> QED BY <1>4, <1>5, Induction
  <1>7. SumOfSeq(picked(Len(edges))) = Len(edges) * c
    BY <1>1, <1>6
  <1> QED BY <1>7 DEF picked

-----------------------------------------------------------------------------
(* The weights that are calculated.                                        *)

\* What holds when the weights are calculated.
LEMMA Normalising ==
    ASSUME IInv, pc = "normalise"
    PROVE  /\ TypeOK /\ lines_read = Len(lines) /\ IsRead
           /\ OffsetsCover(forward_offset_array_, forward_edges_)
           /\ OffsetsCover(backward_offset_array_, backward_edges_)
           /\ LeadToNodes(forward_edges_) /\ LeadToNodes(backward_edges_)
           /\ Raw(forward_edges_) /\ Raw(backward_edges_)
           /\ getNumberOfNodes \in Nat /\ NodeIds \subseteq Nat
           /\ NodeIds = 0..(Len(forward_offset_array_) - 2)
           /\ NodeIds = 0..(Len(backward_offset_array_) - 2)
           /\ Len(forward_offset_array_) = Len(backward_offset_array_)
           /\ forward_edges_ \in Seq(Edge) /\ Offsets(forward_offset_array_, forward_edges_)
           /\ backward_edges_ \in Seq(Edge) /\ Offsets(backward_offset_array_, backward_edges_)
           /\ \A n \in NodeIds : getEdgesOf(n) \in Seq(Edge) /\ getInverseEdgesOf(n) \in Seq(Edge)
           /\ \A n \in NodeIds : LeadToNodes(getEdgesOf(n)) /\ LeadToNodes(getInverseEdgesOf(n))
           /\ \A n \in NodeIds : Raw(getEdgesOf(n)) /\ Raw(getInverseEdgesOf(n))
           /\ \A n \in NodeIds : getInDegreeOf(n) \in Nat
           /\ \A u, v \in NodeIds : Weights(EdgesBetween(u, v)) = Weights(BackEdgesBetween(u, v))
  <1>1. /\ TypeOK /\ ArraysHoldTheFile /\ IsRead /\ lines_read = Len(lines)
        /\ OffsetsCover(forward_offset_array_, forward_edges_)
        /\ OffsetsCover(backward_offset_array_, backward_edges_)
        /\ Joined = getNumberOfNodes
        /\ \A u, v \in NodeIds : Weights(EdgesBetween(u, v)) = Weights(BackEdgesBetween(u, v))
    BY DEF IInv, MirrorInv, IsRead, SkipInv
  <1>2. /\ LeadToNodes(forward_edges_) /\ LeadToNodes(backward_edges_)
        /\ Raw(forward_edges_) /\ Raw(backward_edges_)
    BY <1>1 DEF ArraysHoldTheFile
  <1>3. /\ getNumberOfNodes \in Nat /\ NodeIds \subseteq Nat
        /\ NodeIds = 0..(Len(forward_offset_array_) - 2)
        /\ forward_edges_ \in Seq(Edge) /\ Offsets(forward_offset_array_, forward_edges_)
        /\ \A n \in NodeIds : getEdgesOf(n) \in Seq(Edge)
        /\ \A n \in NodeIds : LeadToNodes(getEdgesOf(n)) /\ Raw(getEdgesOf(n))
    BY <1>1, <1>2, Nodes
  <1>4. /\ Joined \in Nat /\ 0..(Joined - 1) = 0..(Len(backward_offset_array_) - 2)
        /\ backward_edges_ \in Seq(Edge) /\ Offsets(backward_offset_array_, backward_edges_)
        /\ \A n \in 0..(Joined - 1) :
              getInverseEdgesOf(n) \in Seq(Edge) /\ Len(getInverseEdgesOf(n)) \in Nat
        /\ \A n \in 0..(Joined - 1) : LeadToNodes(getInverseEdgesOf(n)) /\ Raw(getInverseEdgesOf(n))
    BY <1>1, <1>2, BackwardNodes
  <1>5. NodeIds = 0..(Joined - 1)
    BY <1>1 DEF NodeIds
  <1>6. Len(forward_offset_array_) = Len(backward_offset_array_)
    BY <1>1, <1>3, <1>4 DEF Joined, getNumberOfNodes, Offsets
  <1>7. \A n \in NodeIds : getInDegreeOf(n) \in Nat
    BY <1>4, <1>5 DEF getInDegreeOf
  <1> QED BY <1>1, <1>2, <1>3, <1>4, <1>5, <1>6, <1>7

\* A node that an edge leads to has an in-edge.
LEMMA HeadsHaveInEdges ==
    ASSUME IInv, pc = "normalise", NEW i \in 1..Len(forward_edges_)
    PROVE  /\ forward_edges_[i].destination \in NodeIds
           /\ getInDegreeOf(forward_edges_[i].destination) \in Nat \ {0}
  <1> DEFINE v == forward_edges_[i].destination
  <1>1. /\ LeadToNodes(forward_edges_) /\ NodeIds \subseteq Nat
        /\ NodeIds = 0..(Len(forward_offset_array_) - 2)
        /\ forward_edges_ \in Seq(Edge) /\ Offsets(forward_offset_array_, forward_edges_)
        /\ \A n \in NodeIds : getEdgesOf(n) \in Seq(Edge) /\ getInverseEdgesOf(n) \in Seq(Edge)
        /\ \A n \in NodeIds : getInDegreeOf(n) \in Nat
        /\ \A x, y \in NodeIds : Weights(EdgesBetween(x, y)) = Weights(BackEdgesBetween(x, y))
    BY Normalising
  <1>2. v \in NodeIds
    BY <1>1 DEF LeadToNodes
  <1>3. HasNode(forward_edges_[i], forward_offset_array_, forward_edges_)
    BY <1>1, EdgeHasNode
  <1>4. PICK u \in NodeIds : \E j \in 1..Len(getEdgesOf(u)) : forward_edges_[i] = getEdgesOf(u)[j]
    BY <1>1, <1>3 DEF HasNode, getEdgesOf
  <1>5. PICK j \in 1..Len(getEdgesOf(u)) : forward_edges_[i] = getEdgesOf(u)[j]
    BY <1>4
  <1>6. getEdgesOf(u)[j].destination = v
    BY <1>5
  <1> HIDE DEF v
  <1>7. Len(EdgesBetween(u, v)) > 0
    BY <1>1, <1>2, <1>6, LedToHolds DEF EdgesBetween
  <1>8. Len(BackEdgesBetween(u, v)) > 0
    <2>1. Len(getEdgesOf(u)) \in 0..Len(getEdgesOf(u))
      BY <1>1
    <2>2. Len(getInverseEdgesOf(v)) \in 0..Len(getInverseEdgesOf(v))
      BY <1>1, <1>2
    <2>3. EdgesBetween(u, v) \in Seq(Edge)
      BY <1>1, <1>2, <2>1, LedToFollow DEF EdgesBetween
    <2>4. BackEdgesBetween(u, v) \in Seq(Edge)
      BY <1>1, <1>2, <2>2, LedToFollow DEF BackEdgesBetween
    <2>5. Weights(EdgesBetween(u, v)) = Weights(BackEdgesBetween(u, v))
      BY <1>1, <1>2
    <2>6. Len(Weights(EdgesBetween(u, v))) = Len(EdgesBetween(u, v))
      BY <2>3 DEF Weights
    <2>7. Len(Weights(BackEdgesBetween(u, v))) = Len(BackEdgesBetween(u, v))
      BY <2>4 DEF Weights
    <2> QED BY <1>7, <2>5, <2>6, <2>7
  <1>9. PICK k \in 1..Len(getInverseEdgesOf(v)) : TRUE
    <2> DEFINE s == getInverseEdgesOf(v)
    <2>1. s \in Seq(Edge) /\ u \in Nat
      BY <1>1, <1>2
    <2>2. BackEdgesBetween(u, v) = LedTo(u, s)[Len(s)]
      BY DEF BackEdgesBetween
    <2>3. Len(s) \in 0..Len(s)
      BY <2>1
    <2> HIDE DEF s
    <2>4. LedTo(u, s)[Len(s)] \in Seq(Edge)
      BY <2>1, <2>3, LedToFollow
    <2>5. 1 \in 1..Len(LedTo(u, s)[Len(s)])
      BY <1>8, <2>2, <2>4
    <2>6. \E k \in 1..Len(s) : s[k].destination = u /\ LedTo(u, s)[Len(s)][1] = s[k]
      BY <2>1, <2>5, LedToKept
    <2> QED BY <2>6 DEF s
  <1>10. getInDegreeOf(v) \in Nat \ {0}
    BY <1>1, <1>2, <1>9 DEF getInDegreeOf
  <1> QED BY <1>2, <1>10 DEF v

\* The node of a backward edge is the one in whose span it is.
LEMMA BackwardOwnerIs ==
    ASSUME IInv, pc = "normalise", NEW i \in 1..Len(backward_edges_)
    PROVE  /\ BackwardOwner(i) \in NodeIds
           /\ \A n \in NodeIds : backward_offset_array_[n + 1] < i
                                    /\ i <= backward_offset_array_[n + 2] => BackwardOwner(i) = n
           /\ getInDegreeOf(BackwardOwner(i)) \in Nat \ {0}
  <1>1. /\ NodeIds = 0..(Len(backward_offset_array_) - 2)
        /\ backward_edges_ \in Seq(Edge) /\ Offsets(backward_offset_array_, backward_edges_)
    BY Normalising
  <1>2. i \in Nat
    OBVIOUS
  <1> DEFINE Owns(n) == backward_offset_array_[n + 1] < i /\ i <= backward_offset_array_[n + 2]
  <1>3. \E n \in NodeIds : Owns(n)
    BY <1>1, OwnerIs
  <1>4. BackwardOwner(i) = CHOOSE n \in NodeIds : Owns(n)
    BY DEF BackwardOwner
  <1> HIDE DEF Owns
  <1>5. BackwardOwner(i) \in NodeIds /\ Owns(BackwardOwner(i))
    BY <1>3, <1>4
  <1> DEFINE owner == BackwardOwner(i)
  <1>6. owner \in NodeIds /\ Owns(owner)
    BY <1>5
  <1> HIDE DEF owner
  <1>7. ASSUME NEW n \in NodeIds, Owns(n) PROVE owner = n
    BY <1>1, <1>2, <1>6, <1>7, OwnerIsOne DEF Owns
  <1>8. getInDegreeOf(owner) \in Nat \ {0}
    <2>1. /\ backward_offset_array_[owner + 1] \in Nat /\ backward_offset_array_[owner + 2] \in Nat
          /\ getInDegreeOf(owner)
                = backward_offset_array_[owner + 2] - backward_offset_array_[owner + 1]
      <3>1. owner \in 0..(Len(backward_offset_array_) - 2)
        BY <1>1, <1>6
      <3>2. /\ backward_edges_ \in Seq(Edge)
            /\ Offsets(backward_offset_array_, backward_edges_)
        BY <1>1
      <3>3. /\ backward_offset_array_[owner + 1] \in Nat /\ backward_offset_array_[owner + 2] \in Nat
            /\ Len(Span(backward_offset_array_, backward_edges_, owner))
                  = backward_offset_array_[owner + 2] - backward_offset_array_[owner + 1]
        BY <3>1, <3>2, SpanHolds DEF IsSpan
      <3> QED BY <3>3 DEF getInDegreeOf, getInverseEdgesOf
    <2> QED BY <1>2, <1>6, <2>1 DEF Owns
  <1> QED BY <1>6, <1>7, <1>8 DEF owner, Owns

\* Every calculated weight is one.
LEMMA CalculatedWeights ==
    ASSUME IInv, pc = "normalise"
    PROVE  /\ \A i \in 1..Len(forward_edges_) : ForwardWeight(forward_edges_[i]) \in 0..One
           /\ \A i \in 1..Len(backward_edges_) : BackwardWeight(i) \in 0..One
  <1>1. One \in Nat
    BY Units
  <1>2. ASSUME NEW i \in 1..Len(forward_edges_) PROVE ForwardWeight(forward_edges_[i]) \in 0..One
    <2>1. getInDegreeOf(forward_edges_[i].destination) \in Nat \ {0}
      BY HeadsHaveInEdges
    <2>2. InverseInDegree(forward_edges_[i].destination) \in 0..One
      BY <1>1, <2>1, Quotient DEF InverseInDegree
    <2>3. forward_edges_[i].weight \in AllWeights
      <3>1. forward_edges_ \in Seq(Edge)
        BY Normalising
      <3>2. forward_edges_[i] \in Edge
        BY <3>1
      <3> QED BY <3>2 DEF Edge
    <2> QED BY <2>2, <2>3 DEF ForwardWeight, AllWeights
  <1>3. ASSUME NEW i \in 1..Len(backward_edges_) PROVE BackwardWeight(i) \in 0..One
    <2>1. getInDegreeOf(BackwardOwner(i)) \in Nat \ {0}
      BY BackwardOwnerIs
    <2> QED BY <1>1, <2>1, Quotient DEF BackwardWeight, InverseInDegree
  <1> QED BY <1>2, <1>3

\* The step leaves the edges where they are, and gives each of them a weight.
LEMMA WeightsAreGiven ==
    ASSUME IInv, calculateEdgeWeights
    PROVE  /\ forward_edges_' \in Seq(Edge) /\ Offsets(forward_offset_array_, forward_edges_')
           /\ backward_edges_' \in Seq(Edge) /\ Offsets(backward_offset_array_, backward_edges_')
           /\ SameDestinations(forward_edges_', forward_edges_)
           /\ SameDestinations(backward_edges_', backward_edges_)
           /\ \A i \in 1..Len(forward_edges_) : forward_edges_'[i].weight # NaN
           /\ \A i \in 1..Len(backward_edges_) : backward_edges_'[i].weight # NaN
           /\ \A n \in NodeIds : SameDestinations(getEdgesOf(n)', getEdgesOf(n))
           /\ \A n \in NodeIds : SameDestinations(getInverseEdgesOf(n)', getInverseEdgesOf(n))
           /\ random_edge_weights => \A n : /\ getEdgesOf(n)' = getEdgesOf(n)
                                            /\ getInverseEdgesOf(n)' = getInverseEdgesOf(n)
           /\ ~random_edge_weights => \A n \in NodeIds :
                 /\ \A i \in 1..Len(getEdgesOf(n)) :
                       getEdgesOf(n)'[i].weight = ForwardWeight(getEdgesOf(n)[i])
                 /\ \A i \in 1..Len(getInverseEdgesOf(n)) :
                       getInverseEdgesOf(n)'[i].weight = InverseInDegree(n)
  <1> DEFINE fw == [i \in 1..Len(forward_edges_) |-> ForwardWeight(forward_edges_[i])]
             bw == [i \in 1..Len(backward_edges_) |-> BackwardWeight(i)]
  <1>1. /\ pc = "normalise"
        /\ forward_offset_array_' = forward_offset_array_
        /\ backward_offset_array_' = backward_offset_array_
        /\ random_edge_weights =>
              forward_edges_' = forward_edges_ /\ backward_edges_' = backward_edges_
        /\ ~random_edge_weights => /\ forward_edges_' = Weighted(forward_edges_, fw)
                                   /\ backward_edges_' = Weighted(backward_edges_, bw)
    BY DEF calculateEdgeWeights
  <1>2. /\ Raw(forward_edges_) /\ Raw(backward_edges_)
        /\ NodeIds = 0..(Len(forward_offset_array_) - 2)
        /\ NodeIds = 0..(Len(backward_offset_array_) - 2)
        /\ forward_edges_ \in Seq(Edge) /\ Offsets(forward_offset_array_, forward_edges_)
        /\ backward_edges_ \in Seq(Edge) /\ Offsets(backward_offset_array_, backward_edges_)
        /\ \A n \in NodeIds : getEdgesOf(n) \in Seq(Edge) /\ getInverseEdgesOf(n) \in Seq(Edge)
    BY <1>1, Normalising
  <1>3. /\ \A i \in 1..Len(forward_edges_) :
              fw[i] = ForwardWeight(forward_edges_[i]) /\ fw[i] \in 0..One
        /\ \A i \in 1..Len(backward_edges_) : bw[i] = BackwardWeight(i) /\ bw[i] \in 0..One
    BY <1>1, CalculatedWeights
  <1>4. /\ \A i \in 1..Len(forward_edges_) : fw[i] \in AllWeights /\ fw[i] # NaN
        /\ \A i \in 1..Len(backward_edges_) : bw[i] \in AllWeights /\ bw[i] # NaN
    BY <1>3, Units DEF AllWeights
  <1> HIDE DEF fw, bw
  <1>5. CASE random_edge_weights
    <2>1. \A n : getEdgesOf(n)' = getEdgesOf(n) /\ getInverseEdgesOf(n)' = getInverseEdgesOf(n)
      BY <1>1, <1>5 DEF getEdgesOf, getInverseEdgesOf
    <2>2. /\ \A i \in 1..Len(forward_edges_) : forward_edges_'[i].weight # NaN
          /\ \A i \in 1..Len(backward_edges_) : backward_edges_'[i].weight # NaN
      BY <1>1, <1>2, <1>5 DEF Raw
    <2> QED BY <1>1, <1>2, <1>5, <2>1, <2>2 DEF SameDestinations
  <1>6. CASE ~random_edge_weights
    <2>1. forward_edges_' = Weighted(forward_edges_, fw) /\ backward_edges_' = Weighted(backward_edges_, bw)
      BY <1>1, <1>6
    <2>2. /\ Weighted(forward_edges_, fw) \in Seq(Edge)
          /\ Len(Weighted(forward_edges_, fw)) = Len(forward_edges_)
          /\ \A i \in 1..Len(forward_edges_) :
                /\ Weighted(forward_edges_, fw)[i].destination = forward_edges_[i].destination
                /\ Weighted(forward_edges_, fw)[i].weight = fw[i]
      BY <1>2, <1>4, WeightedIs
    <2>3. /\ Weighted(backward_edges_, bw) \in Seq(Edge)
          /\ Len(Weighted(backward_edges_, bw)) = Len(backward_edges_)
          /\ \A i \in 1..Len(backward_edges_) :
                /\ Weighted(backward_edges_, bw)[i].destination = backward_edges_[i].destination
                /\ Weighted(backward_edges_, bw)[i].weight = bw[i]
      BY <1>2, <1>4, WeightedIs
    <2>4. Offsets(forward_offset_array_, forward_edges_') /\ Offsets(backward_offset_array_, backward_edges_')
      BY <1>2, <2>1, <2>2, <2>3 DEF Offsets, OffsetsCover
    <2>5. /\ forward_edges_ \in Seq(Edge) /\ Offsets(forward_offset_array_, forward_edges_)
          /\ \A i \in 1..Len(forward_edges_) : fw[i] \in AllWeights
      BY <1>2, <1>4
    <2>6. /\ backward_edges_ \in Seq(Edge) /\ Offsets(backward_offset_array_, backward_edges_)
           /\ \A i \in 1..Len(backward_edges_) : bw[i] \in AllWeights
      BY <1>2, <1>4
    <2>7. ASSUME NEW n \in NodeIds
          PROVE  /\ SameDestinations(getEdgesOf(n)', getEdgesOf(n))
                 /\ \A i \in 1..Len(getEdgesOf(n)) :
                       getEdgesOf(n)'[i].weight = ForwardWeight(getEdgesOf(n)[i])
      <3> DEFINE s == Span(forward_offset_array_, forward_edges_, n)
                 t == Span(forward_offset_array_, Weighted(forward_edges_, fw), n)
      <3>1. n \in 0..(Len(forward_offset_array_) - 2)
        BY <1>2
      <3>2. /\ Len(t) = Len(s)
            /\ \A i \in 1..Len(s) :
                  /\ forward_offset_array_[n + 1] + i \in 1..Len(forward_edges_)
                  /\ t[i].destination = s[i].destination
                  /\ t[i].weight = fw[forward_offset_array_[n + 1] + i]
        BY <2>5, <3>1, SpanWeighted
      <3>3. \A i \in 1..Len(s) : s[i] = forward_edges_[forward_offset_array_[n + 1] + i]
        BY <2>5, <3>1, SpanIs
      <3>4. getEdgesOf(n) = s /\ getEdgesOf(n)' = t
        BY <1>1, <2>1 DEF getEdgesOf
      <3> HIDE DEF s, t
      <3> QED BY <1>3, <3>2, <3>3, <3>4 DEF SameDestinations
    <2>8. ASSUME NEW n \in NodeIds
          PROVE  /\ SameDestinations(getInverseEdgesOf(n)', getInverseEdgesOf(n))
                 /\ \A i \in 1..Len(getInverseEdgesOf(n)) :
                       getInverseEdgesOf(n)'[i].weight = InverseInDegree(n)
      <3> DEFINE s == Span(backward_offset_array_, backward_edges_, n)
                 t == Span(backward_offset_array_, Weighted(backward_edges_, bw), n)
                 first == backward_offset_array_[n + 1]
      <3>1. n \in 0..(Len(backward_offset_array_) - 2)
        BY <1>2
      <3>2. /\ Len(t) = Len(s)
            /\ \A i \in 1..Len(s) :
                  /\ first + i \in 1..Len(backward_edges_)
                  /\ first < first + i /\ first + i <= backward_offset_array_[n + 2]
                  /\ t[i].destination = s[i].destination
                  /\ t[i].weight = bw[first + i]
        BY <2>6, <3>1, SpanWeighted
      <3>3. ASSUME NEW k \in 1..Len(backward_edges_), first < k, k <= backward_offset_array_[n + 2]
            PROVE  bw[k] = InverseInDegree(n)
        <4>1. BackwardOwner(k) = n
          BY <1>1, <3>3, BackwardOwnerIs
        <4> QED BY <1>3, <4>1 DEF BackwardWeight
      <3>4. getInverseEdgesOf(n) = s /\ getInverseEdgesOf(n)' = t
        BY <1>1, <2>1 DEF getInverseEdgesOf
      <3> HIDE DEF s, t, first
      <3> QED BY <3>2, <3>3, <3>4 DEF SameDestinations
    <2>9. /\ SameDestinations(forward_edges_', forward_edges_)
          /\ SameDestinations(backward_edges_', backward_edges_)
      BY <2>1, <2>2, <2>3 DEF SameDestinations
    <2>10. /\ \A i \in 1..Len(forward_edges_) : forward_edges_'[i].weight # NaN
          /\ \A i \in 1..Len(backward_edges_) : backward_edges_'[i].weight # NaN
      BY <1>4, <2>1, <2>2, <2>3
    <2> QED BY <1>6, <2>1, <2>2, <2>3, <2>4, <2>7, <2>8, <2>9, <2>10
  <1> QED BY <1>5, <1>6

\* What the last step leaves alone, and what of the invariant follows at once.
LEMMA Calculated ==
    ASSUME IInv, calculateEdgeWeights
    PROVE  /\ file' = file /\ inverse' = inverse /\ random_edge_weights' = random_edge_weights
           /\ Plain' = Plain /\ HasCustomWeights' = HasCustomWeights
           /\ pc = "normalise" /\ pc' = "done"
           /\ getNumberOfNodes' = getNumberOfNodes /\ NodeIds' = NodeIds
           /\ forward_offset_array_' = forward_offset_array_
           /\ backward_offset_array_' = backward_offset_array_
           /\ FileInv' /\ SkipInv' /\ EdgeListInv' /\ VertexListInv'
           /\ CollectInv' /\ MirrorInv' /\ TypeOK'
           /\ OffsetsCover(forward_offset_array_, forward_edges_)'
           /\ OffsetsCover(backward_offset_array_, backward_edges_)'
  <1>1. /\ pc = "normalise" /\ pc' = "done"
        /\ UNCHANGED <<parameters, reader>> /\ UNCHANGED collector
        /\ forward_offset_array_' = forward_offset_array_
        /\ backward_offset_array_' = backward_offset_array_
    BY DEF calculateEdgeWeights
  <1>2. lines_read = Len(lines) /\ TypeOK
    BY <1>1, Normalising
  <1>3. /\ file' = file /\ inverse' = inverse /\ random_edge_weights' = random_edge_weights
        /\ adj_list' = adj_list /\ max' = max /\ lines_read' = lines_read
        /\ contains_meta_data' = contains_meta_data
        /\ Plain' = Plain /\ HasCustomWeights' = HasCustomWeights
        /\ FileInv' /\ SkipInv' /\ EdgeListInv' /\ VertexListInv'
    BY <1>1, <1>2, AlreadyRead
  <1>4. getNumberOfNodes' = getNumberOfNodes /\ NodeIds' = NodeIds
    BY <1>1 DEF getNumberOfNodes, NodeIds
  <1>5. /\ forward_edges_' \in Seq(Edge) /\ Offsets(forward_offset_array_, forward_edges_')
        /\ backward_edges_' \in Seq(Edge) /\ Offsets(backward_offset_array_, backward_edges_')
    BY WeightsAreGiven
  <1>6. TypeOK'
    <2>1. adjacency_list' = adjacency_list /\ from' = from /\ position' = position
      BY <1>1 DEF collector
    <2> QED BY <1>1, <1>2, <1>3, <1>5, <2>1 DEF TypeOK
  <1>7. /\ OffsetsCover(forward_offset_array_, forward_edges_)'
        /\ OffsetsCover(backward_offset_array_, backward_edges_)'
    BY <1>1, <1>5 DEF Offsets
  <1>8. CollectInv' /\ MirrorInv'
    BY <1>1 DEF CollectInv, MirrorInv
  <1> QED BY <1>1, <1>3, <1>4, <1>6, <1>7, <1>8

\* The finished arrays hold the file.
LEMMA CalculatedArrays ==
    ASSUME IInv, calculateEdgeWeights
    PROVE  /\ ArraysHoldTheFile'
           /\ Plain => \A n \in NodeIds :
                 /\ Destinations(Original(n)') = Destinations(FileEdges(n))
                 /\ ~random_edge_weights => Original(n) = FileEdges(n)
           /\ \A n : FileEdges(n)' = FileEdges(n)
  <1>1. /\ file' = file /\ inverse' = inverse /\ random_edge_weights' = random_edge_weights
        /\ Plain' = Plain /\ pc = "normalise" /\ pc' = "done"
        /\ getNumberOfNodes' = getNumberOfNodes /\ NodeIds' = NodeIds
    BY Calculated
  <1>2. LeadToNodes(forward_edges_) /\ LeadToNodes(backward_edges_)
    BY <1>1, Normalising
  <1>3. ArraysHoldTheFile /\ IsRead
    BY <1>1 DEF IInv, IsRead
  <1>4. /\ SameDestinations(forward_edges_', forward_edges_)
        /\ SameDestinations(backward_edges_', backward_edges_)
        /\ \A i \in 1..Len(forward_edges_) : forward_edges_'[i].weight # NaN
        /\ \A i \in 1..Len(backward_edges_) : backward_edges_'[i].weight # NaN
    BY WeightsAreGiven
  <1>5. LeadToNodes(forward_edges_)' /\ LeadToNodes(backward_edges_)'
    BY <1>1, <1>2, <1>4 DEF LeadToNodes, SameDestinations
  <1>6. Raw(forward_edges_)' /\ Raw(backward_edges_)'
    BY <1>1, <1>4 DEF Raw, SameDestinations
  <1>7. \A n : FileEdges(n)' = FileEdges(n)
    BY <1>1 DEF FileEdges
  <1>8. ASSUME Plain, NEW n \in NodeIds
        PROVE  /\ Destinations(Original(n)') = Destinations(FileEdges(n))
               /\ ~random_edge_weights => Original(n) = FileEdges(n)
    <2>1. /\ Destinations(Original(n)) = Destinations(FileEdges(n))
          /\ ~random_edge_weights => Original(n) = FileEdges(n)
      BY <1>1, <1>3, <1>8 DEF ArraysHoldTheFile
    <2>2. SameDestinations(Original(n)', Original(n))
      <3>1. /\ SameDestinations(getEdgesOf(n)', getEdgesOf(n))
            /\ SameDestinations(getInverseEdgesOf(n)', getInverseEdgesOf(n))
        BY WeightsAreGiven
      <3>2. /\ inverse => Original(n) = getInverseEdgesOf(n) /\ Original(n)' = getInverseEdgesOf(n)'
            /\ ~inverse => Original(n) = getEdgesOf(n) /\ Original(n)' = getEdgesOf(n)'
        BY <1>1 DEF Original, Swapped
      <3> QED BY <3>1, <3>2
    <2>3. Destinations(Original(n)') = Destinations(Original(n))
      BY <2>2 DEF Destinations, SameDestinations
    <2> QED BY <2>1, <2>3
  <1>9. Plain => FileNodesExist'
    <2>1. Plain => FileNodesExist
      BY <1>3 DEF ArraysHoldTheFile
    <2> QED BY <1>1, <2>1 DEF FileNodesExist
  <1>10. ArraysHoldTheFile'
    <2>1. \A n : /\ Destinations(Original(n))' = Destinations(Original(n)')
                 /\ Destinations(FileEdges(n))' = Destinations(FileEdges(n)')
      BY DEF Destinations
    <2> QED BY <1>1, <1>5, <1>6, <1>7, <1>8, <1>9, <2>1 DEF ArraysHoldTheFile
  <1> QED BY <1>7, <1>8, <1>10

\* The edges of a node in the finished arrays have weights.
LEMMA SpansHaveWeights ==
    ASSUME IInv, calculateEdgeWeights, NEW n \in NodeIds
    PROVE  /\ \A i \in 1..Len(getEdgesOf(n)') : getEdgesOf(n)'[i].weight # NaN
           /\ \A i \in 1..Len(getInverseEdgesOf(n)') : getInverseEdgesOf(n)'[i].weight # NaN
           /\ getEdgesOf(n)' \in Seq(Edge) /\ getInverseEdgesOf(n)' \in Seq(Edge)
  <1>1. /\ forward_offset_array_' = forward_offset_array_
        /\ backward_offset_array_' = backward_offset_array_ /\ pc = "normalise"
    BY Calculated
  <1>2. /\ n \in 0..(Len(forward_offset_array_) - 2)
        /\ n \in 0..(Len(backward_offset_array_) - 2)
    BY <1>1, Normalising
  <1> DEFINE f == forward_edges_'
             b == backward_edges_'
  <1>3. f \in Seq(Edge) /\ Offsets(forward_offset_array_, f)
    BY WeightsAreGiven
  <1>4. b \in Seq(Edge) /\ Offsets(backward_offset_array_, b)
    BY WeightsAreGiven
  <1>5. /\ \A i \in 1..Len(f) : f[i].weight # NaN
        /\ \A i \in 1..Len(b) : b[i].weight # NaN
    BY WeightsAreGiven DEF SameDestinations
  <1>6. /\ getEdgesOf(n)' = Span(forward_offset_array_, f, n)
        /\ getInverseEdgesOf(n)' = Span(backward_offset_array_, b, n)
    BY <1>1 DEF getEdgesOf, getInverseEdgesOf
  <1> HIDE DEF f, b
  <1>7. /\ Span(forward_offset_array_, f, n) \in Seq(Edge)
        /\ \A i \in 1..Len(Span(forward_offset_array_, f, n)) :
           /\ forward_offset_array_[n + 1] + i \in 1..Len(f)
           /\ Span(forward_offset_array_, f, n)[i] = f[forward_offset_array_[n + 1] + i]
    BY <1>2, <1>3, SpanIs
  <1>8. /\ Span(backward_offset_array_, b, n) \in Seq(Edge)
        /\ \A i \in 1..Len(Span(backward_offset_array_, b, n)) :
           /\ backward_offset_array_[n + 1] + i \in 1..Len(b)
           /\ Span(backward_offset_array_, b, n)[i] = b[backward_offset_array_[n + 1] + i]
    BY <1>2, <1>4, SpanIs
  <1>9. /\ \A i \in 1..Len(getEdgesOf(n)') : getEdgesOf(n)'[i].weight # NaN
        /\ getEdgesOf(n)' \in Seq(Edge)
    BY <1>5, <1>6, <1>7
  <1>10. /\ \A i \in 1..Len(getInverseEdgesOf(n)') : getInverseEdgesOf(n)'[i].weight # NaN
         /\ getInverseEdgesOf(n)' \in Seq(Edge)
    BY <1>5, <1>6, <1>8
  <1> QED BY <1>9, <1>10

\* The finished graph is the file's.
LEMMA CalculatedFile == ASSUME IInv, calculateEdgeWeights PROVE GraphIsTheFile'
  <1>1. /\ file' = file /\ inverse' = inverse /\ random_edge_weights' = random_edge_weights
        /\ Plain' = Plain /\ pc = "normalise" /\ pc' = "done" /\ NodeIds' = NodeIds
        /\ TypeOK' /\ OffsetsCover(forward_offset_array_, forward_edges_)'
        /\ OffsetsCover(backward_offset_array_, backward_edges_)'
        /\ forward_offset_array_' = forward_offset_array_
        /\ backward_offset_array_' = backward_offset_array_
    BY Calculated
  <1>2. Len(forward_offset_array_) = Len(backward_offset_array_)
    BY <1>1, Normalising
  <1>3. OffsetArraysAreSound'
    BY <1>1, <1>2 DEF OffsetArraysAreSound
  <1>4. Plain => FileNodesExist'
    <2>1. ArraysHoldTheFile'
      BY CalculatedArrays
    <2> QED BY <1>1, <2>1 DEF ArraysHoldTheFile, IsRead
  <1> DEFINE edges(n) == IF inverse THEN getInverseEdgesOf(n) ELSE getEdgesOf(n)
  <1>5. ASSUME Plain, NEW n \in NodeIds
        PROVE  /\ Destinations(edges(n)') = Destinations(FileEdges(n)')
               /\ \A i \in 1..Len(edges(n)') :
                     /\ edges(n)'[i].weight # NaN
                     /\ ~inverse /\ ~random_edge_weights =>
                           FileEdges(n)'[i].weight \in {NaN, edges(n)'[i].weight}
    <2>1. Original(n)' = edges(n)'
      BY <1>1 DEF Original, Swapped
    <2>2. /\ Destinations(Original(n)') = Destinations(FileEdges(n))
          /\ ~random_edge_weights => Original(n) = FileEdges(n)
          /\ FileEdges(n)' = FileEdges(n)
      BY <1>5, CalculatedArrays
    <2>3. \A i \in 1..Len(edges(n)') : edges(n)'[i].weight # NaN
      <3>1. /\ inverse => edges(n)' = getInverseEdgesOf(n)'
            /\ ~inverse => edges(n)' = getEdgesOf(n)'
        BY <1>1
      <3> QED BY <3>1, SpansHaveWeights
    <2>4. ASSUME ~inverse, ~random_edge_weights, NEW i \in 1..Len(edges(n)')
          PROVE  FileEdges(n)'[i].weight \in {NaN, edges(n)'[i].weight}
      <3>1. edges(n)' = getEdgesOf(n)' /\ Original(n) = getEdgesOf(n)
        BY <1>1, <2>4 DEF Original, Swapped
      <3>2. FileEdges(n)' = getEdgesOf(n)
        BY <2>2, <2>4, <3>1
      <3>3. i \in 1..Len(getEdgesOf(n))
        <4>1. SameDestinations(getEdgesOf(n)', getEdgesOf(n))
          BY WeightsAreGiven
        <4> QED BY <2>4, <3>1, <4>1 DEF SameDestinations
      <3>4. getEdgesOf(n)'[i].weight = ForwardWeight(getEdgesOf(n)[i])
        BY <2>4, <3>3, WeightsAreGiven
      <3>5. getEdgesOf(n)[i].weight # NaN =>
               ForwardWeight(getEdgesOf(n)[i]) = getEdgesOf(n)[i].weight
        BY DEF ForwardWeight
      <3> QED BY <3>1, <3>2, <3>4, <3>5
    <2> QED BY <2>1, <2>2, <2>3, <2>4
  <1>6. \A n : /\ Destinations(edges(n))' = Destinations(edges(n)')
               /\ Destinations(FileEdges(n))' = Destinations(FileEdges(n)')
    BY DEF Destinations
  <1> QED BY <1>1, <1>3, <1>4, <1>5, <1>6 DEF GraphIsTheFile, Plain

\* Between two nodes there are as many edges in both views, and no more than before.
LEMMA CalculatedCounts ==
    ASSUME IInv, calculateEdgeWeights, NEW u \in NodeIds, NEW v \in NodeIds
    PROVE  /\ EdgesBetween(u, v)' \in Seq(Edge) /\ BackEdgesBetween(u, v)' \in Seq(Edge)
           /\ Len(EdgesBetween(u, v)') = Len(EdgesBetween(u, v))
           /\ Len(BackEdgesBetween(u, v)') = Len(EdgesBetween(u, v))
           /\ Len(BackEdgesBetween(u, v)) = Len(EdgesBetween(u, v))
  <1>1. pc = "normalise"
    BY Calculated
  <1>2. /\ u \in Nat /\ v \in Nat
        /\ getEdgesOf(u) \in Seq(Edge) /\ getInverseEdgesOf(v) \in Seq(Edge)
        /\ Weights(EdgesBetween(u, v)) = Weights(BackEdgesBetween(u, v))
    BY <1>1, Normalising
  <1>3. getEdgesOf(u)' \in Seq(Edge) /\ getInverseEdgesOf(v)' \in Seq(Edge)
    BY SpansHaveWeights
  <1>4. SameDestinations(getEdgesOf(u)', getEdgesOf(u))
    BY WeightsAreGiven
  <1>5. SameDestinations(getInverseEdgesOf(v)', getInverseEdgesOf(v))
    BY WeightsAreGiven
  <1>6. /\ EdgesBetween(u, v) = LedTo(v, getEdgesOf(u))[Len(getEdgesOf(u))]
        /\ EdgesBetween(u, v)' = LedTo(v, getEdgesOf(u)')[Len(getEdgesOf(u)')]
        /\ BackEdgesBetween(u, v) = LedTo(u, getInverseEdgesOf(v))[Len(getInverseEdgesOf(v))]
        /\ BackEdgesBetween(u, v)' = LedTo(u, getInverseEdgesOf(v)')[Len(getInverseEdgesOf(v)')]
    BY DEF EdgesBetween, BackEdgesBetween, LedTo, Picks
  <1> DEFINE e == getEdgesOf(u)
             f == getEdgesOf(u)'
             b == getInverseEdgesOf(v)
             c == getInverseEdgesOf(v)'
  <1>7. /\ e \in Seq(Edge) /\ f \in Seq(Edge) /\ b \in Seq(Edge) /\ c \in Seq(Edge)
        /\ SameDestinations(f, e) /\ SameDestinations(c, b)
    BY <1>2, <1>3, <1>4, <1>5
  <1> HIDE DEF e, f, b, c
  <1>8. /\ Len(LedTo(v, f)[Len(f)]) = Len(LedTo(v, e)[Len(e)])
        /\ Len(LedTo(u, c)[Len(c)]) = Len(LedTo(u, b)[Len(b)])
    BY <1>2, <1>7, LedToCount
  <1>9. /\ LedTo(v, f)[Len(f)] \in Seq(Edge) /\ LedTo(v, e)[Len(e)] \in Seq(Edge)
        /\ LedTo(u, c)[Len(c)] \in Seq(Edge) /\ LedTo(u, b)[Len(b)] \in Seq(Edge)
    <2>1. /\ Len(e) \in 0..Len(e) /\ Len(f) \in 0..Len(f)
          /\ Len(b) \in 0..Len(b) /\ Len(c) \in 0..Len(c)
      BY <1>7
    <2> QED BY <1>2, <1>7, <2>1, LedToFollow
  <1>10. Len(BackEdgesBetween(u, v)) = Len(EdgesBetween(u, v))
    <2>1. EdgesBetween(u, v) \in Seq(Edge) /\ BackEdgesBetween(u, v) \in Seq(Edge)
      BY <1>6, <1>9 DEF e, b
    <2>2. /\ Len(Weights(EdgesBetween(u, v))) = Len(EdgesBetween(u, v))
          /\ Len(Weights(BackEdgesBetween(u, v))) = Len(BackEdgesBetween(u, v))
      BY <2>1 DEF Weights
    <2> QED BY <1>2, <2>2
  <1> QED BY <1>6, <1>8, <1>9, <1>10 DEF e, f, b, c

\* A calculated weight is that of the in-degree, in both views.
LEMMA CalculatedBetween ==
    ASSUME IInv, calculateEdgeWeights, NEW u \in NodeIds, NEW v \in NodeIds,
           ~random_edge_weights, ~HasCustomWeights
    PROVE  /\ \A i \in 1..Len(EdgesBetween(u, v)') :
                 EdgesBetween(u, v)'[i].weight = InverseInDegree(v)
           /\ \A i \in 1..Len(BackEdgesBetween(u, v)') :
                 BackEdgesBetween(u, v)'[i].weight = InverseInDegree(v)
  <1>1. pc = "normalise"
    BY Calculated
  <1>2. u \in Nat /\ v \in Nat /\ Raw(getEdgesOf(u))
    BY <1>1, Normalising
  <1>3. getEdgesOf(u)' \in Seq(Edge) /\ getInverseEdgesOf(v)' \in Seq(Edge)
    BY SpansHaveWeights
  <1>4. /\ SameDestinations(getEdgesOf(u)', getEdgesOf(u))
        /\ SameDestinations(getInverseEdgesOf(v)', getInverseEdgesOf(v))
    BY WeightsAreGiven
  <1>5. /\ EdgesBetween(u, v)' = LedTo(v, getEdgesOf(u)')[Len(getEdgesOf(u)')]
        /\ BackEdgesBetween(u, v)' = LedTo(u, getInverseEdgesOf(v)')[Len(getInverseEdgesOf(v)')]
    BY DEF EdgesBetween, BackEdgesBetween, LedTo, Picks
  <1> DEFINE f == getEdgesOf(u)'
             c == getInverseEdgesOf(v)'
  <1>6. ASSUME NEW j \in 1..Len(f), f[j].destination = v PROVE f[j].weight = InverseInDegree(v)
    <2>1. j \in 1..Len(getEdgesOf(u)) /\ getEdgesOf(u)[j].destination = v
      BY <1>4, <1>6 DEF SameDestinations
    <2>2. getEdgesOf(u)[j].weight = NaN
      BY <1>1, <1>2, <2>1 DEF Raw
    <2>3. f[j].weight = ForwardWeight(getEdgesOf(u)[j])
      BY <2>1, WeightsAreGiven
    <2> QED BY <2>1, <2>2, <2>3 DEF ForwardWeight
  <1>7. ASSUME NEW j \in 1..Len(c) PROVE c[j].weight = InverseInDegree(v)
    <2>1. j \in 1..Len(getInverseEdgesOf(v))
      BY <1>4, <1>7 DEF SameDestinations
    <2> QED BY <2>1, WeightsAreGiven
  <1>8. f \in Seq(Edge) /\ c \in Seq(Edge)
    BY <1>3
  <1>9. /\ EdgesBetween(u, v)' = LedTo(v, f)[Len(f)]
        /\ BackEdgesBetween(u, v)' = LedTo(u, c)[Len(c)]
    BY <1>5
  <1> HIDE DEF f, c
  <1>10. ASSUME NEW i \in 1..Len(LedTo(v, f)[Len(f)])
         PROVE  LedTo(v, f)[Len(f)][i].weight = InverseInDegree(v)
    <2>1. \E j \in 1..Len(f) : f[j].destination = v /\ LedTo(v, f)[Len(f)][i] = f[j]
      BY <1>2, <1>8, LedToKept
    <2> QED BY <1>6, <2>1
  <1>11. ASSUME NEW i \in 1..Len(LedTo(u, c)[Len(c)])
         PROVE  LedTo(u, c)[Len(c)][i].weight = InverseInDegree(v)
    <2>1. \E j \in 1..Len(c) : c[j].destination = u /\ LedTo(u, c)[Len(c)][i] = c[j]
      BY <1>2, <1>8, LedToKept
    <2> QED BY <1>7, <2>1
  <1> QED BY <1>9, <1>10, <1>11

\* The views of the finished graph mirror each other.
LEMMA CalculatedMirror == ASSUME IInv, calculateEdgeWeights PROVE ViewsMirror'
  <1>1. /\ random_edge_weights' = random_edge_weights /\ HasCustomWeights' = HasCustomWeights
        /\ pc = "normalise" /\ NodeIds' = NodeIds
    BY Calculated
  <1>2. ASSUME NEW u \in NodeIds, NEW v \in NodeIds
        PROVE  /\ Len(EdgesBetween(u, v)') = Len(BackEdgesBetween(u, v)')
               /\ random_edge_weights \/ ~HasCustomWeights =>
                     Weights(EdgesBetween(u, v)') = Weights(BackEdgesBetween(u, v)')
    <2> DEFINE e == EdgesBetween(u, v)'
               b == BackEdgesBetween(u, v)'
    <2>1. e \in Seq(Edge) /\ b \in Seq(Edge) /\ Len(e) = Len(b)
      BY CalculatedCounts
    <2>2. CASE random_edge_weights
      <3>1. e = EdgesBetween(u, v) /\ b = BackEdgesBetween(u, v)
        <4>1. getEdgesOf(u)' = getEdgesOf(u) /\ getInverseEdgesOf(v)' = getInverseEdgesOf(v)
          BY <2>2, WeightsAreGiven
        <4> QED BY <4>1 DEF EdgesBetween, BackEdgesBetween
      <3>2. Weights(EdgesBetween(u, v)) = Weights(BackEdgesBetween(u, v))
        BY <1>1, Normalising
      <3> HIDE DEF e, b
      <3>3. Weights(e) = Weights(b)
        BY <3>1, <3>2
      <3> QED BY <2>1, <3>3 DEF e, b
    <2>3. CASE ~random_edge_weights /\ ~HasCustomWeights
      <3>1. /\ \A i \in 1..Len(e) : e[i].weight = InverseInDegree(v)
            /\ \A i \in 1..Len(b) : b[i].weight = InverseInDegree(v)
        BY <2>3, CalculatedBetween
      <3> HIDE DEF e, b
      <3>2. Weights(e) = Weights(b)
        BY <2>1, <3>1 DEF Weights
      <3> QED BY <2>1, <3>2 DEF e, b
    <2> HIDE DEF e, b
    <2>4. CASE ~(random_edge_weights \/ ~HasCustomWeights)
      BY <2>1, <2>4 DEF e, b
    <2> QED BY <2>2, <2>3, <2>4
  <1>3. \A u, v : /\ Weights(EdgesBetween(u, v))' = Weights(EdgesBetween(u, v)')
                  /\ Weights(BackEdgesBetween(u, v))' = Weights(BackEdgesBetween(u, v)')
    BY DEF Weights
  <1> QED BY <1>1, <1>2, <1>3 DEF ViewsMirror

\* The weights of a list whose edges all have the same one add up to its product with
\* their number.
LEMMA SumOfWeightsIs ==
    ASSUME NEW edges \in Seq(Edge), NEW c \in Int, \A i \in 1..Len(edges) : edges[i].weight = c
    PROVE  SumOfWeights(edges) = Len(edges) * c
  <1> DEFINE w == Weights(edges)
  <1>1. Len(edges) \in Nat
    OBVIOUS
  <1>2. w = [i \in 1..Len(edges) |-> c]
    BY DEF Weights
  <1>3. w \in Seq(Int) /\ Len(w) = Len(edges) /\ \A i \in 1..Len(w) : w[i] = c
    BY <1>1, <1>2
  <1> HIDE DEF w
  <1>4. SumOfSeq(w) = Len(w) * c
    BY <1>3, SumOfConstants
  <1> QED BY <1>3, <1>4 DEF SumOfWeights, w

\* The weights into a node add up to one, less what the division loses.
LEMMA CalculatedSums == ASSUME IInv, calculateEdgeWeights PROVE InWeightsSumToOne'
  <1>1. /\ random_edge_weights' = random_edge_weights /\ HasCustomWeights' = HasCustomWeights
        /\ pc = "normalise" /\ NodeIds' = NodeIds /\ getNumberOfNodes' = getNumberOfNodes
    BY Calculated
  <1>2. /\ getNumberOfNodes \in Nat /\ NodeIds \subseteq Nat
        /\ NodeIds = 0..(getNumberOfNodes - 1)
        /\ \A n \in NodeIds : getInverseEdgesOf(n) \in Seq(Edge) /\ LeadToNodes(getInverseEdgesOf(n))
    BY <1>1, Normalising DEF NodeIds
  <1>3. \A n \in NodeIds : getInDegreeOf(n)' = getInDegreeOf(n)
    <2> TAKE n \in NodeIds
    <2>1. SameDestinations(getInverseEdgesOf(n)', getInverseEdgesOf(n))
      BY WeightsAreGiven
    <2> QED BY <2>1 DEF getInDegreeOf, SameDestinations
  <1>4. ASSUME ~random_edge_weights, ~HasCustomWeights, NEW v \in NodeIds, getInDegreeOf(v) > 0
        PROVE  /\ SumOfWeights(getInverseEdgesOf(v)') = One - (One % getInDegreeOf(v))
               /\ SumOfSeq([u \in 1..getNumberOfNodes |-> SumOfWeights(EdgesBetween(u - 1, v)')])
                     = One - (One % getInDegreeOf(v))
    <2> DEFINE c == InverseInDegree(v)
               in == getInverseEdgesOf(v)
               N == getNumberOfNodes
    <2>1. in \in Seq(Edge) /\ Len(in) = getInDegreeOf(v) /\ Len(in) \in Nat \ {0}
      BY <1>2, <1>4 DEF getInDegreeOf
    <2>2. c \in Int /\ Len(in) * c = One - (One % getInDegreeOf(v))
      <3>1. One \in Nat
        BY Units
      <3> DEFINE d == getInDegreeOf(v)
      <3>2. d \in Nat \ {0} /\ Len(in) = d
        BY <2>1
      <3>3. c = One \div d
        BY DEF InverseInDegree
      <3> HIDE DEF c, in, d
      <3>4. One \div d \in 0..One /\ d * (One \div d) = One - (One % d)
        BY <3>1, <3>2, Quotient
      <3>5. c \in Int
        BY <3>1, <3>3, <3>4
      <3> QED BY <3>2, <3>3, <3>4, <3>5 DEF d
    <2>3. SumOfWeights(getInverseEdgesOf(v)') = Len(in) * c
      <3> DEFINE t == getInverseEdgesOf(v)'
      <3>1. t \in Seq(Edge) /\ Len(t) = Len(in)
        BY SpansHaveWeights, WeightsAreGiven DEF SameDestinations
      <3>2. \A i \in 1..Len(t) : t[i].weight = c
        BY <1>4, <3>1, WeightsAreGiven
      <3> HIDE DEF t, c, in
      <3>3. SumOfWeights(t) = Len(t) * c
        BY <2>2, <3>1, <3>2, SumOfWeightsIs
      <3> QED BY <3>1, <3>3 DEF t
    <2>4. ASSUME NEW u \in 1..N
          PROVE  SumOfWeights(EdgesBetween(u - 1, v)') = c * Len(LedTo(u - 1, in)[Len(in)])
      <3> DEFINE e == EdgesBetween(u - 1, v)'
      <3>1. u - 1 \in NodeIds
        BY <1>2
      <3>2. e \in Seq(Edge) /\ Len(e) = Len(BackEdgesBetween(u - 1, v))
        BY <3>1, CalculatedCounts
      <3>3. \A i \in 1..Len(e) : e[i].weight = c
        BY <1>4, <3>1, CalculatedBetween
      <3>4. Len(BackEdgesBetween(u - 1, v)) = Len(LedTo(u - 1, in)[Len(in)])
        BY DEF BackEdgesBetween
      <3> HIDE DEF e, c, in
      <3>5. SumOfWeights(e) = Len(e) * c
        BY <2>2, <3>2, <3>3, SumOfWeightsIs
      <3>6. Len(e) \in Nat
        BY <3>2
      <3>7. Len(e) * c = c * Len(e)
        BY <2>2, <3>6
      <3> QED BY <3>2, <3>4, <3>5, <3>7 DEF e
    <2>5. SumOfSeq([u \in 1..N |-> c * Len(LedTo(u - 1, in)[Len(in)])]) = Len(in) * c
      <3>1. N \in Nat /\ \A i \in 1..Len(in) : in[i].destination \in 0..(N - 1)
        BY <1>2 DEF LeadToNodes
      <3> HIDE DEF c, in, N
      <3> QED BY <2>1, <2>2, <3>1, PicksAddUp
    <2>6. [u \in 1..N |-> SumOfWeights(EdgesBetween(u - 1, v)')]
             = [u \in 1..N |-> c * Len(LedTo(u - 1, in)[Len(in)])]
      <3> HIDE DEF c, in, N
      <3> QED BY <2>4
    <2> QED BY <2>2, <2>3, <2>5, <2>6
  <1>5. \A u, v : SumOfWeights(EdgesBetween(u, v))' = SumOfWeights(EdgesBetween(u, v)')
    BY DEF SumOfWeights, Weights
  <1>6. \A v : SumOfWeights(getInverseEdgesOf(v))' = SumOfWeights(getInverseEdgesOf(v)')
    BY DEF SumOfWeights, Weights
  <1> QED BY <1>1, <1>3, <1>4, <1>5, <1>6 DEF InWeightsSumToOne

\* calculateEdgeWeights, the last step.
LEMMA CalculateStep == ASSUME IInv, calculateEdgeWeights PROVE IInv'
  <1>1. /\ FileInv' /\ SkipInv' /\ EdgeListInv' /\ VertexListInv'
        /\ CollectInv' /\ MirrorInv' /\ TypeOK'
        /\ OffsetsCover(forward_offset_array_, forward_edges_)'
        /\ OffsetsCover(backward_offset_array_, backward_edges_)'
    BY Calculated
  <1>2. ArraysHoldTheFile'
    BY CalculatedArrays
  <1>3. Built'
    BY CalculatedFile, CalculatedMirror, CalculatedSums DEF Built
  <1> QED BY <1>1, <1>2, <1>3 DEF IInv

-----------------------------------------------------------------------------
(* The theorems.                                                           *)

LEMMA StutterStep == ASSUME IInv, UNCHANGED vars PROVE IInv'
  <1>1. /\ UNCHANGED <<parameters, reader, collector, forward, backward>> /\ pc' = pc
    BY DEF vars
  <1>2. /\ file' = file /\ inverse' = inverse /\ random_edge_weights' = random_edge_weights
        /\ contains_meta_data' = contains_meta_data /\ lines_read' = lines_read
        /\ adj_list' = adj_list /\ max' = max
        /\ adjacency_list' = adjacency_list /\ from' = from /\ position' = position
        /\ forward_offset_array_' = forward_offset_array_ /\ forward_edges_' = forward_edges_
        /\ backward_offset_array_' = backward_offset_array_ /\ backward_edges_' = backward_edges_
    BY <1>1 DEF parameters, reader, collector, forward, backward
  <1>3. /\ lines' = lines /\ NodeIds' = NodeIds /\ getNumberOfNodes' = getNumberOfNodes
        /\ Joined' = Joined /\ IsBuilt' = IsBuilt
        /\ HasLine("meta")' = HasLine("meta") /\ HasLine("blank")' = HasLine("blank")
        /\ HasCustomWeights' = HasCustomWeights
        /\ \A n : /\ getEdgesOf(n)' = getEdgesOf(n) /\ AdjListOf(n)' = AdjListOf(n)
                 /\ getInverseEdgesOf(n)' = getInverseEdgesOf(n)
                 /\ FileEdges(n)' = FileEdges(n)
    BY <1>1, <1>2 DEF lines, NodeIds, getNumberOfNodes, Joined, IsBuilt, HasLine,
       HasCustomWeights, getEdgesOf, AdjListOf, getInverseEdgesOf, FileEdges
  <1>4. TypeOK' = TypeOK
    BY <1>1, <1>2 DEF TypeOK
  <1>5. /\ OffsetsCover(forward_offset_array_, forward_edges_)'
              = OffsetsCover(forward_offset_array_, forward_edges_)
        /\ OffsetsCover(backward_offset_array_, backward_edges_)'
              = OffsetsCover(backward_offset_array_, backward_edges_)
    BY <1>2
  <1>6. FileInv' = FileInv /\ SkipInv' = SkipInv
    BY <1>1, <1>2, <1>3 DEF FileInv, SkipInv
  <1>7. EdgeListInv' = EdgeListInv
    BY <1>1, <1>2, <1>3 DEF EdgeListInv, ListsHoldTheLines, Plain, Parsed
  <1>8. VertexListInv' = VertexListInv
    BY <1>1, <1>2, <1>3 DEF VertexListInv, Plain, Parsed, MetaLines
  <1>9. ArraysHoldTheFile' = ArraysHoldTheFile
    BY <1>1, <1>2, <1>3 DEF ArraysHoldTheFile, Plain, IsRead, LeadToNodes, Raw, FileNodesExist,
       Original, Swapped, Destinations
  <1>10. CollectInv' = CollectInv
    <2>1. \A n : /\ LeadToNodes(adjacency_list[n])' = LeadToNodes(adjacency_list[n])
                 /\ Raw(adjacency_list[n])' = Raw(adjacency_list[n])
      BY <1>1, <1>2, <1>3 DEF LeadToNodes, Raw
    <2>2. \A u : Turned(u)' = Turned(u)
      BY <1>2, <1>3 DEF Turned
    <2>3. \A u, v, n : TurnedAre(u, v, n)' = TurnedAre(u, v, n)
      BY <1>2, <1>3 DEF TurnedAre
    <2>4. \A u, v : /\ TurnedAre(u, v, Turned(u))' = TurnedAre(u, v, Turned(u))
                    /\ TurnedAre(u, v, Len(getEdgesOf(u)))' = TurnedAre(u, v, Len(getEdgesOf(u)))
      BY <1>2, <1>3, <2>2, <2>3 DEF TurnedAre
    <2> QED BY <1>1, <1>2, <1>3, <2>1, <2>4 DEF CollectInv
  <1>11. \A u, v : /\ EdgesBetween(u, v)' = EdgesBetween(u, v)
                   /\ BackEdgesBetween(u, v)' = BackEdgesBetween(u, v)
    BY <1>3 DEF EdgesBetween, BackEdgesBetween
  <1>12. MirrorInv' = MirrorInv
    BY <1>1, <1>3, <1>11 DEF MirrorInv, Weights
  <1>13. Built' = Built
    <2>1. GraphIsTheFile' = GraphIsTheFile
      BY <1>2, <1>3, <1>4, <1>5 DEF GraphIsTheFile, OffsetArraysAreSound, FileNodesExist,
         Destinations
    <2>2. ViewsMirror' = ViewsMirror
      BY <1>2, <1>3, <1>11 DEF ViewsMirror, Weights
    <2>3. InWeightsSumToOne' = InWeightsSumToOne
      BY <1>2, <1>3, <1>11 DEF InWeightsSumToOne, SumOfWeights, Weights, getInDegreeOf
    <2> QED BY <2>1, <2>2, <2>3 DEF Built
  <1> QED BY <1>3, <1>4, <1>5, <1>6, <1>7, <1>8, <1>9, <1>10, <1>12, <1>13 DEF IInv

LEMMA NextInvariant == IInv /\ [Next]_vars => IInv'
  <1> SUFFICES ASSUME IInv, [Next]_vars PROVE IInv'
    OBVIOUS
  <1>1. CASE SkipLine
    BY <1>1, SkipLineStep
  <1>2. CASE ReadVertexLine
    BY <1>2, ReadVertexLineStep
  <1>3. CASE ReadEdgeLine
    BY <1>3, ReadEdgeLineStep
  <1>4. CASE ReadDone
    BY <1>4, ReadDoneStep
  <1>5. CASE AppendNextNode
    BY <1>5, AppendNextNodeStep
  <1>6. CASE AppendDone
    BY <1>6, AppendDoneStep
  <1>7. CASE assignRandomForwardEdgeWeights
    BY <1>7, RandomWeightsStep
  <1>8. CASE BeginBackwardEdges
    BY <1>8, BeginBackwardEdgesStep
  <1>9. CASE CollectEdge
    BY <1>9, CollectEdgeStep
  <1>10. CASE CollectNextNode
    BY <1>10, CollectNextNodeStep
  <1>11. CASE CollectDone
    BY <1>11, CollectDoneStep
  <1>12. CASE JoinNode
    BY <1>12, JoinNodeStep
  <1>13. CASE JoinDone
    BY <1>13, JoinDoneStep
  <1>14. CASE CallInverse
    BY <1>14, CallInverseStep
  <1>15. CASE calculateEdgeWeights
    BY <1>15, CalculateStep
  <1>16. CASE UNCHANGED vars
    BY <1>16, StutterStep
  <1> QED BY <1>1, <1>2, <1>3, <1>4, <1>5, <1>6, <1>7, <1>8, <1>9, <1>10, <1>11, <1>12,
             <1>13, <1>14, <1>15, <1>16 DEF Next

LEMMA InvariantHolds == Spec => []IInv
  BY InitInvariant, NextInvariant, PTL DEF Spec

\* The parsers' lists, the two offset arrays and the edges keep their types: no offset,
\* destination or weight is out of range whatever the file.
THEOREM TypeCorrect == Spec => []TypeOK
  <1>1. IInv => TypeOK
    BY DEF IInv
  <1> QED BY <1>1, InvariantHolds, PTL

\* Whatever the parsers read, appendNode, inverse and the two loops of
\* calculateBackwardEdges keep the offset arrays sound, and the finished graph has the
\* nodes and edges of the file and no others, each with a weight.
THEOREM GraphIsRead == Spec => []GraphIsTheFile
  <1>1. IInv => GraphIsTheFile
    <2>1. ASSUME IInv, ~IsBuilt PROVE GraphIsTheFile
      BY <2>1 DEF IInv, GraphIsTheFile, OffsetArraysAreSound
    <2>2. ASSUME IInv, IsBuilt PROVE GraphIsTheFile
      BY <2>2 DEF IInv, Built
    <2> QED BY <2>1, <2>2
  <1> QED BY <1>1, InvariantHolds, PTL

\* calculateBackwardEdges turns every edge round once, whatever the graph, the flags
\* and the weights: the two views of the finished graph mirror each other.
THEOREM GraphMirrors == Spec => []ViewsMirror
  <1>1. IInv => ViewsMirror
    <2>1. ASSUME IInv, ~IsBuilt PROVE ViewsMirror
      BY <2>1 DEF ViewsMirror
    <2>2. ASSUME IInv, IsBuilt PROVE ViewsMirror
      BY <2>2 DEF IInv, Built
    <2> QED BY <2>1, <2>2
  <1> QED BY <1>1, InvariantHolds, PTL

\* calculateEdgeWeights gives the edges into a node weights that sum to one, up to the
\* rounding of one division, in both views of every graph.
THEOREM WeightsSumToOne == Spec => []InWeightsSumToOne
  <1>1. IInv => InWeightsSumToOne
    <2>1. ASSUME IInv, ~IsBuilt PROVE InWeightsSumToOne
      BY <2>1 DEF InWeightsSumToOne
    <2>2. ASSUME IInv, IsBuilt PROVE InWeightsSumToOne
      BY <2>2 DEF IInv, Built
    <2> QED BY <2>1, <2>2
  <1> QED BY <1>1, InvariantHolds, PTL

=============================================================================
