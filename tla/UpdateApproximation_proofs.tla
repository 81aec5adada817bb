--------------------- MODULE UpdateApproximation_proofs ---------------------
(***************************************************************************)
(* The scores of UpdateApproximation that are exact, on every graph whose  *)
(* two views weigh the same, and what holds of those that are not.         *)
(***************************************************************************)
EXTENDS UpdateApproximation, SequenceFacts

-----------------------------------------------------------------------------
(* Edges and what they add to a score.                                     *)

LEMMA Products == \A a, b \in Nat : a * b \in Nat
  OBVIOUS

LEMMA ProductsGrow == \A w \in Nat : \A a, b \in Int : a <= b => w * a <= w * b
  OBVIOUS

LEMMA QuotientsAreInt == \A a \in Int : \A d \in Nat \ {0} : a \div d \in Int
  OBVIOUS

LEMMA QuotientsGrow == \A a, b \in Int : \A d \in Nat \ {0} : a <= b => a \div d <= b \div d
  OBVIOUS

LEMMA NoQuotient == \A d \in Nat \ {0} : 0 \div d = 0
  OBVIOUS

LEMMA Spans ==
    ASSUME NEW g \in Graph, NEW n \in NodeId
    PROVE  /\ g.forward[n] \in Seq(Edge) /\ g.backward[n] \in Seq(Edge)
           /\ Len(g.forward[n]) \in Nat /\ Len(g.backward[n]) \in Nat
           /\ \A i \in 1..Len(g.forward[n]) : g.forward[n][i] \in Edge
           /\ \A i \in 1..Len(g.backward[n]) : g.backward[n][i] \in Edge
  <1>1. g.forward[n] \in Seq(Edge) /\ g.backward[n] \in Seq(Edge)
    BY DEF Graph, Adjacency
  <1> HIDE DEF Edge
  <1> QED BY <1>1, Elements

LEMMA HopIsNatural ==
    ASSUME NEW e \in Edge
    PROVE  Hop(e) \in Nat /\ e.destination \in NodeId
  <1>1. e.weight \in Nat /\ One \in Nat /\ e.destination \in NodeId
    BY GraphAssumption DEF Edge, Weight
  <1> QED BY <1>1, Products DEF Hop

LEMMA AlongFacts ==
    ASSUME NEW e \in Edge, NEW x \in Int
    PROVE  /\ Along(e, x) \in Int
           /\ Along(e, 0) = 0
           /\ \A y \in Int : x <= y => Along(e, x) <= Along(e, y)
           /\ x \in Nat => Along(e, x) \in Nat
  <1>1. e.weight \in Nat /\ One \in Nat \ {0}
    BY GraphAssumption DEF Edge, Weight
  <1>2. e.weight * 0 = 0 /\ \A y \in Int : e.weight * y \in Int
    BY <1>1
  <1>3. Along(e, 0) = 0 /\ \A y \in Int : Along(e, y) \in Int
    BY <1>1, <1>2, NoQuotient, QuotientsAreInt DEF Along
  <1>4. ASSUME NEW a \in Int, NEW b \in Int, a <= b PROVE Along(e, a) <= Along(e, b)
    <2>1. e.weight * a <= e.weight * b
      BY <1>1, <1>4, ProductsGrow
    <2> QED BY <1>1, <1>2, <2>1, QuotientsGrow DEF Along
  <1>5. x \in Nat => Along(e, x) >= 0
    BY <1>3, <1>4
  <1> QED BY <1>3, <1>4, <1>5

-----------------------------------------------------------------------------
(* The true scores of a node, when the nodes of S are selected.            *)

Uncovereds(g, S, n) ==
    [i \in 1..Len(g.forward[n]) |->
        IF g.forward[n][i].destination \in S THEN 0 ELSE Hop(g.forward[n][i])]

UncoveredOf(g, S, n) == SumOfSeq(Uncovereds(g, S, n))

Seconds(g, S, n) ==
    [i \in 1..Len(g.forward[n]) |->
        IF g.forward[n][i].destination \in S THEN 0
        ELSE Along(g.forward[n][i], UncoveredOf(g, S, g.forward[n][i].destination))]

TwoHopOf(g, S, n) == UncoveredOf(g, S, n) + SumOfSeq(Seconds(g, S, n))

LEMMA TrueScores ==
    /\ \A n : UncoveredWeight(n) = UncoveredOf(graph, Selected, n)
    /\ \A n : TwoHopScore(n) = TwoHopOf(graph, Selected, n)
  <1>1. \A n : UncoveredWeight(n) = UncoveredOf(graph, Selected, n)
    BY DEF UncoveredWeight, SumOver, getEdgesOf, UncoveredOf, Uncovereds
  <1>2. ASSUME NEW n PROVE TwoHopScore(n) = TwoHopOf(graph, Selected, n)
    BY <1>1 DEF TwoHopScore, SumOver, getEdgesOf, TwoHopOf, Seconds
  <1> QED BY <1>1, <1>2

LEMMA UncoveredFacts ==
    ASSUME NEW g \in Graph, NEW S, NEW n \in NodeId
    PROVE  /\ Uncovereds(g, S, n) \in Seq(Int)
           /\ Len(Uncovereds(g, S, n)) = Len(g.forward[n])
           /\ UncoveredOf(g, S, n) \in Nat
  <1> DEFINE l == Len(g.forward[n])
             w(i) == IF g.forward[n][i].destination \in S THEN 0 ELSE Hop(g.forward[n][i])
  <1>1. l \in Nat /\ \A i \in 1..l : w(i) \in Nat
    BY Spans, HopIsNatural
  <1>2. Uncovereds(g, S, n) = [i \in 1..l |-> w(i)]
    BY DEF Uncovereds
  <1> HIDE DEF l, w
  <1>3. /\ Uncovereds(g, S, n) \in Seq(Int) /\ Len(Uncovereds(g, S, n)) = l
        /\ \A i \in 1..l : Uncovereds(g, S, n)[i] = w(i)
    BY <1>1, <1>2
  <1>4. UncoveredOf(g, S, n) \in Nat
    BY <1>1, <1>3, SumIsNatural DEF UncoveredOf
  <1> QED BY <1>3, <1>4 DEF l

LEMMA SecondFacts ==
    ASSUME NEW g \in Graph, NEW S, NEW n \in NodeId
    PROVE  /\ Seconds(g, S, n) \in Seq(Int)
           /\ Len(Seconds(g, S, n)) = Len(g.forward[n])
           /\ \A i \in 1..Len(g.forward[n]) : Seconds(g, S, n)[i] \in Nat
           /\ TwoHopOf(g, S, n) \in Nat
  <1> DEFINE l == Len(g.forward[n])
             w(i) == IF g.forward[n][i].destination \in S THEN 0
                     ELSE Along(g.forward[n][i], UncoveredOf(g, S, g.forward[n][i].destination))
  <1>1. l \in Nat /\ \A i \in 1..l : w(i) \in Nat
    <2>1. l \in Nat /\ \A i \in 1..l : g.forward[n][i] \in Edge
      BY Spans
    <2>2. ASSUME NEW i \in 1..l PROVE w(i) \in Nat
      <3>1. g.forward[n][i] \in Edge /\ g.forward[n][i].destination \in NodeId
        BY <2>1, HopIsNatural
      <3>2. UncoveredOf(g, S, g.forward[n][i].destination) \in Nat
        BY <3>1, UncoveredFacts
      <3>3. Along(g.forward[n][i], UncoveredOf(g, S, g.forward[n][i].destination)) \in Nat
        BY <3>1, <3>2, AlongFacts
      <3> QED BY <3>3
    <2> QED BY <2>1, <2>2
  <1>2. Seconds(g, S, n) = [i \in 1..l |-> w(i)]
    BY DEF Seconds
  <1> HIDE DEF l, w
  <1>3. /\ Seconds(g, S, n) \in Seq(Int) /\ Len(Seconds(g, S, n)) = l
        /\ \A i \in 1..l : Seconds(g, S, n)[i] = w(i)
    BY <1>1, <1>2
  <1>4. SumOfSeq(Seconds(g, S, n)) \in Nat
    BY <1>1, <1>3, SumIsNatural
  <1> QED BY <1>1, <1>3, <1>4, UncoveredFacts DEF l, TwoHopOf

\* The more nodes are selected, the lower are the scores of all nodes.
LEMMA ScoresShrink ==
    ASSUME NEW g \in Graph, NEW S, NEW T, S \subseteq T, NEW n \in NodeId
    PROVE  /\ UncoveredOf(g, T, n) <= UncoveredOf(g, S, n)
           /\ TwoHopOf(g, T, n) <= TwoHopOf(g, S, n)
  <1>1. ASSUME NEW m \in NodeId PROVE UncoveredOf(g, T, m) <= UncoveredOf(g, S, m)
    <2>1. \A i \in 1..Len(g.forward[m]) : Hop(g.forward[m][i]) \in Nat
      BY Spans, HopIsNatural
    <2>2. \A i \in 1..Len(g.forward[m]) : Uncovereds(g, T, m)[i] <= Uncovereds(g, S, m)[i]
      BY <2>1 DEF Uncovereds
    <2>3. AtMost(Uncovereds(g, T, m), Uncovereds(g, S, m))
      BY <2>2, UncoveredFacts DEF AtMost
    <2> QED BY <2>3, UncoveredFacts, SumIsMonotone DEF UncoveredOf
  <1>2. ASSUME NEW i \in 1..Len(g.forward[n])
        PROVE  Seconds(g, T, n)[i] <= Seconds(g, S, n)[i]
    <2> DEFINE e == g.forward[n][i]
    <2>1. e \in Edge /\ e.destination \in NodeId
      BY Spans, HopIsNatural
    <2>2. /\ Seconds(g, T, n)[i] = IF e.destination \in T THEN 0
                                   ELSE Along(e, UncoveredOf(g, T, e.destination))
          /\ Seconds(g, S, n)[i] = IF e.destination \in S THEN 0
                                   ELSE Along(e, UncoveredOf(g, S, e.destination))
      BY DEF Seconds
    <2>3. CASE e.destination \in T
      <3>1. Seconds(g, T, n)[i] = 0
        BY <2>2, <2>3
      <3>2. Seconds(g, S, n)[i] \in Nat
        BY SecondFacts
      <3> QED BY <3>1, <3>2
    <2>4. CASE e.destination \notin T
      <3>1. e.destination \notin S
        BY <2>4
      <3>2. /\ UncoveredOf(g, T, e.destination) \in Int
            /\ UncoveredOf(g, S, e.destination) \in Int
            /\ UncoveredOf(g, T, e.destination) <= UncoveredOf(g, S, e.destination)
        BY <1>1, <2>1, UncoveredFacts
      <3>3. Along(e, UncoveredOf(g, T, e.destination)) <= Along(e, UncoveredOf(g, S, e.destination))
        <4> HIDE DEF e
        <4> QED BY <2>1, <3>2, AlongFacts
      <3> QED BY <2>2, <2>4, <3>1, <3>3
    <2> QED BY <2>3, <2>4
  <1>3. AtMost(Seconds(g, T, n), Seconds(g, S, n))
    BY <1>2, SecondFacts DEF AtMost
  <1>4. /\ SumOfSeq(Seconds(g, T, n)) <= SumOfSeq(Seconds(g, S, n))
        /\ SumOfSeq(Seconds(g, T, n)) \in Int /\ SumOfSeq(Seconds(g, S, n)) \in Int
    BY <1>3, SecondFacts, SumIsMonotone, SumAddsUp
  <1>5. /\ UncoveredOf(g, T, n) \in Int /\ UncoveredOf(g, S, n) \in Int
        /\ UncoveredOf(g, T, n) <= UncoveredOf(g, S, n)
    BY <1>1, UncoveredFacts
  <1> QED BY <1>4, <1>5 DEF TwoHopOf

-----------------------------------------------------------------------------
(* The loop over the in-edges of a seed.                                   *)

\* What is uncovered loses the weight of the edges to a new seed.
LEMMA SeedTakesWeight ==
    ASSUME NEW g \in Graph, NEW S, NEW c \in NodeId \ S, NEW n \in NodeId
    PROVE  /\ WeightTo(g, n, c) \in Nat
           /\ UncoveredOf(g, S, n) = UncoveredOf(g, S \cup {c}, n) + WeightTo(g, n, c)
  <1> DEFINE l == Len(g.forward[n])
             w(i) == IF g.forward[n][i].destination = c THEN Hop(g.forward[n][i]) ELSE 0
             to == [i \in 1..l |-> w(i)]
  <1>1. l \in Nat /\ \A i \in 1..l : Hop(g.forward[n][i]) \in Nat
    BY Spans, HopIsNatural
  <1>2. \A i \in 1..l : w(i) \in Nat
    BY <1>1
  <1>3. /\ to \in Seq(Int) /\ Len(to) = l
        /\ \A i \in 1..l : to[i] = w(i)
    <2> HIDE DEF w, l
    <2> QED BY <1>1, <1>2
  <1>4. WeightTo(g, n, c) = SumOfSeq(to)
    BY DEF WeightTo, SumOver
  <1> HIDE DEF to
  <1>5. WeightTo(g, n, c) \in Nat
    <2> HIDE DEF w, l
    <2> QED BY <1>1, <1>2, <1>3, <1>4, SumIsNatural
  <1>6. ASSUME NEW i \in 1..l
        PROVE  Uncovereds(g, S, n)[i] = Uncovereds(g, S \cup {c}, n)[i] + to[i]
    BY <1>1, <1>3 DEF Uncovereds
  <1>7. Together(Uncovereds(g, S, n), Uncovereds(g, S \cup {c}, n), to)
    <2> HIDE DEF w
    <2> QED BY <1>3, <1>6, UncoveredFacts DEF Together
  <1>8. UncoveredOf(g, S, n) = UncoveredOf(g, S \cup {c}, n) + SumOfSeq(to)
    <2> HIDE DEF w, l
    <2> QED BY <1>3, <1>7, UncoveredFacts, SumOfBoth DEF UncoveredOf
  <1> QED BY <1>4, <1>5, <1>8

\* The weight of the edges from n to c that come after the first j.
Remaining(g, c, j, n) ==
    [i \in 1..Len(g.backward[c]) |->
        IF i > j /\ g.backward[c][i].destination = n THEN Hop(g.backward[c][i]) ELSE 0]

RestOf(g, c, j, n) == SumOfSeq(Remaining(g, c, j, n))

LEMMA RemainingFacts ==
    ASSUME NEW g \in Graph, NEW c \in NodeId, NEW j \in Nat, NEW n \in NodeId
    PROVE  /\ Remaining(g, c, j, n) \in Seq(Int)
           /\ Len(Remaining(g, c, j, n)) = Len(g.backward[c])
           /\ RestOf(g, c, j, n) \in Nat
  <1> DEFINE l == Len(g.backward[c])
             w(i) == IF i > j /\ g.backward[c][i].destination = n
                     THEN Hop(g.backward[c][i]) ELSE 0
  <1>1. l \in Nat /\ \A i \in 1..l : Hop(g.backward[c][i]) \in Nat
    BY Spans, HopIsNatural
  <1>2. \A i \in 1..l : w(i) \in Nat
    BY <1>1
  <1>3. Remaining(g, c, j, n) = [i \in 1..l |-> w(i)]
    BY DEF Remaining
  <1> HIDE DEF l, w
  <1>4. /\ Remaining(g, c, j, n) \in Seq(Int) /\ Len(Remaining(g, c, j, n)) = l
        /\ \A i \in 1..l : Remaining(g, c, j, n)[i] = w(i)
    BY <1>1, <1>2, <1>3
  <1>5. RestOf(g, c, j, n) \in Nat
    BY <1>1, <1>2, <1>4, SumIsNatural DEF RestOf
  <1> QED BY <1>4, <1>5 DEF l

LEMMA RestSteps ==
    ASSUME NEW g \in Graph, NEW c \in NodeId, NEW n \in NodeId
    PROVE  /\ RestOf(g, c, 0, n) = BackWeightTo(g, n, c)
           /\ RestOf(g, c, Len(g.backward[c]), n) = 0
           /\ \A j \in 1..Len(g.backward[c]) :
                 RestOf(g, c, j - 1, n) =
                     RestOf(g, c, j, n) + IF g.backward[c][j].destination = n
                                          THEN Hop(g.backward[c][j]) ELSE 0
  <1> DEFINE l == Len(g.backward[c])
             d(j) == IF g.backward[c][j].destination = n THEN Hop(g.backward[c][j]) ELSE 0
  <1>1. l \in Nat /\ \A i \in 1..l : Hop(g.backward[c][i]) \in Nat
    BY Spans, HopIsNatural
  <1>2. RestOf(g, c, 0, n) = BackWeightTo(g, n, c)
    <2>1. Remaining(g, c, 0, n) =
             [i \in 1..l |-> IF g.backward[c][i].destination = n
                             THEN Hop(g.backward[c][i]) ELSE 0]
      BY <1>1 DEF Remaining
    <2> QED BY <2>1 DEF RestOf, BackWeightTo, SumOver
  <1>3. RestOf(g, c, l, n) = 0
    <2>1. \A i \in 1..l : Remaining(g, c, l, n)[i] = 0
      BY <1>1 DEF Remaining
    <2> HIDE DEF d
    <2> QED BY <1>1, <2>1, RemainingFacts, SumOfZeros DEF RestOf
  <1>4. ASSUME NEW j \in 1..l PROVE RestOf(g, c, j - 1, n) = RestOf(g, c, j, n) + d(j)
    <2>1. j \in Nat /\ j - 1 \in Nat /\ d(j) \in Int
      BY <1>1
    <2>2. \A i \in 1..l : Remaining(g, c, j - 1, n)[i] =
             IF i = j THEN Remaining(g, c, j, n)[i] + d(j) ELSE Remaining(g, c, j, n)[i]
      <3> TAKE i \in 1..l
      <3>1. /\ Remaining(g, c, j - 1, n)[i] = IF i > j - 1 THEN d(i) ELSE 0
            /\ Remaining(g, c, j, n)[i] = IF i > j THEN d(i) ELSE 0
            /\ d(i) \in Int
        BY <1>1 DEF Remaining
      <3>2. /\ i = j => i > j - 1 /\ ~(i > j)
            /\ i # j => (i > j - 1 <=> i > j)
        BY <1>1, <2>1
      <3> HIDE DEF d
      <3> QED BY <2>1, <3>1, <3>2
    <2>3. Grown(Remaining(g, c, j - 1, n), Remaining(g, c, j, n), j, d(j))
      <3>1. Len(Remaining(g, c, j - 1, n)) = l /\ Len(Remaining(g, c, j, n)) = l
        BY <2>1, RemainingFacts
      <3> HIDE DEF d, l
      <3> QED BY <2>2, <3>1 DEF Grown
    <2>4. /\ Remaining(g, c, j - 1, n) \in Seq(Int) /\ Remaining(g, c, j, n) \in Seq(Int)
          /\ j \in 1..Len(Remaining(g, c, j, n))
      <3> HIDE DEF d
      <3> QED BY <2>1, RemainingFacts
    <2> HIDE DEF d
    <2> QED BY <2>1, <2>3, <2>4, SumGrows DEF RestOf
  <1> QED BY <1>2, <1>3, <1>4

\* The two vectors that the loop changes.
Vectors == [wd0 : [NodeId -> Int], second : [NodeId -> Int]]

LEMMA AfterEdgeType ==
    ASSUME NEW acc \in Vectors, NEW e \in Edge, Seed \in NodeId,
           weighted_degree_0_ \in [NodeId -> Int]
    PROVE  AfterEdge(acc, e) \in Vectors
  <1> DEFINE d == e.destination
             x == Along(e, weighted_degree_0_[Seed]) + Hop(e)
  <1>1. d \in NodeId /\ Hop(e) \in Int /\ x \in Int
    BY HopIsNatural, AlongFacts
  <1>2. acc.wd0 \in [NodeId -> Int] /\ acc.second \in [NodeId -> Int]
    BY DEF Vectors
  <1>3. AfterEdge(acc, e) = IF IsDone(acc.wd0, d) THEN acc
                            ELSE [wd0    |-> [acc.wd0 EXCEPT ![d] = @ - Hop(e)],
                                  second |-> [acc.second EXCEPT ![d] = @ - x]]
    BY DEF AfterEdge
  <1> HIDE DEF d, x
  <1>4. /\ [acc.wd0 EXCEPT ![d] = @ - Hop(e)] \in [NodeId -> Int]
        /\ [acc.second EXCEPT ![d] = @ - x] \in [NodeId -> Int]
    BY <1>1, <1>2
  <1> QED BY <1>3, <1>4 DEF Vectors

\* The loop goes from edge to edge.
HopsFrom(hop, start) ==
    /\ hop[0] = start
    /\ \A j \in 1..Len(SeedsInEdges) : hop[j] = AfterEdge(hop[j - 1], SeedsInEdges[j])

LEMMA FirstHopRuns ==
    ASSUME graph \in Graph, Seed \in NodeId, weighted_degree_0_ \in [NodeId -> Int],
           NEW wd0 \in [NodeId -> Int], NEW second \in [NodeId -> Int]
    PROVE  \E hop \in [0..Len(SeedsInEdges) -> Vectors] :
              /\ HopsFrom(hop, [wd0 |-> wd0, second |-> second])
              /\ FirstHop(wd0, second) = hop[Len(SeedsInEdges)]
  <1> DEFINE l == Len(SeedsInEdges)
             start == [wd0 |-> wd0, second |-> second]
             step == [j \in 1..l |-> [acc \in Vectors |-> AfterEdge(acc, SeedsInEdges[j])]]
             Loop(h) == h = [j \in 0..l |-> IF j = 0 THEN start
                                            ELSE AfterEdge(h[j - 1], SeedsInEdges[j])]
  <1>1. l \in Nat /\ start \in Vectors /\ \A j \in 1..l : SeedsInEdges[j] \in Edge
    BY Spans DEF Vectors, SeedsInEdges, getInverseEdgesOf
  <1>2. step \in [1..l -> [Vectors -> Vectors]]
    <2> HIDE DEF l
    <2> QED BY <1>1, AfterEdgeType
  <1>3. PICK f \in [0..l -> Vectors] : Recurs(f, l, start, step)
    <2> HIDE DEF step, l, start
    <2> QED BY <1>1, <1>2, BoundedRecursionExists
  <1> HIDE DEF l, start
  <1>4. ASSUME NEW j \in 0..l
        PROVE  f[j] = IF j = 0 THEN start ELSE AfterEdge(f[j - 1], SeedsInEdges[j])
    <2>1. CASE j = 0
      BY <1>3, <2>1 DEF Recurs
    <2>2. CASE j # 0
      <3>1. j \in 1..l /\ f[j - 1] \in Vectors
        BY <1>1, <2>2
      <3>2. f[j] = step[j][f[j - 1]]
        <4> HIDE DEF step
        <4> QED BY <1>3, <2>2 DEF Recurs
      <3> QED BY <2>2, <3>1, <3>2
    <2> QED BY <2>1, <2>2
  <1>5. Loop(f)
    BY <1>4
  <1> DEFINE hop == CHOOSE h : Loop(h)
  <1>6. Loop(hop)
    <2> HIDE DEF Loop
    <2> QED BY <1>5
  <1>7. FirstHop(wd0, second) = hop[l]
    BY DEF FirstHop, l, start
  <1> HIDE DEF hop, step
  <1>8. \A j \in 0..l : hop[j] = IF j = 0 THEN start ELSE AfterEdge(hop[j - 1], SeedsInEdges[j])
    BY <1>6
  <1> DEFINE Same == {j \in Nat : j <= l => hop[j] = f[j]}
  <1>9. 0 \in Same
    BY <1>1, <1>4, <1>8
  <1>10. ASSUME NEW j \in Nat \cap Same PROVE j + 1 \in Same
    <2>1. j + 1 <= l => j + 1 \in 0..l /\ j + 1 # 0 /\ (j + 1) - 1 = j /\ hop[j] = f[j]
      BY <1>1, <1>10
    <2> QED BY <1>4, <1>8, <2>1
  <1>11. Nat \subseteq Same
    <2> HIDE DEF Same
    <2> QED BY <1>9, <1>10, Induction
  <1>12. FirstHop(wd0, second) = f[l]
    BY <1>1, <1>7, <1>11
  <1>13. HopsFrom(f, start)
    BY <1>1, <1>4 DEF HopsFrom, l
  <1> QED BY <1>12, <1>13 DEF l, start

\* A vector with a node's degree without the nodes of S, and 0 for those of seeds.
Degrees(score, seeds, S) ==
    \A n \in NodeId : score[n] = IF n \in seeds THEN 0 ELSE UncoveredOf(graph, S, n)

\* The loop takes the weight of the edges to the seed off the exact weights.
LEMMA FirstHopIsExact ==
    ASSUME graph \in Graphs, weighted_degree_0_ \in [NodeId -> Int],
           NEW S, Seed \in NodeId \ S,
           NEW wd0 \in [NodeId -> Int], NEW second \in [NodeId -> Int],
           Degrees(wd0, S \cup {Seed}, S)
    PROVE  /\ FirstHop(wd0, second) \in Vectors
           /\ Degrees(FirstHop(wd0, second).wd0, S \cup {Seed}, S \cup {Seed})
  <1> DEFINE l == Len(SeedsInEdges)
             T == S \cup {Seed}
             Rest(j, n) == RestOf(graph, Seed, j, n)
             Unc(n) == UncoveredOf(graph, T, n)
  <1>1. /\ graph \in Graph /\ Seed \in NodeId /\ l = Len(graph.backward[Seed])
        /\ l \in Nat /\ SeedsInEdges = graph.backward[Seed]
        /\ \A j \in 1..l : SeedsInEdges[j] \in Edge
    BY UpdateAssumption, Spans DEF SeedsInEdges, getInverseEdgesOf
  <1>2. PICK hop \in [0..l -> Vectors] :
           /\ HopsFrom(hop, [wd0 |-> wd0, second |-> second])
           /\ FirstHop(wd0, second) = hop[l]
    BY <1>1, FirstHopRuns
  <1>3. \A j \in Nat, n \in NodeId : Rest(j, n) \in Nat /\ Unc(n) \in Nat
    BY <1>1, RemainingFacts, UncoveredFacts
  <1>4. \A n \in NodeId : wd0[n] = IF n \in T THEN 0 ELSE Unc(n) + Rest(0, n)
    <2> TAKE n \in NodeId
    <2>1. UncoveredOf(graph, S, n) = Unc(n) + WeightTo(graph, n, Seed)
      BY <1>1, SeedTakesWeight
    <2>2. WeightTo(graph, n, Seed) = BackWeightTo(graph, n, Seed)
      BY <1>1, MirrorAssumption
    <2>3. Rest(0, n) = BackWeightTo(graph, n, Seed)
      BY <1>1, RestSteps
    <2>4. wd0[n] = IF n \in T THEN 0 ELSE UncoveredOf(graph, S, n)
      BY DEF Degrees
    <2> HIDE DEF Unc, Rest
    <2> QED BY <2>1, <2>2, <2>3, <2>4
  <1>5. \A n \in NodeId : /\ Rest(l, n) = 0
                          /\ \A j \in 1..l : Rest(j - 1, n) = Rest(j, n)
                                + IF SeedsInEdges[j].destination = n THEN Hop(SeedsInEdges[j]) ELSE 0
    BY <1>1, RestSteps
  <1> HIDE DEF Rest, Unc, T, l
  <1> DEFINE Right(j) == \A n \in NodeId : hop[j].wd0[n] = IF n \in T THEN 0 ELSE Unc(n) + Rest(j, n)
             Exact == {j \in Nat : j <= l => Right(j)}
  <1>6. Right(0)
    <2>1. hop[0].wd0 = wd0
      BY <1>2 DEF HopsFrom
    <2> QED BY <1>4, <2>1
  <1>7. ASSUME NEW j \in 1..l, Right(j - 1) PROVE Right(j)
    <2> DEFINE e == SeedsInEdges[j]
               d == e.destination
               old == hop[j - 1].wd0
               new == hop[j].wd0
    <2>1. j \in Nat /\ j - 1 \in Nat /\ j - 1 \in 0..l
      BY <1>1
    <2>2. e \in Edge /\ d \in NodeId /\ Hop(e) \in Nat
      BY <1>1, HopIsNatural
    <2>3. hop[j] = AfterEdge(hop[j - 1], e)
      BY <1>2 DEF HopsFrom, l
    <2>4. old \in [NodeId -> Int]
      <3>1. hop[j - 1] \in Vectors
        BY <2>1
      <3> QED BY <3>1 DEF Vectors
    <2>5. \A n \in NodeId : old[n] = IF n \in T THEN 0 ELSE Unc(n) + Rest(j - 1, n)
      BY <1>7
    <2>6. \A n \in NodeId : Rest(j - 1, n) \in Nat /\ Rest(j, n) \in Nat /\ Unc(n) \in Nat
      BY <1>3, <2>1
    <2>7. /\ Rest(j - 1, d) = Rest(j, d) + Hop(e)
          /\ \A n \in NodeId : n # d => Rest(j - 1, n) = Rest(j, n)
      <3>1. \A n \in NodeId : Rest(j - 1, n) = Rest(j, n) + IF d = n THEN Hop(e) ELSE 0
        BY <1>5
      <3> HIDE DEF e
      <3>2. Rest(j - 1, d) = Rest(j, d) + Hop(e)
        BY <2>2, <3>1
      <3>3. ASSUME NEW n \in NodeId, n # d PROVE Rest(j - 1, n) = Rest(j, n)
        <4>1. Rest(j - 1, n) = Rest(j, n) + 0
          BY <3>1, <3>3
        <4>2. Rest(j, n) \in Nat
          BY <2>6
        <4> QED BY <4>1, <4>2
      <3> QED BY <3>2, <3>3
    <2>8. CASE old[d] = 0
      <3>1. new = old
        BY <2>3, <2>8 DEF AfterEdge, IsDone
      <3> HIDE DEF e, old, new
      <3>2. d \notin T => Rest(j - 1, d) = Rest(j, d)
        <4>1. Rest(j - 1, d) \in Nat /\ Rest(j, d) \in Nat /\ Unc(d) \in Nat
          BY <2>2, <2>6
        <4>2. d \notin T => Unc(d) + Rest(j - 1, d) = 0
          BY <2>2, <2>5, <2>8
        <4> QED BY <2>2, <2>7, <4>1, <4>2
      <3>3. \A n \in NodeId : n \notin T => Rest(j - 1, n) = Rest(j, n)
        BY <2>7, <3>2
      <3>4. \A n \in NodeId : new[n] = IF n \in T THEN 0 ELSE Unc(n) + Rest(j, n)
        BY <2>5, <3>1, <3>3
      <3> QED BY <3>4 DEF new
    <2>9. CASE old[d] # 0
      <3>1. new = [old EXCEPT ![d] = @ - Hop(e)]
        BY <2>3, <2>9 DEF AfterEdge, IsDone
      <3> HIDE DEF e, old, new
      <3>2. \A n \in NodeId : new[n] = IF n = d THEN old[n] - Hop(e) ELSE old[n]
        BY <2>4, <3>1
      <3>3. d \notin T
        BY <2>2, <2>5, <2>9
      <3>4. \A n \in NodeId : new[n] = IF n \in T THEN 0 ELSE Unc(n) + Rest(j, n)
        <4> TAKE n \in NodeId
        <4>1. CASE n = d
          <5>1. Rest(j - 1, d) \in Nat /\ Rest(j, d) \in Nat /\ Unc(d) \in Nat
            BY <2>2, <2>6
          <5>2. new[d] = (Unc(d) + Rest(j - 1, d)) - Hop(e)
            BY <2>2, <2>5, <3>2, <3>3
          <5>3. (Unc(d) + (Rest(j, d) + Hop(e))) - Hop(e) = Unc(d) + Rest(j, d)
            BY <2>2, <5>1
          <5> QED BY <2>7, <3>3, <4>1, <5>2, <5>3
        <4>2. CASE n # d
          BY <2>5, <2>7, <3>2, <4>2
        <4> QED BY <4>1, <4>2
      <3> QED BY <3>4 DEF new
    <2> QED BY <2>8, <2>9
  <1>8. Right(l)
    <2> HIDE DEF Right
    <2>1. 0 \in Exact
      BY <1>6
    <2>2. ASSUME NEW i \in Nat \cap Exact PROVE i + 1 \in Exact
      <3>1. i + 1 <= l => i + 1 \in 1..l /\ (i + 1) - 1 = i /\ Right(i)
        BY <1>1, <2>2
      <3>2. i + 1 <= l => Right(i + 1)
        BY <1>7, <3>1
      <3> QED BY <3>2
    <2>3. Nat \subseteq Exact
      <3> HIDE DEF Exact
      <3> QED BY <2>1, <2>2, Induction
    <2> QED BY <1>1, <2>3
  <1>9. \A n \in NodeId : hop[l].wd0[n] = IF n \in T THEN 0 ELSE Unc(n)
    <2> TAKE n \in NodeId
    <2>1. hop[l].wd0[n] = IF n \in T THEN 0 ELSE Unc(n) + Rest(l, n)
      BY <1>8
    <2>2. Rest(l, n) = 0 /\ Unc(n) \in Nat
      BY <1>1, <1>3, <1>5
    <2> QED BY <2>1, <2>2
  <1>10. hop[l] \in Vectors
    <2>1. l \in 0..l
      BY <1>1
    <2> QED BY <2>1
  <1> QED BY <1>2, <1>9, <1>10 DEF T, Unc, l, Degrees

-----------------------------------------------------------------------------
(* The scores that are computed.                                           *)

LEMMA FirstScores ==
    \A n : calculateWD(n) = UncoveredOf(graph, {}, n)
  BY DEF calculateWD, SumOver, getEdgesOf, UncoveredOf, Uncovereds

LEMMA NextScoreFacts ==
    ASSUME graph \in Graph, NEW lookup \in [NodeId -> Int], NEW n \in NodeId
    PROVE  /\ NextScore(lookup, n) \in Int
           /\ \A S : /\ n \notin S
                     /\ \A m \in NodeId :
                           lookup[m] = IF m \in S THEN 0 ELSE UncoveredOf(graph, S, m)
                     => NextScore(lookup, n) = TwoHopOf(graph, S, n)
  <1> DEFINE l == Len(graph.forward[n])
             e(i) == graph.forward[n][i]
             w(i) == Along(e(i), lookup[e(i).destination])
             passed == [i \in 1..l |-> w(i)]
  <1>1. l \in Nat /\ \A i \in 1..l : e(i) \in Edge /\ e(i).destination \in NodeId
    BY Spans, HopIsNatural
  <1>2. \A i \in 1..l : w(i) \in Int
    BY <1>1, AlongFacts
  <1>3. passed \in Seq(Int)
    <2> HIDE DEF w, l
    <2> QED BY <1>1, <1>2
  <1>4. NextScore(lookup, n) = lookup[n] + SumOfSeq(passed)
    BY DEF NextScore, SumOver, getEdgesOf
  <1>5. SumOfSeq(passed) \in Int
    <2> HIDE DEF passed
    <2> QED BY <1>3, SumAddsUp
  <1>6. ASSUME NEW S, n \notin S,
               \A m \in NodeId : lookup[m] = IF m \in S THEN 0 ELSE UncoveredOf(graph, S, m)
        PROVE  NextScore(lookup, n) = TwoHopOf(graph, S, n)
    <2>1. ASSUME NEW i \in 1..l
          PROVE  w(i) = IF e(i).destination \in S THEN 0
                        ELSE Along(e(i), UncoveredOf(graph, S, e(i).destination))
      <3>1. e(i) \in Edge /\ e(i).destination \in NodeId
        BY <1>1
      <3>2. Along(e(i), 0) = 0
        BY <3>1, AlongFacts
      <3>3. lookup[e(i).destination] = IF e(i).destination \in S THEN 0
                                       ELSE UncoveredOf(graph, S, e(i).destination)
        BY <1>6, <3>1
      <3> HIDE DEF e
      <3> QED BY <3>2, <3>3
    <2>2. passed = Seconds(graph, S, n)
      <3>1. Seconds(graph, S, n) =
               [i \in 1..l |-> IF e(i).destination \in S THEN 0
                               ELSE Along(e(i), UncoveredOf(graph, S, e(i).destination))]
        BY DEF Seconds
      <3> HIDE DEF w, e, l
      <3> QED BY <2>1, <3>1
    <2>3. lookup[n] = UncoveredOf(graph, S, n)
      BY <1>6
    <2> HIDE DEF passed
    <2> QED BY <1>4, <2>2, <2>3 DEF TwoHopOf
  <1>7. NextScore(lookup, n) \in Int
    <2> HIDE DEF passed
    <2> QED BY <1>4, <1>5
  <1> QED BY <1>6, <1>7

-----------------------------------------------------------------------------
(* Types, the queue and the tasks.                                         *)

TaskState == [state : {"ready", "read", "ended"}, edges : Nat, register : Int]

\* The queue holds no seed; before the first pick there is none, and nothing has
\* been updated.
QueueInv == /\ pq \cap Selected = {}
            /\ pc \in {"init", "iterate", "first"} => seed_set = <<>>
            /\ pc \in {"init", "iterate", "first", "forward"} => updated_ = {}
            /\ pc \in {"forward", "tasks"} => seed_set # <<>>

\* There is a task for each in-edge of the seed, which walks the in-edges behind it.
TasksInv == pc = "tasks" =>
    /\ iterations_ > 2
    /\ Len(task) = Len(SeedsInEdges)
    /\ \A i \in 1..Len(task) : /\ task[i].edges <= Len(TaskEdges(i))
                               /\ task[i].state = "read" => task[i].edges < Len(TaskEdges(i))

BaseInv == /\ TypeOK
           /\ graph \in Graphs /\ iterations_ \in Nat
           /\ task \in Seq(TaskState)
           /\ QueueInv
           /\ TasksInv

Scores == [NodeId -> Int]

LEMMA BaseTypes ==
    ASSUME BaseInv
    PROVE  /\ graph \in Graph /\ iterations_ \in Nat
           /\ weighted_degree_even_ \in Scores /\ weighted_degree_odd_ \in Scores
           /\ weighted_degree_0_ \in Scores /\ before \in Scores
           /\ weighted_degree \in Scores /\ weighted_degree_old \in Scores
           /\ second_last \in Scores
           /\ seed_set \in Seq(NodeId) /\ pq \subseteq NodeId
  <1>1. /\ weighted_degree_even_ \in Scores /\ weighted_degree_odd_ \in Scores
        /\ weighted_degree_0_ \in Scores /\ before \in Scores
    BY DEF BaseInv, TypeOK, Scores
  <1> QED BY <1>1 DEF BaseInv, TypeOK, weighted_degree, weighted_degree_old, second_last

LEMMA LastSeed ==
    ASSUME seed_set \in Seq(NodeId), seed_set # <<>>
    PROVE  Seed \in NodeId /\ Seed \in Selected
  <1>1. Len(seed_set) \in 1..Len(seed_set) /\ DOMAIN seed_set = 1..Len(seed_set)
    OBVIOUS
  <1> QED BY <1>1 DEF Seed, Last, Selected, Range

LEMMA Picked ==
    ASSUME seed_set \in Seq(NodeId), NEW n \in NodeId, seed_set' = Append(seed_set, n)
    PROVE  /\ seed_set' \in Seq(NodeId) /\ seed_set' # <<>>
           /\ Selected' = Selected \cup {n}
           /\ Seed' = n
  <1>1. seed_set' \in Seq(NodeId) /\ Range(seed_set') = Range(seed_set) \cup {n}
    BY PushRange
  <1>2. Len(seed_set') = Len(seed_set) + 1 /\ seed_set'[Len(seed_set) + 1] = n /\ Len(seed_set) \in Nat
    OBVIOUS
  <1> QED BY <1>1, <1>2 DEF Selected, Seed, Last

\* What a task stands at.
LEMMA TaskFacts ==
    ASSUME BaseInv, pc = "tasks", NEW i \in 1..Len(task)
    PROVE  /\ Seed \in NodeId
           /\ SeedsInEdges \in Seq(Edge) /\ SeedsInEdges[i] \in Edge
           /\ Neighbor(i) \in NodeId
           /\ TaskEdges(i) \in Seq(Edge) /\ Len(TaskEdges(i)) \in Nat
           /\ \A j \in 1..Len(TaskEdges(i)) : TaskEdges(i)[j] \in Edge
           /\ task[i] \in TaskState
           /\ task[i].edges \in Nat /\ task[i].edges <= Len(TaskEdges(i))
           /\ task[i].edges < Len(TaskEdges(i)) =>
                 /\ TaskEdges(i)[task[i].edges + 1] \in Edge
                 /\ NextTail(i) \in NodeId
  <1>1. Seed \in NodeId /\ graph \in Graph
    BY BaseTypes, LastSeed DEF BaseInv, QueueInv
  <1>2. SeedsInEdges \in Seq(Edge) /\ i \in 1..Len(SeedsInEdges)
    BY <1>1, Spans DEF SeedsInEdges, getInverseEdgesOf, BaseInv, TasksInv
  <1>3. SeedsInEdges[i] \in Edge
    BY <1>1, <1>2, Spans DEF SeedsInEdges, getInverseEdgesOf
  <1>4. Neighbor(i) \in NodeId
    BY <1>3, HopIsNatural DEF Neighbor
  <1>5. /\ TaskEdges(i) \in Seq(Edge) /\ Len(TaskEdges(i)) \in Nat
        /\ \A j \in 1..Len(TaskEdges(i)) : TaskEdges(i)[j] \in Edge
    BY <1>1, <1>4, Spans DEF TaskEdges, getInverseEdgesOf
  <1>6. task[i] \in TaskState
    BY Elements DEF BaseInv
  <1>7. task[i].edges \in Nat /\ task[i].edges <= Len(TaskEdges(i))
    BY <1>6 DEF TaskState, BaseInv, TasksInv
  <1>8. ASSUME task[i].edges < Len(TaskEdges(i))
        PROVE  TaskEdges(i)[task[i].edges + 1] \in Edge /\ NextTail(i) \in NodeId
    <2>1. task[i].edges + 1 \in 1..Len(TaskEdges(i))
      BY <1>5, <1>7, <1>8
    <2>2. TaskEdges(i)[task[i].edges + 1] \in Edge
      BY <1>5, <2>1
    <2> QED BY <2>2, HopIsNatural DEF NextTail
  <1> QED BY <1>1, <1>2, <1>3, <1>4, <1>5, <1>6, <1>7, <1>8

-----------------------------------------------------------------------------
(* What the tasks take off a score.                                        *)

Shares(i, n) ==
    [j \in 1..task[i].edges |-> IF TaskEdges(i)[j].destination = n
                                THEN Along(TaskEdges(i)[j], Hop(SeedsInEdges[i])) ELSE 0]

TaskShares(n) == [i \in 1..Len(task) |-> TaskShare(i, n)]

LEMMA ShareFacts ==
    ASSUME BaseInv, pc = "tasks", NEW i \in 1..Len(task), NEW n \in NodeId
    PROVE  /\ Shares(i, n) \in Seq(Int) /\ Len(Shares(i, n)) = task[i].edges
           /\ TaskShare(i, n) = SumOfSeq(Shares(i, n))
           /\ TaskShare(i, n) \in Nat
           /\ \A e \in Edge : Along(e, Hop(SeedsInEdges[i])) \in Nat
  <1> DEFINE l == task[i].edges
             w(j) == IF TaskEdges(i)[j].destination = n
                     THEN Along(TaskEdges(i)[j], Hop(SeedsInEdges[i])) ELSE 0
  <1>1. /\ l \in Nat /\ \A j \in 1..l : TaskEdges(i)[j] \in Edge
    BY TaskFacts
  <1>2. Hop(SeedsInEdges[i]) \in Nat
    BY TaskFacts, HopIsNatural
  <1>3. \A e \in Edge : Along(e, Hop(SeedsInEdges[i])) \in Nat
    BY <1>2, AlongFacts
  <1>4. \A j \in 1..l : w(j) \in Nat
    BY <1>1, <1>3
  <1>5. Shares(i, n) = [j \in 1..l |-> w(j)]
    BY DEF Shares
  <1>6. TaskShare(i, n) = SumOfSeq(Shares(i, n))
    BY DEF TaskShare, Shares
  <1> HIDE DEF w, l
  <1>7. /\ Shares(i, n) \in Seq(Int) /\ Len(Shares(i, n)) = l
        /\ \A j \in 1..l : Shares(i, n)[j] \in Nat
    BY <1>1, <1>4, <1>5
  <1>8. TaskShare(i, n) \in Nat
    BY <1>6, <1>7, SumIsNatural
  <1> QED BY <1>3, <1>6, <1>7, <1>8 DEF l

LEMMA AllSharesFacts ==
    ASSUME BaseInv, pc = "tasks", NEW n \in NodeId
    PROVE  /\ TaskShares(n) \in Seq(Int) /\ Len(TaskShares(n)) = Len(task)
           /\ AllShares(n) = SumOfSeq(TaskShares(n))
           /\ AllShares(n) \in Nat
  <1> DEFINE l == Len(task)
  <1>1. l \in Nat
    BY DEF BaseInv
  <1>2. \A i \in 1..l : TaskShare(i, n) \in Nat
    BY ShareFacts
  <1> HIDE DEF l
  <1>3. /\ TaskShares(n) \in Seq(Int) /\ Len(TaskShares(n)) = l
        /\ \A i \in 1..l : TaskShares(n)[i] = TaskShare(i, n)
    BY <1>1, <1>2 DEF TaskShares, l
  <1>4. AllShares(n) = SumOfSeq(TaskShares(n))
    BY DEF AllShares, TaskShares
  <1> QED BY <1>1, <1>2, <1>3, <1>4, SumIsNatural DEF l

-----------------------------------------------------------------------------
(* The invariant of types, queue and tasks.                                *)

LEMMA InitBase == Init => BaseInv
  <1> SUFFICES ASSUME Init PROVE BaseInv
    OBVIOUS
  <1>1. graph \in Graph /\ k \in 0..MaxK /\ iterations_ \in Nat /\ Zero \in Scores
    BY UpdateAssumption DEF Init, Zero, Scores
  <1>2. TypeOK
    BY <1>1 DEF Init, TypeOK, Scores
  <1>3. Selected = {}
    BY DEF Init, Selected, Range
  <1> QED BY <1>1, <1>2, <1>3 DEF Init, BaseInv, QueueInv, TasksInv

\* The loop over the in-edges of a seed ends with two vectors of scores.
LEMMA ForwardTypes ==
    ASSUME BaseInv, forwardUpdate
    PROVE  /\ Seed \in NodeId /\ Seed \in Selected
           /\ \A score \in Scores : Reset(score) \in Scores
           /\ \A wd0 \in Scores, second \in Scores :
                 /\ FirstHop(wd0, second).wd0 \in Scores
                 /\ FirstHop(wd0, second).second \in Scores
  <1>1. Seed \in NodeId /\ Seed \in Selected /\ graph \in Graph
    BY BaseTypes, LastSeed DEF BaseInv, QueueInv, forwardUpdate
  <1>2. \A score \in Scores : Reset(score) \in Scores
    BY <1>1 DEF Scores, Reset
  <1>3. ASSUME NEW wd0 \in Scores, NEW second \in Scores
        PROVE  FirstHop(wd0, second) \in Vectors
    <2>1. PICK hop \in [0..Len(SeedsInEdges) -> Vectors] :
             FirstHop(wd0, second) = hop[Len(SeedsInEdges)]
      <3>1. weighted_degree_0_ \in [NodeId -> Int] /\ wd0 \in [NodeId -> Int]
            /\ second \in [NodeId -> Int]
        BY <1>3, BaseTypes DEF Scores
      <3> QED BY <1>1, <3>1, FirstHopRuns
    <2>2. Len(SeedsInEdges) \in 0..Len(SeedsInEdges)
      BY <1>1, Spans DEF SeedsInEdges, getInverseEdgesOf
    <2> QED BY <2>1, <2>2
  <1> QED BY <1>1, <1>2, <1>3 DEF Vectors, Scores

\* What an action has to show of the types.
TypesFit ==
    /\ graph \in Graphs /\ k \in 0..MaxK /\ iterations_ \in Iterations
    /\ weighted_degree_even_ \in Scores /\ weighted_degree_odd_ \in Scores
    /\ weighted_degree_0_ \in Scores /\ before \in Scores
    /\ updated_ \subseteq pq /\ pq \subseteq NodeId
    /\ seed_set \in Seq(NodeId)
    /\ pc \in {"init", "iterate", "first", "loop", "forward", "tasks", "done"}
    /\ iteration \in Nat
    /\ task \in Seq(TaskState)

LEMMA TaskRecords ==
    ASSUME NEW t \in Seq(TaskState)
    PROVE  \A i \in DOMAIN t : /\ t[i] \in TaskState
                              /\ t[i].state \in {"ready", "read", "ended"}
                              /\ t[i].edges \in Nat
                              /\ t[i].register \in Int
  <1>1. ASSUME NEW i \in DOMAIN t PROVE t[i] \in TaskState
    BY Elements
  <1> QED BY <1>1 DEF TaskState

LEMMA FitIsTypeOK ==
    /\ BaseInv <=> TypesFit /\ QueueInv /\ TasksInv
    /\ BaseInv' <=> (TypesFit /\ QueueInv /\ TasksInv)'
  <1>1. BaseInv => TypesFit
    BY DEF BaseInv, TypeOK, TypesFit, Scores
  <1>2. ASSUME TypesFit PROVE TypeOK /\ graph \in Graphs /\ iterations_ \in Nat /\ task \in Seq(TaskState)
    <2>1. \A i \in DOMAIN task : /\ task[i].state \in {"ready", "read", "ended"}
                                 /\ task[i].edges \in Nat
                                 /\ task[i].register \in Int
      BY <1>2, TaskRecords DEF TypesFit
    <2> QED BY <1>2, <2>1, UpdateAssumption DEF TypesFit, TypeOK, Scores
  <1>3. BaseInv <=> TypesFit /\ QueueInv /\ TasksInv
    BY <1>1, <1>2 DEF BaseInv
  <1>4. BaseInv' => TypesFit'
    BY DEF BaseInv, TypeOK, TypesFit, Scores
  <1>5. ASSUME TypesFit' PROVE (TypeOK /\ graph \in Graphs /\ iterations_ \in Nat /\ task \in Seq(TaskState))'
    <2>1. \A i \in DOMAIN task' : /\ task'[i].state \in {"ready", "read", "ended"}
                                  /\ task'[i].edges \in Nat
                                  /\ task'[i].register \in Int
      BY <1>5, TaskRecords DEF TypesFit
    <2> QED BY <1>5, <2>1, UpdateAssumption DEF TypesFit, TypeOK, Scores
  <1>6. BaseInv' <=> (TypesFit /\ QueueInv /\ TasksInv)'
    BY <1>4, <1>5 DEF BaseInv
  <1> QED BY <1>3, <1>6

LEMMA InitialScoresBase == BaseInv /\ InitialScores => BaseInv'
  <1> SUFFICES ASSUME BaseInv, InitialScores PROVE BaseInv'
    OBVIOUS
  <1>1. TypesFit /\ QueueInv /\ graph \in Graph
    BY FitIsTypeOK, BaseTypes
  <1>2. [n \in NodeId |-> calculateWD(n)] \in Scores
    BY <1>1, FirstScores, UncoveredFacts DEF Scores
  <1>3. TypesFit'
    BY <1>1, <1>2 DEF TypesFit, InitialScores
  <1>4. QueueInv'
    BY <1>1 DEF QueueInv, InitialScores, Selected
  <1> QED BY <1>3, <1>4, FitIsTypeOK DEF TasksInv, InitialScores

LEMMA IterationBase == BaseInv /\ performWeightedDegreeIteration => BaseInv'
  <1> SUFFICES ASSUME BaseInv, performWeightedDegreeIteration PROVE BaseInv'
    OBVIOUS
  <1>1. TypesFit /\ QueueInv /\ graph \in Graph
    BY FitIsTypeOK, BaseTypes
  <1>2. \A lookup \in Scores : NextScores(lookup) \in Scores
    BY <1>1, NextScoreFacts DEF NextScores, Scores
  <1>3. TypesFit'
    BY <1>1, <1>2 DEF TypesFit, performWeightedDegreeIteration
  <1>4. QueueInv'
    BY <1>1 DEF QueueInv, performWeightedDegreeIteration, Selected
  <1> QED BY <1>3, <1>4, FitIsTypeOK DEF TasksInv, performWeightedDegreeIteration

LEMMA BuildQueueBase == BaseInv /\ BuildQueue => BaseInv'
  <1> SUFFICES ASSUME BaseInv, BuildQueue PROVE BaseInv'
    OBVIOUS
  <1>1. TypesFit /\ QueueInv
    BY FitIsTypeOK
  <1>2. TypesFit'
    BY <1>1 DEF TypesFit, BuildQueue, scores, QueueInv
  <1>3. QueueInv'
    <2>1. Selected' = {}
      BY <1>1 DEF QueueInv, BuildQueue, Selected, Range
    <2> QED BY <1>1, <2>1 DEF QueueInv, BuildQueue
  <1> QED BY <1>2, <1>3, FitIsTypeOK DEF TasksInv, BuildQueue

\* The nodes of a top are queued.
LEMMA TopIsQueued == \A n, queue : IsTop(n, queue) => n \in queue
  BY DEF IsTop, IsLargest

LEMMA TakeFirstBase == BaseInv /\ TakeFirst => BaseInv'
  <1> SUFFICES ASSUME BaseInv, TakeFirst PROVE BaseInv'
    OBVIOUS
  <1>1. TypesFit /\ QueueInv
    BY FitIsTypeOK
  <1>2. PICK n \in NodeId : n \in pq /\ seed_set' = Append(seed_set, n) /\ pq' = pq \ {n}
    BY TopIsQueued DEF TakeFirst
  <1>3. seed_set' \in Seq(NodeId) /\ seed_set' # <<>> /\ Selected' = Selected \cup {n}
    BY <1>1, <1>2, Picked DEF TypesFit
  <1>4. updated_ = {}
    BY <1>1 DEF QueueInv, TakeFirst
  <1>5. TypesFit'
    BY <1>1, <1>2, <1>3, <1>4 DEF TypesFit, TakeFirst, scores
  <1>6. QueueInv'
    BY <1>1, <1>2, <1>3, <1>4 DEF QueueInv, TakeFirst
  <1> QED BY <1>5, <1>6, FitIsTypeOK DEF TasksInv, TakeFirst

LEMMA AddUpToDateBase == BaseInv /\ AddUpToDate => BaseInv'
  <1> SUFFICES ASSUME BaseInv, AddUpToDate PROVE BaseInv'
    OBVIOUS
  <1>1. TypesFit /\ QueueInv
    BY FitIsTypeOK
  <1>2. PICK n \in updated_ : n \in pq /\ seed_set' = Append(seed_set, n) /\ pq' = pq \ {n}
    BY TopIsQueued DEF AddUpToDate
  <1>3. seed_set' \in Seq(NodeId) /\ seed_set' # <<>> /\ Selected' = Selected \cup {n}
    BY <1>1, <1>2, Picked DEF TypesFit
  <1>4. TypesFit'
    BY <1>1, <1>2, <1>3 DEF TypesFit, AddUpToDate, scores, ClearedUpdates
  <1>5. QueueInv'
    BY <1>1, <1>2, <1>3 DEF QueueInv, AddUpToDate, ClearedUpdates
  <1> QED BY <1>4, <1>5, FitIsTypeOK DEF TasksInv, AddUpToDate

LEMMA CurrentScoreType ==
    ASSUME BaseInv, NEW n \in NodeId
    PROVE  CurrentScore(n) \in Int
  <1>1. weighted_degree[n] \in Int
    BY BaseTypes DEF Scores
  <1>2. NextScore(weighted_degree_old, n) \in Int
    BY BaseTypes, NextScoreFacts DEF Scores
  <1> QED BY <1>1, <1>2 DEF CurrentScore, RefreshedScore

LEMMA RefreshBase == BaseInv /\ Refresh => BaseInv'
  <1> SUFFICES ASSUME BaseInv, Refresh PROVE BaseInv'
    OBVIOUS
  <1>1. TypesFit /\ QueueInv
    BY FitIsTypeOK
  <1>2. PICK n \in NodeId \ updated_ :
           /\ n \in pq /\ backwardUpdate(n)
           /\ \/ /\ seed_set' = Append(seed_set, n) /\ pq' = pq \ {n}
                 /\ updated_' = {} /\ pc' = "forward"
              \/ /\ updated_' = updated_ \cup {n} /\ pq' = pq \cup {n}
                 /\ UNCHANGED <<seed_set, pc>>
    BY TopIsQueued DEF Refresh, ClearedUpdates, QueueWith
  <1>3. CurrentScore(n) \in Int
    BY CurrentScoreType
  <1>4. /\ weighted_degree_even_' \in Scores /\ weighted_degree_odd_' \in Scores
        /\ weighted_degree_0_' \in Scores
    BY <1>1, <1>2, <1>3 DEF backwardUpdate, Scores, TypesFit
  <1>5. /\ UNCHANGED <<graph, k, iterations_, iteration, task, before>>
        /\ pc = "loop"
    BY DEF Refresh, Looping
  <1>6. CASE /\ seed_set' = Append(seed_set, n) /\ pq' = pq \ {n}
             /\ updated_' = {} /\ pc' = "forward"
    <2>1. seed_set' \in Seq(NodeId) /\ seed_set' # <<>> /\ Selected' = Selected \cup {n}
      BY <1>1, <1>6, Picked DEF TypesFit
    <2>2. TypesFit'
      BY <1>1, <1>4, <1>5, <1>6, <2>1 DEF TypesFit
    <2>3. QueueInv'
      BY <1>1, <1>2, <1>6, <2>1 DEF QueueInv
    <2> QED BY <1>6, <2>2, <2>3, FitIsTypeOK DEF TasksInv
  <1>7. CASE /\ updated_' = updated_ \cup {n} /\ pq' = pq \cup {n}
             /\ UNCHANGED <<seed_set, pc>>
    <2>1. TypesFit'
      BY <1>1, <1>2, <1>4, <1>5, <1>7 DEF TypesFit
    <2>2. QueueInv'
      BY <1>1, <1>2, <1>5, <1>7 DEF QueueInv, Selected
    <2> QED BY <1>5, <1>7, <2>1, <2>2, FitIsTypeOK DEF TasksInv
  <1> QED BY <1>2, <1>6, <1>7

\* The tasks that forwardUpdate starts.
LEMMA ForwardTasks ==
    ASSUME BaseInv, forwardUpdate
    PROVE  /\ task' \in Seq(TaskState)
           /\ pc' = "tasks" => /\ Len(task') = Len(SeedsInEdges)
                               /\ \A i \in 1..Len(task') : task'[i] = Ready(0)
  <1>1. Len(SeedsInEdges) \in Nat
    BY ForwardTypes, BaseTypes, Spans DEF SeedsInEdges, getInverseEdgesOf
  <1>2. Ready(0) \in TaskState
    BY DEF Ready, TaskState
  <1>3. task' = IF iterations_ > 2 THEN [i \in 1..Len(SeedsInEdges) |-> Ready(0)] ELSE <<>>
    BY DEF forwardUpdate
  <1>4. pc' = "tasks" => iterations_ > 2
    BY DEF forwardUpdate
  <1> QED BY <1>1, <1>2, <1>3, <1>4

LEMMA ForwardBase == BaseInv /\ forwardUpdate => BaseInv'
  <1> SUFFICES ASSUME BaseInv, forwardUpdate PROVE BaseInv'
    OBVIOUS
  <1>1. TypesFit /\ QueueInv /\ graph \in Graph
    BY FitIsTypeOK, BaseTypes
  <1> DEFINE even == Reset(weighted_degree_even_)
             odd  == Reset(weighted_degree_odd_)
             hop  == FirstHop(Reset(weighted_degree_0_),
                              IF iterations_ % 2 = 0 THEN odd ELSE even)
             deep == iterations_ > 2
  <1>2. /\ weighted_degree_0_' = hop.wd0
        /\ weighted_degree_odd_'  = IF deep /\ iterations_ % 2 = 0 THEN hop.second ELSE odd
        /\ weighted_degree_even_' = IF deep /\ iterations_ % 2 = 1 THEN hop.second ELSE even
        /\ before' = hop.second
        /\ pc' = IF deep THEN "tasks" ELSE "loop"
        /\ pc = "forward"
        /\ UNCHANGED <<graph, k, iterations_, updated_, pq, seed_set, iteration>>
    BY DEF forwardUpdate
  <1>3. even \in Scores /\ odd \in Scores /\ Reset(weighted_degree_0_) \in Scores
    BY ForwardTypes, BaseTypes
  <1>4. hop.wd0 \in Scores /\ hop.second \in Scores
    <2> HIDE DEF even, odd
    <2> QED BY <1>3, ForwardTypes
  <1> HIDE DEF even, odd, hop
  <1>5. TypesFit'
    BY <1>1, <1>2, <1>3, <1>4, ForwardTasks DEF TypesFit
  <1>6. QueueInv'
    BY <1>1, <1>2 DEF QueueInv, Selected
  <1>7. TasksInv'
    <2> SUFFICES ASSUME pc' = "tasks" PROVE TasksInv'
      BY DEF TasksInv
    <2>1. SeedsInEdges' = SeedsInEdges /\ Len(task') = Len(SeedsInEdges)
      BY <1>2, ForwardTasks DEF SeedsInEdges, Seed
    <2>2. ASSUME NEW i \in 1..Len(task') PROVE Len(TaskEdges(i)') \in Nat /\ task'[i] = Ready(0)
      <3>1. SeedsInEdges[i].destination \in NodeId
        BY <1>1, <2>1, ForwardTypes, Spans, HopIsNatural DEF SeedsInEdges, getInverseEdgesOf
      <3>2. TaskEdges(i)' = graph.backward[SeedsInEdges[i].destination]
        BY <1>2, <2>1 DEF TaskEdges, Neighbor, getInverseEdgesOf
      <3> QED BY <1>1, <3>1, <3>2, Spans, ForwardTasks
    <2>3. iterations_' > 2
      BY <1>2
    <2> QED BY <2>1, <2>2, <2>3 DEF TasksInv, Ready
  <1> QED BY <1>5, <1>6, <1>7, FitIsTypeOK

\* A task that makes a step; the others and what they walk over stay.
LEMMA TaskStays ==
    ASSUME UNCHANGED <<graph, seed_set>>
    PROVE  /\ SeedsInEdges' = SeedsInEdges
           /\ \A i : TaskEdges(i)' = TaskEdges(i)
  BY DEF SeedsInEdges, Seed, TaskEdges, Neighbor, getInverseEdgesOf

LEMMA ReadStep ==
    ASSUME BaseInv, NEW i \in DOMAIN task, Read(i)
    PROVE  /\ pc = "tasks" /\ pc' = "tasks" /\ i \in 1..Len(task)
           /\ UNCHANGED <<graph, k, iterations_, scores, updated_, pq, seed_set,
                          iteration, before>>
           /\ task' \in Seq(TaskState) /\ Len(task') = Len(task)
           /\ \A j \in 1..Len(task) : j # i => task'[j] = task[j]
           /\ task'[i].edges = task[i].edges
           /\ task'[i].state = "read" => /\ task[i].edges < Len(TaskEdges(i))
                                         /\ task'[i].register = second_last[NextTail(i)]
  <1>1. /\ pc = "tasks" /\ pc' = "tasks" /\ i \in 1..Len(task) /\ task[i].state = "ready"
        /\ UNCHANGED <<graph, k, iterations_, scores, updated_, pq, seed_set,
                       iteration, before>>
    BY DEF Read, BaseInv
  <1> DEFINE new == IF TaskEnds(i) THEN [task[i] EXCEPT !.state = "ended"]
                    ELSE [task[i] EXCEPT !.state = "read", !.register = second_last[NextTail(i)]]
  <1>2. task' = [task EXCEPT ![i] = new]
    BY DEF Read
  <1>3. task \in Seq(TaskState) /\ task[i] \in TaskState
    BY <1>1, TaskFacts DEF BaseInv
  <1>4. ~TaskEnds(i) => task[i].edges < Len(TaskEdges(i))
    <2>1. /\ task[i].edges \in Nat /\ Len(TaskEdges(i)) \in Nat
          /\ task[i].edges <= Len(TaskEdges(i))
      BY <1>1, TaskFacts
    <2>2. ~TaskEnds(i) => task[i].edges # Len(TaskEdges(i))
      BY DEF TaskEnds
    <2> QED BY <2>1, <2>2
  <1>5. ~TaskEnds(i) => second_last[NextTail(i)] \in Int
    BY <1>1, <1>4, TaskFacts, BaseTypes DEF Scores
  <1>6. /\ new \in TaskState /\ new.edges = task[i].edges
        /\ new.state = "read" => /\ task[i].edges < Len(TaskEdges(i))
                                 /\ new.register = second_last[NextTail(i)]
    <2> DEFINE t == task[i]
               x == second_last[NextTail(i)]
    <2>1. t \in TaskState
      BY <1>3
    <2> HIDE DEF t, x
    <2>2. /\ [t EXCEPT !.state = "ended"] \in TaskState
          /\ [t EXCEPT !.state = "ended"].edges = t.edges
          /\ [t EXCEPT !.state = "ended"].state = "ended"
      BY <2>1 DEF TaskState
    <2>3. /\ x \in Int => [t EXCEPT !.state = "read", !.register = x] \in TaskState
          /\ [t EXCEPT !.state = "read", !.register = x].edges = t.edges
          /\ [t EXCEPT !.state = "read", !.register = x].register = x
      BY <2>1 DEF TaskState
    <2>4. new = IF TaskEnds(i) THEN [t EXCEPT !.state = "ended"]
                ELSE [t EXCEPT !.state = "read", !.register = x]
      BY DEF t, x
    <2>5. t = task[i] /\ x = second_last[NextTail(i)]
      BY DEF t, x
    <2> HIDE DEF new
    <2> QED BY <1>4, <1>5, <2>2, <2>3, <2>4, <2>5
  <1> HIDE DEF new
  <1>7. /\ task' \in Seq(TaskState) /\ Len(task') = Len(task)
        /\ \A j \in 1..Len(task) : j # i => task'[j] = task[j]
        /\ task'[i] = new
    <2> HIDE DEF TaskState
    <2> QED BY <1>1, <1>2, <1>3, <1>6
  <1> QED BY <1>1, <1>6, <1>7

LEMMA WriteStep ==
    ASSUME BaseInv, NEW i \in DOMAIN task, Write(i)
    PROVE  /\ pc = "tasks" /\ pc' = "tasks" /\ i \in 1..Len(task)
           /\ UNCHANGED <<graph, k, iterations_, weighted_degree_0_, updated_, pq, seed_set,
                          iteration, before>>
           /\ weighted_degree_even_' \in Scores /\ weighted_degree_odd_' \in Scores
           /\ task[i].edges < Len(TaskEdges(i)) /\ task[i].state = "read"
           /\ task[i].register \in Int
           /\ second_last' = [second_last EXCEPT ![NextTail(i)] = task[i].register
                                - Along(TaskEdges(i)[task[i].edges + 1], Hop(SeedsInEdges[i]))]
           /\ task' \in Seq(TaskState) /\ Len(task') = Len(task)
           /\ \A j \in 1..Len(task) : j # i => task'[j] = task[j]
           /\ task'[i].edges = task[i].edges + 1 /\ task'[i].state = "ready"
  <1>1. /\ pc = "tasks" /\ pc' = "tasks" /\ i \in 1..Len(task) /\ task[i].state = "read"
        /\ UNCHANGED <<graph, k, iterations_, weighted_degree_0_, updated_, pq, seed_set,
                       iteration, before>>
    BY DEF Write, BaseInv
  <1>2. /\ task[i].edges < Len(TaskEdges(i)) /\ task[i] \in TaskState
        /\ task[i].edges \in Nat /\ task[i].register \in Int
    BY <1>1, TaskFacts DEF BaseInv, TasksInv, TaskState
  <1> DEFINE e == TaskEdges(i)[task[i].edges + 1]
             v == [second_last EXCEPT ![NextTail(i)] =
                      task[i].register - Along(e, Hop(SeedsInEdges[i]))]
  <1>3. WriteSecondLast(v)
    BY DEF Write, Share, NextTail
  <1>4. e \in Edge /\ Along(e, Hop(SeedsInEdges[i])) \in Int
    <2>1. e \in Edge
      BY <1>1, <1>2, TaskFacts
    <2>2. SeedsInEdges[i] \in Edge
      BY <1>1, TaskFacts
    <2>3. Hop(SeedsInEdges[i]) \in Int
      BY <2>2, HopIsNatural
    <2> HIDE DEF e
    <2>4. Along(e, Hop(SeedsInEdges[i])) \in Int
      BY <2>1, <2>3, AlongFacts
    <2> QED BY <2>1, <2>4
  <1> HIDE DEF e
  <1>5. v \in Scores
    <2> DEFINE x == task[i].register - Along(e, Hop(SeedsInEdges[i]))
    <2>1. second_last \in Scores /\ x \in Int
      BY <1>2, <1>4, BaseTypes
    <2>2. v = [second_last EXCEPT ![NextTail(i)] = x]
      OBVIOUS
    <2> HIDE DEF v, x
    <2> QED BY <2>1, <2>2 DEF Scores
  <1> HIDE DEF v
  <1>6. /\ weighted_degree_even_' \in Scores /\ weighted_degree_odd_' \in Scores
        /\ second_last' = v
    BY <1>1, <1>3, <1>5, BaseTypes DEF WriteSecondLast, second_last
  <1>7. Ready(task[i].edges + 1) \in TaskState
    BY <1>2 DEF Ready, TaskState
  <1>8. task' = [task EXCEPT ![i] = Ready(task[i].edges + 1)]
    BY DEF Write
  <1>9. /\ task' \in Seq(TaskState) /\ Len(task') = Len(task)
        /\ \A j \in 1..Len(task) : j # i => task'[j] = task[j]
        /\ task'[i] = Ready(task[i].edges + 1)
    <2>1. task \in Seq(TaskState)
      BY DEF BaseInv
    <2> HIDE DEF TaskState
    <2> QED BY <1>1, <1>7, <1>8, <2>1
  <1>10. task'[i].edges = task[i].edges + 1 /\ task'[i].state = "ready"
    BY <1>9 DEF Ready
  <1> QED BY <1>1, <1>2, <1>6, <1>9, <1>10 DEF v, e

LEMMA ReadBase == ASSUME BaseInv, NEW i \in DOMAIN task, Read(i) PROVE BaseInv'
  <1>1. TypesFit /\ QueueInv /\ TasksInv
    BY FitIsTypeOK
  <1>2. /\ pc = "tasks" /\ pc' = "tasks" /\ i \in 1..Len(task)
        /\ UNCHANGED <<graph, k, iterations_, scores, updated_, pq, seed_set,
                       iteration, before>>
        /\ task' \in Seq(TaskState) /\ Len(task') = Len(task)
        /\ \A j \in 1..Len(task) : j # i => task'[j] = task[j]
        /\ task'[i].edges = task[i].edges
        /\ task'[i].state = "read" => task[i].edges < Len(TaskEdges(i))
    BY ReadStep
  <1>3. TypesFit'
    BY <1>1, <1>2 DEF TypesFit, scores
  <1>4. QueueInv'
    BY <1>1, <1>2 DEF QueueInv, Selected
  <1>5. TasksInv'
    <2>1. SeedsInEdges' = SeedsInEdges /\ \A j : TaskEdges(j)' = TaskEdges(j)
      BY <1>2, TaskStays
    <2>2. ASSUME NEW j \in 1..Len(task')
          PROVE  /\ task'[j].edges <= Len(TaskEdges(j)')
                 /\ task'[j].state = "read" => task'[j].edges < Len(TaskEdges(j)')
      BY <1>1, <1>2, <2>1 DEF TasksInv
    <2> QED BY <1>1, <1>2, <2>1, <2>2 DEF TasksInv
  <1> QED BY <1>3, <1>4, <1>5, FitIsTypeOK

LEMMA WriteBase == ASSUME BaseInv, NEW i \in DOMAIN task, Write(i) PROVE BaseInv'
  <1>1. TypesFit /\ QueueInv /\ TasksInv
    BY FitIsTypeOK
  <1>2. /\ pc = "tasks" /\ pc' = "tasks" /\ i \in 1..Len(task)
        /\ UNCHANGED <<graph, k, iterations_, weighted_degree_0_, updated_, pq, seed_set,
                       iteration, before>>
        /\ weighted_degree_even_' \in Scores /\ weighted_degree_odd_' \in Scores
        /\ task[i].edges < Len(TaskEdges(i))
        /\ task' \in Seq(TaskState) /\ Len(task') = Len(task)
        /\ \A j \in 1..Len(task) : j # i => task'[j] = task[j]
        /\ task'[i].edges = task[i].edges + 1 /\ task'[i].state = "ready"
    BY WriteStep
  <1>3. TypesFit'
    BY <1>1, <1>2 DEF TypesFit
  <1>4. QueueInv'
    BY <1>1, <1>2 DEF QueueInv, Selected
  <1>5. TasksInv'
    <2>1. SeedsInEdges' = SeedsInEdges /\ \A j : TaskEdges(j)' = TaskEdges(j)
      BY <1>2, TaskStays
    <2>2. ASSUME NEW j \in 1..Len(task')
          PROVE  /\ task'[j].edges <= Len(TaskEdges(j)')
                 /\ task'[j].state = "read" => task'[j].edges < Len(TaskEdges(j)')
      <3>1. CASE j = i
        <4>1. task[i].edges \in Nat /\ Len(TaskEdges(i)) \in Nat
          BY <1>2, TaskFacts
        <4> QED BY <1>2, <2>1, <3>1, <4>1
      <3>2. CASE j # i
        BY <1>1, <1>2, <2>1, <3>2 DEF TasksInv
      <3> QED BY <3>1, <3>2
    <2> QED BY <1>1, <1>2, <2>1, <2>2 DEF TasksInv
  <1> QED BY <1>3, <1>4, <1>5, FitIsTypeOK

LEMMA QuietBase ==
    ASSUME BaseInv, UNCHANGED <<graph, k, iterations_, scores, updated_, pq, seed_set,
                                iteration, task, before>>,
           \/ pc = "tasks" /\ pc' = "loop"
           \/ pc = "loop" /\ pc' = "done"
           \/ pc' = pc
    PROVE  BaseInv'
  <1>1. TypesFit /\ QueueInv /\ TasksInv
    BY FitIsTypeOK
  <1>2. TypesFit'
    BY <1>1 DEF TypesFit, scores
  <1>3. QueueInv'
    BY <1>1 DEF QueueInv, Selected
  <1>4. TasksInv'
    BY <1>1 DEF TasksInv, SeedsInEdges, Seed, TaskEdges, Neighbor, getInverseEdgesOf
  <1> QED BY <1>2, <1>3, <1>4, FitIsTypeOK

LEMMA BaseStep == BaseInv /\ [Next]_vars => BaseInv'
  <1> SUFFICES ASSUME BaseInv, [Next]_vars PROVE BaseInv'
    OBVIOUS
  <1>1. CASE InitialScores BY <1>1, InitialScoresBase
  <1>2. CASE performWeightedDegreeIteration BY <1>2, IterationBase
  <1>3. CASE BuildQueue BY <1>3, BuildQueueBase
  <1>4. CASE TakeFirst BY <1>4, TakeFirstBase
  <1>5. CASE AddUpToDate BY <1>5, AddUpToDateBase
  <1>6. CASE Refresh BY <1>6, RefreshBase
  <1>7. CASE forwardUpdate BY <1>7, ForwardBase
  <1>8. ASSUME NEW i \in DOMAIN task, Read(i) \/ Write(i) PROVE BaseInv'
    BY <1>8, ReadBase, WriteBase
  <1>9. CASE Join
    BY <1>9, QuietBase DEF Join, Joined
  <1>10. CASE Return
    BY <1>10, QuietBase DEF Return
  <1>11. CASE UNCHANGED vars
    BY <1>11, QuietBase DEF vars
  <1> QED BY <1>1, <1>2, <1>3, <1>4, <1>5, <1>6, <1>7, <1>8, <1>9, <1>10, <1>11 DEF Next

\* Every variable keeps its type, on every graph and whatever the tasks interleave.
THEOREM TypeCorrect == Spec => []TypeOK
  <1>1. BaseInv => TypeOK
    BY DEF BaseInv
  <1> QED BY <1>1, InitBase, BaseStep, PTL DEF Spec

-----------------------------------------------------------------------------
(* The weighted degrees.                                                   *)

\* The weighted degrees are those of the graph without the nodes of S.
Weighs(S) == Degrees(weighted_degree_0_, S, S)

\* Between the pick of a seed and its update they are those without the earlier seeds.
Earlier == Selected \ {Seed}

WeightInv == /\ pc \in {"iterate", "first"} => Weighs({})
             /\ pc = "forward" => Weighs(Earlier)
             /\ pc \in {"loop", "tasks", "done"} => Weighs(Selected)

\* A step that appends a queued node to the seeds.
Picks(n) == /\ n \in pq /\ seed_set' = Append(seed_set, n) /\ pq' = pq \ {n}
            /\ updated_' = {} /\ pc' = "forward"
            /\ UNCHANGED <<graph, iterations_, weighted_degree_0_, iteration>>

\* The steps that append to the seeds, and what they know of the node.
LEMMA PickingSteps ==
    ASSUME BaseInv, [Next]_vars
    PROVE  \/ seed_set' = seed_set
           \/ /\ pc = "first" /\ UNCHANGED weighted_degree_even_
              /\ \E n \in NodeId : IsTop(n, pq) /\ Picks(n)
           \/ /\ pc = "loop" /\ UNCHANGED weighted_degree_even_
              /\ \E n \in updated_ : IsTop(n, pq) /\ Picks(n)
           \/ /\ pc = "loop"
              /\ \E n \in NodeId \ updated_ : /\ IsTop(n, pq) /\ Picks(n) /\ backwardUpdate(n)
                                              /\ StaysOnTop(CurrentScore(n), pq \ {n})
  <1>1. CASE TakeFirst
    <2>1. PICK n \in NodeId : IsTop(n, pq) /\ seed_set' = Append(seed_set, n) /\ pq' = pq \ {n}
      BY <1>1 DEF TakeFirst
    <2>2. updated_ = {}
      BY <1>1 DEF TakeFirst, BaseInv, QueueInv
    <2>3. Picks(n)
      BY <1>1, <2>1, <2>2, TopIsQueued DEF TakeFirst, Picks, scores
    <2> QED BY <1>1, <2>1, <2>3 DEF TakeFirst, scores
  <1>2. CASE AddUpToDate
    <2>1. PICK n \in updated_ : IsTop(n, pq) /\ seed_set' = Append(seed_set, n) /\ pq' = pq \ {n}
      BY <1>2 DEF AddUpToDate
    <2>2. Picks(n)
      BY <1>2, <2>1, TopIsQueued DEF AddUpToDate, Picks, ClearedUpdates, scores
    <2> QED BY <1>2, <2>1, <2>2 DEF AddUpToDate, Looping, scores
  <1>3. CASE Refresh
    <2>1. PICK n \in NodeId \ updated_ :
             /\ IsTop(n, pq) /\ backwardUpdate(n)
             /\ \/ /\ StaysOnTop(CurrentScore(n), pq \ {n})
                   /\ seed_set' = Append(seed_set, n) /\ pq' = pq \ {n}
                   /\ updated_' = {} /\ pc' = "forward"
                \/ seed_set' = seed_set
      BY <1>3 DEF Refresh, ClearedUpdates
    <2>2. CASE seed_set' = seed_set
      BY <2>2
    <2>3. CASE seed_set' # seed_set
      <3>1. Picks(n)
        BY <1>3, <2>1, <2>3, TopIsQueued DEF Refresh, Picks, backwardUpdate
      <3> QED BY <1>3, <2>1, <2>3, <3>1 DEF Refresh, Looping
    <2> QED BY <2>2, <2>3
  <1>4. CASE \/ InitialScores \/ performWeightedDegreeIteration \/ BuildQueue
             \/ forwardUpdate \/ Join \/ Return \/ UNCHANGED vars
    BY <1>4 DEF InitialScores, performWeightedDegreeIteration, BuildQueue, forwardUpdate,
                Join, Return, vars
  <1>5. CASE \E i \in DOMAIN task : Read(i) \/ Write(i)
    BY <1>5 DEF Read, Write
  <1> QED BY <1>1, <1>2, <1>3, <1>4, <1>5 DEF Next

\* The seeds before a pick are the earlier ones after it.
LEMMA PickedEarlier ==
    ASSUME BaseInv, NEW n \in NodeId, Picks(n)
    PROVE  Earlier' = Selected /\ Selected' = Selected \cup {n} /\ Seed' = n
  <1>1. Selected' = Selected \cup {n} /\ Seed' = n
    BY Picked, BaseTypes DEF Picks
  <1>2. n \notin Selected
    BY DEF BaseInv, QueueInv, Picks
  <1> QED BY <1>1, <1>2 DEF Earlier

LEMMA PickWeight ==
    ASSUME BaseInv, WeightInv, NEW n \in NodeId, Picks(n), pc \in {"first", "loop"}
    PROVE  WeightInv'
  <1>1. Earlier' = Selected
    BY PickedEarlier
  <1>2. Weighs(Selected)
    <2>1. pc = "first" => Selected = {}
      BY DEF BaseInv, QueueInv, Selected, Range
    <2> QED BY <2>1 DEF WeightInv
  <1>3. pc' = "forward" /\ graph' = graph /\ weighted_degree_0_' = weighted_degree_0_
    BY DEF Picks
  <1>4. Weighs(Earlier)'
    BY <1>1, <1>2, <1>3 DEF Weighs, Degrees
  <1> QED BY <1>3, <1>4 DEF WeightInv

LEMMA ForwardWeight ==
    ASSUME BaseInv, WeightInv, forwardUpdate
    PROVE  WeightInv'
  <1> DEFINE wd0 == Reset(weighted_degree_0_)
             second == IF iterations_ % 2 = 0 THEN Reset(weighted_degree_odd_)
                       ELSE Reset(weighted_degree_even_)
  <1>1. /\ Seed \in NodeId /\ Seed \in Selected
        /\ wd0 \in Scores /\ second \in Scores
    BY ForwardTypes, BaseTypes
  <1>2. weighted_degree_0_ \in Scores /\ graph \in Graphs
    BY BaseTypes DEF BaseInv
  <1>3. Weighs(Earlier)
    BY DEF WeightInv, forwardUpdate
  <1>4. Seed \in NodeId \ Earlier /\ Earlier \cup {Seed} = Selected
    BY <1>1 DEF Earlier
  <1>5. Degrees(wd0, Earlier \cup {Seed}, Earlier)
    <2>1. \A n \in NodeId : wd0[n] = IF n = Seed THEN 0 ELSE weighted_degree_0_[n]
      BY <1>2 DEF Reset, Scores
    <2> QED BY <1>3, <2>1 DEF Weighs, Degrees
  <1>6. /\ weighted_degree_0_' = FirstHop(wd0, second).wd0
        /\ pc' \in {"tasks", "loop"} /\ UNCHANGED <<graph, seed_set>>
    BY DEF forwardUpdate
  <1> HIDE DEF wd0, second
  <1>7. Degrees(weighted_degree_0_', Selected, Selected)
    BY <1>1, <1>2, <1>4, <1>5, <1>6, FirstHopIsExact DEF Scores
  <1>8. Selected' = Selected
    BY <1>6 DEF Selected
  <1>9. Weighs(Selected)'
    BY <1>4, <1>6, <1>7, <1>8 DEF Weighs, Degrees
  <1> QED BY <1>6, <1>9 DEF WeightInv

\* The other steps after the first score leave the weighted degrees and the seeds alone.
LEMMA QuietWeight ==
    ASSUME BaseInv, WeightInv,
           UNCHANGED <<graph, weighted_degree_0_, seed_set>>,
           \/ pc' = pc
           \/ pc = "iterate" /\ pc' = "first"
           \/ pc \in {"loop", "tasks"} /\ pc' \in {"loop", "done"}
    PROVE  WeightInv'
  <1>1. Selected' = Selected /\ Earlier' = Earlier
    BY DEF Selected, Earlier, Seed
  <1>2. \A S : Weighs(S) => \A n \in NodeId : weighted_degree_0_'[n] =
                               IF n \in S THEN 0 ELSE UncoveredOf(graph', S, n)
    BY DEF Weighs, Degrees
  <1>3. /\ Weighs({}) => Weighs({})'
        /\ Weighs(Earlier) => Weighs(Earlier)'
        /\ Weighs(Selected) => Weighs(Selected)'
    BY <1>1, <1>2 DEF Weighs, Degrees
  <1> QED BY <1>3 DEF WeightInv

LEMMA WeightStep == BaseInv /\ WeightInv /\ [Next]_vars => WeightInv'
  <1> SUFFICES ASSUME BaseInv, WeightInv, [Next]_vars PROVE WeightInv'
    OBVIOUS
  <1>1. CASE InitialScores
    <2>1. \A n \in NodeId : weighted_degree_0_'[n] = UncoveredOf(graph, {}, n)
      BY <1>1, FirstScores DEF InitialScores
    <2>2. Weighs({})' /\ pc' = "iterate"
      BY <1>1, <2>1 DEF Weighs, Degrees, InitialScores
    <2> QED BY <2>2 DEF WeightInv
  <1>2. CASE forwardUpdate
    BY <1>2, ForwardWeight
  <1>3. CASE seed_set' # seed_set
    <2>1. PICK n \in NodeId : Picks(n) /\ pc \in {"first", "loop"}
      <3>1. pq \subseteq NodeId /\ updated_ \subseteq pq
        BY DEF BaseInv, TypeOK
      <3> QED BY <1>3, <3>1, PickingSteps
    <2> QED BY <2>1, PickWeight
  <1>4. CASE seed_set' = seed_set /\ ~InitialScores /\ ~forwardUpdate
    <2>1. CASE performWeightedDegreeIteration \/ BuildQueue
      BY <2>1, QuietWeight DEF performWeightedDegreeIteration, BuildQueue, scores
    <2>2. CASE TakeFirst \/ AddUpToDate
      <3>1. \E n \in NodeId : seed_set' = Append(seed_set, n)
        <4>1. updated_ \subseteq NodeId
          BY DEF BaseInv, TypeOK
        <4> QED BY <2>2, <4>1 DEF TakeFirst, AddUpToDate
      <3>2. seed_set' # seed_set
        BY <3>1, BaseTypes
      <3> QED BY <1>4, <3>2
    <2>3. CASE Refresh
      <3>1. UNCHANGED <<graph, weighted_degree_0_>>
        BY <2>3 DEF Refresh, backwardUpdate
      <3>2. pc' = pc
        <4>1. PICK n \in NodeId : \/ seed_set' = Append(seed_set, n)
                                  \/ UNCHANGED <<seed_set, pc>>
          BY <2>3 DEF Refresh
        <4>2. Append(seed_set, n) # seed_set
          BY BaseTypes
        <4> QED BY <1>4, <4>1, <4>2
      <3> QED BY <1>4, <3>1, <3>2, QuietWeight
    <2>4. CASE \E i \in DOMAIN task : Read(i) \/ Write(i)
      BY <1>4, <2>4, QuietWeight DEF Read, Write, scores
    <2>5. CASE Join \/ Return
      BY <2>5, QuietWeight DEF Join, Joined, Return, scores
    <2>6. CASE UNCHANGED vars
      BY <2>6, QuietWeight DEF vars, scores
    <2> QED BY <1>4, <2>1, <2>2, <2>3, <2>4, <2>5, <2>6 DEF Next
  <1> QED BY <1>1, <1>2, <1>3, <1>4

\* Between the updates weighted_degree_0_ holds the weight of each node's edges to
\* nodes that are not seeds, and 0 for a seed, so that the test "is 0" of line 153
\* skips no node with an edge of positive weight to the seed.
THEOREM ExactWeightedDegrees == Spec => []WeightedDegreesAreExact
  <1>1. Init => WeightInv
    BY DEF Init, WeightInv
  <1>2. BaseInv /\ WeightInv => WeightedDegreesAreExact
    <2> SUFFICES ASSUME BaseInv, WeightInv PROVE WeightedDegreesAreExact
      OBVIOUS
    <2>1. pc = "first" => Selected = {}
      BY DEF BaseInv, QueueInv, Selected, Range
    <2>2. pc \in {"first", "loop", "tasks", "done"} => Weighs(Selected)
      BY <2>1 DEF WeightInv
    <2> QED BY <2>2, TrueScores DEF Weighs, Degrees, WeightedDegreesAreExact, BaseInv
  <1> QED BY <1>1, <1>2, InitBase, BaseStep, WeightStep, PTL DEF Spec

-----------------------------------------------------------------------------
(* Two iterations: stale scores are upper bounds.                          *)

\* The score of a queued node is at least its true one.
Overestimates == \A n \in pq : TwoHopOf(graph, Selected, n) <= weighted_degree_even_[n]

TwoHopInv == iterations_ = 2 =>
    /\ pc \in {"init", "iterate"} => iteration >= 2
    /\ pc = "init" => iteration = 2
    /\ pc = "iterate" /\ iteration = 2 =>
          \A n \in NodeId : weighted_degree_odd_[n] = UncoveredOf(graph, {}, n)
    /\ pc = "iterate" /\ iteration > 2 =>
          \A n \in NodeId : weighted_degree_even_[n] = TwoHopOf(graph, {}, n)
    /\ pc \in {"first", "forward", "loop"} => Overestimates
    /\ pc = "first" => \A n \in pq : weighted_degree_even_[n] = TwoHopOf(graph, Selected, n)
    /\ pc = "loop" =>
          \A n \in updated_ : weighted_degree_even_[n] = TwoHopOf(graph, Selected, n)

\* backwardUpdate computes the true score of a node.
LEMMA RefreshedIsTrue ==
    ASSUME BaseInv, WeightInv, iterations_ = 2, pc = "loop", NEW n \in pq
    PROVE  CurrentScore(n) = TwoHopOf(graph, Selected, n)
  <1>1. n \in NodeId /\ n \notin Selected /\ graph \in Graph
        /\ weighted_degree_0_ \in [NodeId -> Int]
    BY BaseTypes DEF BaseInv, QueueInv, Scores
  <1>2. CurrentScore(n) = NextScore(weighted_degree_0_, n)
    BY DEF CurrentScore, RefreshedScore, weighted_degree_old
  <1>3. Degrees(weighted_degree_0_, Selected, Selected)
    BY DEF WeightInv, Weighs
  <1>4. \A S : /\ n \notin S
               /\ \A m \in NodeId : weighted_degree_0_[m] =
                                       IF m \in S THEN 0 ELSE UncoveredOf(graph, S, m)
               => NextScore(weighted_degree_0_, n) = TwoHopOf(graph, S, n)
    BY <1>1, NextScoreFacts
  <1> QED BY <1>1, <1>2, <1>3, <1>4 DEF Degrees

LEMMA InitialTwoHop == BaseInv /\ TwoHopInv /\ InitialScores => TwoHopInv'
  <1> SUFFICES ASSUME BaseInv, TwoHopInv, InitialScores, iterations_ = 2 PROVE TwoHopInv'
    BY DEF TwoHopInv, InitialScores
  <1>1. \A n \in NodeId : weighted_degree_odd_'[n] = UncoveredOf(graph, {}, n)
    BY FirstScores DEF InitialScores
  <1> QED BY <1>1 DEF TwoHopInv, InitialScores

LEMMA IterationTwoHop == BaseInv /\ TwoHopInv /\ performWeightedDegreeIteration => TwoHopInv'
  <1> SUFFICES ASSUME BaseInv, TwoHopInv, performWeightedDegreeIteration, iterations_ = 2
               PROVE  TwoHopInv'
    BY DEF TwoHopInv, performWeightedDegreeIteration
  <1>1. iteration = 2 /\ pc = "iterate" /\ pc' = "iterate" /\ iteration' = 3
    BY DEF TwoHopInv, performWeightedDegreeIteration, BaseInv, TypeOK
  <1>2. \A n \in NodeId : weighted_degree_odd_[n] = UncoveredOf(graph, {}, n)
    BY <1>1 DEF TwoHopInv
  <1>3. graph \in Graph /\ weighted_degree_odd_ \in [NodeId -> Int]
    BY BaseTypes DEF Scores
  <1>4. ASSUME NEW n \in NodeId
        PROVE  NextScore(weighted_degree_odd_, n) = TwoHopOf(graph, {}, n)
    <2>1. \A m \in NodeId : weighted_degree_odd_[m] =
                               IF m \in {} THEN 0 ELSE UncoveredOf(graph, {}, m)
      BY <1>2
    <2>2. \A S : /\ n \notin S
                 /\ \A m \in NodeId : weighted_degree_odd_[m] =
                                         IF m \in S THEN 0 ELSE UncoveredOf(graph, S, m)
                 => NextScore(weighted_degree_odd_, n) = TwoHopOf(graph, S, n)
      BY <1>3, NextScoreFacts
    <2> QED BY <2>1, <2>2
  <1>5. weighted_degree_even_' = NextScores(weighted_degree_odd_)
    BY <1>1 DEF performWeightedDegreeIteration
  <1>6. \A n \in NodeId : weighted_degree_even_'[n] = TwoHopOf(graph, {}, n)
    BY <1>4, <1>5 DEF NextScores
  <1> QED BY <1>1, <1>6 DEF TwoHopInv, performWeightedDegreeIteration

LEMMA BuildQueueTwoHop == BaseInv /\ TwoHopInv /\ BuildQueue => TwoHopInv'
  <1> SUFFICES ASSUME BaseInv, TwoHopInv, BuildQueue, iterations_ = 2 PROVE TwoHopInv'
    BY DEF TwoHopInv, BuildQueue
  <1>1. iteration > 2 /\ pc = "iterate" /\ pc' = "first" /\ pq' = NodeId
    BY DEF BuildQueue
  <1>2. \A n \in NodeId : weighted_degree_even_[n] = TwoHopOf(graph, {}, n)
    BY <1>1 DEF TwoHopInv
  <1>3. Selected' = {} /\ UNCHANGED <<graph, weighted_degree_even_>>
    BY <1>1 DEF BuildQueue, BaseInv, QueueInv, Selected, Range, scores
  <1>4. \A n \in NodeId : TwoHopOf(graph, {}, n) \in Nat
    BY BaseTypes, SecondFacts
  <1>5. \A n \in pq' : /\ weighted_degree_even_'[n] = TwoHopOf(graph', Selected', n)
                       /\ TwoHopOf(graph', Selected', n) <= weighted_degree_even_'[n]
    BY <1>1, <1>2, <1>3, <1>4
  <1> QED BY <1>1, <1>5 DEF TwoHopInv, Overestimates

\* A pick changes no score of a node that stays queued, and only lowers the true ones.
LEMMA PickTwoHop ==
    ASSUME BaseInv, TwoHopInv, iterations_ = 2, pc \in {"first", "loop"},
           NEW n \in NodeId, Picks(n),
           \A m \in pq \ {n} : weighted_degree_even_'[m] = weighted_degree_even_[m]
    PROVE  TwoHopInv'
  <1>1. /\ pc' = "forward" /\ pq' = pq \ {n} /\ graph' = graph /\ pq \subseteq NodeId
        /\ graph \in Graph /\ iterations_' = 2
        /\ weighted_degree_even_ \in Scores
    BY BaseTypes DEF Picks
  <1>2. Selected \subseteq Selected'
    BY PickedEarlier
  <1>3. ASSUME NEW m \in pq' PROVE TwoHopOf(graph', Selected', m) <= weighted_degree_even_'[m]
    <2>1. m \in NodeId /\ m \in pq /\ weighted_degree_even_'[m] = weighted_degree_even_[m]
          /\ weighted_degree_even_[m] \in Int
      BY <1>1 DEF Scores
    <2>2. TwoHopOf(graph, Selected', m) <= TwoHopOf(graph, Selected, m)
      BY <1>1, <1>2, <2>1, ScoresShrink
    <2>3. TwoHopOf(graph, Selected, m) <= weighted_degree_even_[m]
      BY <2>1 DEF TwoHopInv, Overestimates
    <2>4. TwoHopOf(graph, Selected', m) \in Int /\ TwoHopOf(graph, Selected, m) \in Int
      BY <1>1, <2>1, SecondFacts
    <2> QED BY <1>1, <2>1, <2>2, <2>3, <2>4
  <1> QED BY <1>1, <1>3 DEF TwoHopInv, Overestimates

LEMMA PicksTwoHop == BaseInv /\ TwoHopInv /\ [Next]_vars /\ seed_set' # seed_set => TwoHopInv'
  <1> SUFFICES ASSUME BaseInv, TwoHopInv, [Next]_vars, seed_set' # seed_set PROVE TwoHopInv'
    OBVIOUS
  <1>1. PICK n \in NodeId : /\ Picks(n) /\ pc \in {"first", "loop"}
                            /\ weighted_degree_even_' = weighted_degree_even_ \/ backwardUpdate(n)
    <2>1. updated_ \subseteq NodeId
      BY DEF BaseInv, TypeOK
    <2> QED BY <2>1, PickingSteps
  <1>2. CASE iterations_ # 2
    BY <1>1, <1>2 DEF TwoHopInv, Picks
  <1>3. CASE iterations_ = 2
    <2>1. \A m \in pq \ {n} : weighted_degree_even_'[m] = weighted_degree_even_[m]
      <3>1. weighted_degree_even_ \in [NodeId -> Int] /\ pq \subseteq NodeId
        BY BaseTypes DEF Scores
      <3> QED BY <1>1, <3>1 DEF backwardUpdate
    <2> QED BY <1>1, <1>3, <2>1, PickTwoHop
  <1> QED BY <1>2, <1>3

LEMMA RefreshTwoHop ==
    ASSUME BaseInv, WeightInv, TwoHopInv, Refresh, seed_set' = seed_set
    PROVE  TwoHopInv'
  <1> SUFFICES ASSUME iterations_ = 2 PROVE TwoHopInv'
    BY DEF Refresh, TwoHopInv
  <1>1. PICK n \in NodeId \ updated_ :
           /\ n \in pq /\ backwardUpdate(n)
           /\ \/ seed_set' = Append(seed_set, n)
              \/ /\ updated_' = updated_ \cup {n} /\ pq' = pq \cup {n} /\ pc' = pc
    BY TopIsQueued DEF Refresh, QueueWith
  <1>2. Append(seed_set, n) # seed_set
    BY BaseTypes
  <1>3. /\ updated_' = updated_ \cup {n} /\ pq' = pq /\ pc = "loop" /\ pc' = "loop"
        /\ UNCHANGED <<graph, iterations_>>
    BY <1>1, <1>2 DEF Refresh, Looping
  <1>4. CurrentScore(n) = TwoHopOf(graph, Selected, n)
    BY <1>1, <1>3, RefreshedIsTrue
  <1>5. TwoHopOf(graph, Selected, n) \in Int
    BY BaseTypes, SecondFacts
  <1>6. \A m \in NodeId : weighted_degree_even_'[m] =
           IF m = n THEN TwoHopOf(graph, Selected, n) ELSE weighted_degree_even_[m]
    <2>1. weighted_degree_even_' = [weighted_degree_even_ EXCEPT ![n] = CurrentScore(n)]
      BY <1>1 DEF backwardUpdate
    <2>2. weighted_degree_even_ \in [NodeId -> Int]
      BY BaseTypes DEF Scores
    <2> QED BY <1>4, <2>1, <2>2
  <1>7. Selected' = Selected /\ pq \subseteq NodeId /\ updated_ \subseteq pq
    BY BaseTypes DEF Selected, BaseInv, TypeOK
  <1>8. Overestimates'
    BY <1>3, <1>5, <1>6, <1>7 DEF TwoHopInv, Overestimates
  <1>9. \A m \in updated_' : weighted_degree_even_'[m] = TwoHopOf(graph', Selected', m)
    BY <1>3, <1>6, <1>7 DEF TwoHopInv
  <1> QED BY <1>3, <1>8, <1>9 DEF TwoHopInv

LEMMA ForwardTwoHop == BaseInv /\ TwoHopInv /\ forwardUpdate => TwoHopInv'
  <1> SUFFICES ASSUME BaseInv, TwoHopInv, forwardUpdate, iterations_ = 2 PROVE TwoHopInv'
    BY DEF TwoHopInv, forwardUpdate
  <1>1. /\ pc = "forward" /\ pc' = "loop"
        /\ weighted_degree_even_' = Reset(weighted_degree_even_)
        /\ UNCHANGED <<graph, iterations_, updated_, pq, seed_set>>
    BY DEF forwardUpdate
  <1>2. /\ weighted_degree_even_ \in [NodeId -> Int] /\ pq \subseteq NodeId
        /\ Seed \in Selected /\ updated_ = {} /\ pq \cap Selected = {}
    BY <1>1, BaseTypes, ForwardTypes DEF Scores, BaseInv, QueueInv
  <1>3. \A n \in pq : weighted_degree_even_'[n] = weighted_degree_even_[n]
    BY <1>1, <1>2 DEF Reset
  <1>4. Overestimates'
    BY <1>1, <1>3 DEF TwoHopInv, Overestimates, Selected
  <1> QED BY <1>1, <1>2, <1>4 DEF TwoHopInv

LEMMA TwoHopStep == BaseInv /\ WeightInv /\ TwoHopInv /\ [Next]_vars => TwoHopInv'
  <1> SUFFICES ASSUME BaseInv, WeightInv, TwoHopInv, [Next]_vars PROVE TwoHopInv'
    OBVIOUS
  <1>1. CASE InitialScores BY <1>1, InitialTwoHop
  <1>2. CASE performWeightedDegreeIteration BY <1>2, IterationTwoHop
  <1>3. CASE BuildQueue BY <1>3, BuildQueueTwoHop
  <1>4. CASE forwardUpdate BY <1>4, ForwardTwoHop
  <1>5. CASE seed_set' # seed_set BY <1>5, PicksTwoHop
  <1>6. CASE seed_set' = seed_set /\ (TakeFirst \/ AddUpToDate)
    <2>1. PICK n \in NodeId : seed_set' = Append(seed_set, n)
      <3>1. updated_ \subseteq NodeId
        BY DEF BaseInv, TypeOK
      <3> QED BY <1>6, <3>1 DEF TakeFirst, AddUpToDate
    <2> QED BY <1>6, <2>1, BaseTypes
  <1>7. CASE seed_set' = seed_set /\ Refresh BY <1>7, RefreshTwoHop
  <1>8. CASE \E i \in DOMAIN task : Read(i) \/ Write(i)
    <2>1. pc' = "tasks" /\ iterations_' = iterations_
      BY <1>8 DEF Read, Write
    <2> QED BY <2>1 DEF TwoHopInv
  <1>9. CASE Join
    <2>1. iterations_' > 2
      BY <1>9 DEF Join, Joined, BaseInv, TasksInv
    <2> QED BY <2>1 DEF TwoHopInv
  <1>10. CASE Return
    <2>1. pc' = "done" /\ iterations_' = iterations_
      BY <1>10 DEF Return
    <2> QED BY <2>1 DEF TwoHopInv
  <1>11. CASE UNCHANGED vars
    BY <1>11 DEF vars, scores, TwoHopInv, Overestimates, Selected
  <1> QED BY <1>1, <1>2, <1>3, <1>4, <1>5, <1>6, <1>7, <1>8, <1>9, <1>10, <1>11 DEF Next

LEMMA InitTwoHop == Init => WeightInv /\ TwoHopInv
  BY DEF Init, WeightInv, TwoHopInv

\* With two iterations the lazy evaluation is sound: no queued node's score is below
\* the one over walks of two hops through unselected nodes, which it is for the nodes
\* that were updated since the last pick.
THEOREM StaleScores == Spec => []StaleScoresAreUpperBounds
  <1>1. BaseInv /\ TwoHopInv => StaleScoresAreUpperBounds
    <2> SUFFICES ASSUME BaseInv, TwoHopInv, iterations_ = 2, pc \in {"first", "loop"}
                 PROVE  StaleScoresAreUpperBounds
      BY DEF StaleScoresAreUpperBounds
    <2>1. pc = "first" => updated_ = {}
      BY DEF BaseInv, QueueInv
    <2> QED BY <2>1, TrueScores DEF TwoHopInv, Overestimates, StaleScoresAreUpperBounds
  <1> QED BY <1>1, InitBase, BaseStep, InitTwoHop, WeightStep, TwoHopStep, PTL DEF Spec

\* The node on top has the largest score.
LEMMA TopIsLargest ==
    ASSUME iterations_ = 2, NEW n, NEW queue, IsTop(n, queue)
    PROVE  /\ weighted_degree = weighted_degree_even_
           /\ \A m \in queue : weighted_degree_even_[m] <= weighted_degree_even_[n]
  BY DEF IsTop, IsLargest, weighted_degree

\* A pick from the queue has the highest true score of all.
LEMMA PickIsHighest ==
    ASSUME BaseInv, WeightInv, TwoHopInv, [Next]_vars, iterations_ = 2, seed_set' # seed_set
    PROVE  \A m \in pq : TwoHopScore(m) <= TwoHopScore(Last(seed_set'))
  <1> DEFINE score(m) == TwoHopOf(graph, Selected, m)
             even == weighted_degree_even_
  <1>1. /\ pq \subseteq NodeId /\ updated_ \subseteq pq
        /\ \A m \in NodeId : score(m) \in Int /\ even[m] \in Int
    BY BaseTypes, SecondFacts DEF BaseInv, TypeOK, Scores
  <1>2. pc \in {"first", "forward", "loop"} => \A m \in pq : score(m) <= even[m]
    BY DEF TwoHopInv, Overestimates
  <1>3. ASSUME NEW n \in pq, Picks(n), \A m \in pq : score(m) <= score(n)
        PROVE  \A m \in pq : TwoHopScore(m) <= TwoHopScore(Last(seed_set'))
    <2>1. Last(seed_set') = n
      BY <1>1, <1>3, PickedEarlier DEF Seed
    <2> QED BY <1>3, <2>1, TrueScores
  <1>4. ASSUME pc = "first", NEW n \in NodeId, IsTop(n, pq), Picks(n)
        PROVE  \A m \in pq : score(m) <= score(n)
    <2>1. n \in pq /\ \A m \in pq : even[m] <= even[n]
      BY <1>4, TopIsLargest, TopIsQueued
    <2>2. even[n] = score(n)
      BY <1>4, <2>1 DEF TwoHopInv
    <2> HIDE DEF score, even
    <2> QED BY <1>1, <1>2, <1>4, <2>1, <2>2
  <1>5. ASSUME pc = "loop", NEW n \in updated_, IsTop(n, pq), Picks(n)
        PROVE  \A m \in pq : score(m) <= score(n)
    <2>1. n \in pq /\ \A m \in pq : even[m] <= even[n]
      BY <1>5, TopIsLargest, TopIsQueued
    <2>2. even[n] = score(n)
      BY <1>5 DEF TwoHopInv
    <2> HIDE DEF score, even
    <2> QED BY <1>1, <1>2, <1>5, <2>1, <2>2
  <1>6. ASSUME pc = "loop", NEW n \in NodeId, IsTop(n, pq), Picks(n),
               StaysOnTop(CurrentScore(n), pq \ {n})
        PROVE  \A m \in pq : score(m) <= score(n)
    <2>1. n \in pq
      BY <1>6, TopIsQueued
    <2>2. CurrentScore(n) = score(n)
      BY <1>6, <2>1, RefreshedIsTrue
    <2>3. CASE pq \ {n} = {}
      <3>1. \A m \in pq : m = n
        BY <2>3
      <3> HIDE DEF score
      <3> QED BY <1>1, <3>1
    <2>4. CASE pq \ {n} # {}
      <3>1. PICK top \in NodeId : /\ IsTop(top, pq \ {n})
                                  /\ score(n) >= weighted_degree[top]
        BY <1>6, <2>2, <2>4 DEF StaysOnTop
      <3>2. score(n) >= even[top] /\ \A m \in pq \ {n} : even[m] <= even[top]
        BY <3>1, TopIsLargest
      <3> HIDE DEF score, even
      <3> QED BY <1>1, <1>2, <1>6, <3>2
    <2> QED BY <2>3, <2>4
  <1>7. PICK n \in NodeId :
           /\ IsTop(n, pq) /\ Picks(n)
           /\ \/ pc = "first"
              \/ pc = "loop" /\ n \in updated_
              \/ pc = "loop" /\ StaysOnTop(CurrentScore(n), pq \ {n})
    BY <1>1, PickingSteps
  <1>8. \A m \in pq : score(m) <= score(n)
    <2> HIDE DEF score
    <2> QED BY <1>4, <1>5, <1>6, <1>7
  <1> QED BY <1>3, <1>7, <1>8, TopIsQueued

\* With two iterations every seed has the highest true score of the queued nodes at
\* the moment it is selected, although most scores in the queue are stale.
THEOREM HighestScore == Spec => SelectsTheHighestScore
  <1>1. BaseInv /\ WeightInv /\ TwoHopInv /\ [Next]_vars =>
           [iterations_ = 2 /\ seed_set' # seed_set =>
               \A n \in pq : TwoHopScore(n) <= TwoHopScore(Last(seed_set'))]_vars
    BY PickIsHighest
  <1> QED BY <1>1, InitBase, BaseStep, InitTwoHop, WeightStep, TwoHopStep, PTL
             DEF Spec, SelectsTheHighestScore

-----------------------------------------------------------------------------
(* The race of forwardUpdate.                                              *)

\* A score is between what is left when every subtraction counts and what it was.
InBounds(x, n) == before[n] - AllShares(n) <= x /\ x <= before[n]

RaceInv == pc = "tasks" =>
    /\ \A n \in NodeId : InBounds(second_last[n], n)
    /\ \A i \in 1..Len(task) : task[i].state = "read" => InBounds(task[i].register, NextTail(i))

\* A read takes nothing off.
LEMMA ReadShares ==
    ASSUME BaseInv, NEW i \in DOMAIN task, Read(i)
    PROVE  \A n : AllShares(n)' = AllShares(n)
  <1>1. /\ UNCHANGED <<graph, seed_set>> /\ Len(task') = Len(task) /\ i \in 1..Len(task)
        /\ \A j \in 1..Len(task) : task'[j].edges = task[j].edges
    BY ReadStep
  <1>2. SeedsInEdges' = SeedsInEdges /\ \A j : TaskEdges(j)' = TaskEdges(j)
    BY <1>1, TaskStays
  <1>3. \A j \in 1..Len(task) : \A n : TaskShare(j, n)' = TaskShare(j, n)
    BY <1>1, <1>2 DEF TaskShare
  <1> QED BY <1>1, <1>3 DEF AllShares

\* The shares add up, now and in the next state.
SharesAddUp ==
    \A n \in NodeId :
       /\ TaskShares(n) \in Seq(Int) /\ Len(TaskShares(n)) = Len(task)
       /\ AllShares(n) = SumOfSeq(TaskShares(n))
       /\ \A i \in 1..Len(task) : /\ Shares(i, n) \in Seq(Int)
                                  /\ Len(Shares(i, n)) = task[i].edges
                                  /\ TaskShare(i, n) = SumOfSeq(Shares(i, n))

LEMMA SharesHold == BaseInv /\ pc = "tasks" => SharesAddUp
  BY ShareFacts, AllSharesFacts DEF SharesAddUp

LEMMA SharesHoldNext == BaseInv' /\ pc' = "tasks" => SharesAddUp'
  <1>1. (BaseInv /\ pc = "tasks" => SharesAddUp)'
    BY SharesHold, PTL
  <1> QED BY <1>1

\* A write takes one share off one node.
LEMMA WriteShares ==
    ASSUME BaseInv, NEW i \in DOMAIN task, Write(i), NEW n \in NodeId
    PROVE  AllShares(n)' = AllShares(n)
              + IF n = NextTail(i)
                THEN Along(TaskEdges(i)[task[i].edges + 1], Hop(SeedsInEdges[i])) ELSE 0
  <1> DEFINE e == TaskEdges(i)[task[i].edges + 1]
             share == IF e.destination = n THEN Along(e, Hop(SeedsInEdges[i])) ELSE 0
             l == task[i].edges
  <1>1. /\ pc = "tasks" /\ i \in 1..Len(task) /\ SharesAddUp /\ SharesAddUp'
        /\ UNCHANGED <<graph, seed_set>> /\ Len(task') = Len(task)
        /\ \A j \in 1..Len(task) : j # i => task'[j] = task[j]
        /\ task'[i].edges = l + 1 /\ l < Len(TaskEdges(i))
    BY WriteStep, WriteBase, SharesHold, SharesHoldNext
  <1>2. SeedsInEdges' = SeedsInEdges /\ \A j : TaskEdges(j)' = TaskEdges(j)
    BY <1>1, TaskStays
  <1>3. l \in Nat /\ e \in Edge
    BY <1>1, TaskFacts
  <1>4. share \in Int
    <2>1. Along(e, Hop(SeedsInEdges[i])) \in Nat
      <3> HIDE DEF e
      <3> QED BY <1>1, <1>3, ShareFacts
    <2> QED BY <2>1
  <1>5. /\ Shares(i, n) \in Seq(Int) /\ Len(Shares(i, n)) = l
        /\ TaskShare(i, n) = SumOfSeq(Shares(i, n))
        /\ Shares(i, n)' \in Seq(Int) /\ Len(Shares(i, n)') = l + 1
        /\ TaskShare(i, n)' = SumOfSeq(Shares(i, n)')
    BY <1>1 DEF SharesAddUp
  <1>6. Extended(Shares(i, n)', Shares(i, n), share)
    <2>1. Shares(i, n)' = [j \in 1..(l + 1) |->
                              IF TaskEdges(i)[j].destination = n
                              THEN Along(TaskEdges(i)[j], Hop(SeedsInEdges[i])) ELSE 0]
      BY <1>1, <1>2 DEF Shares
    <2>2. Shares(i, n) = [j \in 1..l |->
                              IF TaskEdges(i)[j].destination = n
                              THEN Along(TaskEdges(i)[j], Hop(SeedsInEdges[i])) ELSE 0]
      BY DEF Shares
    <2>3. \A j \in 1..l : Shares(i, n)'[j] = Shares(i, n)[j]
      <3> HIDE DEF l
      <3> QED BY <1>3, <2>1, <2>2
    <2>4. Shares(i, n)'[l + 1] = share
      <3> HIDE DEF l
      <3>1. l + 1 \in 1..(l + 1)
        BY <1>3
      <3>2. Shares(i, n)'[l + 1] = IF TaskEdges(i)[l + 1].destination = n
                                   THEN Along(TaskEdges(i)[l + 1], Hop(SeedsInEdges[i])) ELSE 0
        BY <2>1, <3>1
      <3> QED BY <3>2 DEF l
    <2> HIDE DEF l, share
    <2> QED BY <1>5, <2>3, <2>4 DEF Extended
  <1>7. TaskShare(i, n)' = TaskShare(i, n) + share
    <2> HIDE DEF share, l
    <2> QED BY <1>4, <1>5, <1>6, SumExtends
  <1>8. \A j \in 1..Len(task) : j # i => TaskShare(j, n)' = TaskShare(j, n)
    BY <1>1, <1>2 DEF TaskShare
  <1>9. /\ TaskShares(n) \in Seq(Int) /\ Len(TaskShares(n)) = Len(task)
        /\ AllShares(n) = SumOfSeq(TaskShares(n))
        /\ TaskShares(n)' \in Seq(Int) /\ Len(TaskShares(n)') = Len(task)
        /\ AllShares(n)' = SumOfSeq(TaskShares(n)')
    BY <1>1 DEF SharesAddUp
  <1>10. \A j \in 1..Len(task) : /\ TaskShares(n)[j] = TaskShare(j, n)
                                 /\ TaskShares(n)'[j] = TaskShare(j, n)'
    BY <1>1 DEF TaskShares
  <1> HIDE DEF share
  <1>11. Grown(TaskShares(n)', TaskShares(n), i, share)
    BY <1>7, <1>8, <1>9, <1>10 DEF Grown
  <1>12. AllShares(n)' = AllShares(n) + share
    BY <1>1, <1>4, <1>9, <1>11, SumGrows
  <1> QED BY <1>12 DEF share, e, NextTail

LEMMA ForwardRace == BaseInv /\ forwardUpdate => RaceInv'
  <1> SUFFICES ASSUME BaseInv, forwardUpdate, pc' = "tasks" PROVE RaceInv'
    BY DEF RaceInv
  <1>1. BaseInv' /\ SharesAddUp'
    BY ForwardBase, SharesHoldNext
  <1>2. /\ iterations_ > 2 /\ iterations_' = iterations_ /\ iterations_ \in Nat
        /\ Len(task') \in Nat /\ \A i \in 1..Len(task') : task'[i] = Ready(0)
    BY ForwardTasks, BaseTypes DEF forwardUpdate
  <1>3. second_last' = before' /\ before' \in [NodeId -> Int]
    <2> DEFINE hop == FirstHop(Reset(weighted_degree_0_),
                               IF iterations_ % 2 = 0 THEN Reset(weighted_degree_odd_)
                               ELSE Reset(weighted_degree_even_))
    <2>1. /\ before' = hop.second
          /\ iterations_ % 2 = 0 => weighted_degree_odd_' = hop.second
          /\ iterations_ % 2 = 1 => weighted_degree_even_' = hop.second
      BY <1>2 DEF forwardUpdate
    <2>2. iterations_ % 2 \in {0, 1}
      BY <1>2
    <2>3. before' \in [NodeId -> Int]
      BY <1>1 DEF BaseInv, TypeOK
    <2> HIDE DEF hop
    <2> QED BY <1>2, <2>1, <2>2, <2>3 DEF second_last
  <1>4. ASSUME NEW n \in NodeId PROVE AllShares(n)' = 0
    <2>1. /\ TaskShares(n)' \in Seq(Int) /\ Len(TaskShares(n)') = Len(task')
          /\ AllShares(n)' = SumOfSeq(TaskShares(n)')
      BY <1>1 DEF SharesAddUp
    <2>2. ASSUME NEW i \in 1..Len(task') PROVE TaskShares(n)'[i] = 0
      <3>1. TaskShares(n)'[i] = TaskShare(i, n)'
        BY <1>2, <2>2 DEF TaskShares
      <3>2. /\ Shares(i, n)' \in Seq(Int) /\ Len(Shares(i, n)') = 0
            /\ TaskShare(i, n)' = SumOfSeq(Shares(i, n)')
        BY <1>1, <1>2 DEF SharesAddUp, Ready
      <3> DEFINE none == Shares(i, n)'
      <3>3. none \in Seq(Int) /\ \A j \in 1..Len(none) : none[j] = 0
        BY <3>2
      <3>4. TaskShare(i, n)' = SumOfSeq(none)
        BY <3>2
      <3> HIDE DEF none
      <3> QED BY <3>1, <3>3, <3>4, SumOfZeros
    <2> QED BY <2>1, <2>2, SumOfZeros
  <1>5. ASSUME NEW n \in NodeId PROVE InBounds(second_last[n], n)'
    BY <1>3, <1>4 DEF InBounds
  <1>6. ASSUME NEW i \in 1..Len(task') PROVE task'[i].state # "read"
    BY <1>2 DEF Ready
  <1> QED BY <1>5, <1>6 DEF RaceInv

LEMMA ReadRace == ASSUME BaseInv, RaceInv, NEW i \in DOMAIN task, Read(i) PROVE RaceInv'
  <1>1. /\ pc = "tasks" /\ i \in 1..Len(task) /\ Len(task') = Len(task)
        /\ UNCHANGED <<graph, iterations_, scores, seed_set, before>>
        /\ \A j \in 1..Len(task) : j # i => task'[j] = task[j]
        /\ task'[i].edges = task[i].edges
        /\ task'[i].state = "read" => /\ task[i].edges < Len(TaskEdges(i))
                                      /\ task'[i].register = second_last[NextTail(i)]
    BY ReadStep
  <1>2. second_last' = second_last
    BY <1>1 DEF second_last, scores
  <1>3. \A j \in 1..Len(task) : NextTail(j)' = NextTail(j)
    BY <1>1, TaskStays DEF NextTail
  <1>4. \A x, n : InBounds(x, n) => before'[n] - AllShares(n)' <= x /\ x <= before'[n]
    BY <1>1, ReadShares DEF InBounds
  <1>5. ASSUME NEW n \in NodeId PROVE InBounds(second_last[n], n)'
    BY <1>1, <1>2, <1>4 DEF InBounds, RaceInv
  <1>6. ASSUME NEW j \in 1..Len(task'), task'[j].state = "read"
        PROVE  InBounds(task[j].register, NextTail(j))'
    <2>1. InBounds(task'[j].register, NextTail(j))
      <3>1. CASE j = i
        <4>1. NextTail(i) \in NodeId
          BY <1>1, <1>6, <3>1, TaskFacts
        <4> QED BY <1>1, <1>6, <3>1, <4>1 DEF RaceInv
      <3>2. CASE j # i
        BY <1>1, <1>6, <3>2 DEF RaceInv
      <3> QED BY <3>1, <3>2
    <2> QED BY <1>1, <1>3, <1>4, <2>1 DEF InBounds
  <1> QED BY <1>5, <1>6 DEF RaceInv

LEMMA WriteRace == ASSUME BaseInv, RaceInv, NEW i \in DOMAIN task, Write(i) PROVE RaceInv'
  <1> DEFINE tail == NextTail(i)
             share == Along(TaskEdges(i)[task[i].edges + 1], Hop(SeedsInEdges[i]))
  <1>1. /\ pc = "tasks" /\ pc' = "tasks" /\ i \in 1..Len(task)
        /\ UNCHANGED <<graph, seed_set, before>>
        /\ task[i].edges < Len(TaskEdges(i)) /\ task[i].state = "read"
        /\ task[i].register \in Int
        /\ second_last' = [second_last EXCEPT ![tail] = task[i].register - share]
        /\ Len(task') = Len(task)
        /\ \A j \in 1..Len(task) : j # i => task'[j] = task[j]
        /\ task'[i].state = "ready"
    BY WriteStep
  <1>2. tail \in NodeId /\ share \in Nat
    <2>1. TaskEdges(i)[task[i].edges + 1] \in Edge /\ tail \in NodeId
      BY <1>1, TaskFacts
    <2>2. \A e \in Edge : Along(e, Hop(SeedsInEdges[i])) \in Nat
      BY <1>1, <2>1, ShareFacts
    <2> QED BY <2>1, <2>2
  <1>3. \A n \in NodeId : AllShares(n)' = AllShares(n) + IF n = tail THEN share ELSE 0
    BY WriteShares
  <1>4. \A n \in NodeId : AllShares(n) \in Nat /\ before[n] \in Int /\ second_last[n] \in Int
    BY <1>1, AllSharesFacts, BaseTypes DEF Scores
  <1> HIDE DEF tail, share
  <1>5. ASSUME NEW n \in NodeId, NEW x \in Int, InBounds(x, n)
        PROVE  before'[n] - AllShares(n)' <= x /\ x <= before'[n]
    <2> DEFINE d == IF n = tail THEN share ELSE 0
    <2>1. d \in Nat /\ AllShares(n)' = AllShares(n) + d
      BY <1>2, <1>3
    <2> HIDE DEF d
    <2> QED BY <1>1, <1>4, <1>5, <2>1 DEF InBounds
  <1>6. ASSUME NEW n \in NodeId PROVE InBounds(second_last[n], n)'
    <2>1. CASE n = tail
      <3> DEFINE r == task[i].register
      <3>1. InBounds(r, n)
        BY <1>1, <2>1 DEF RaceInv, tail
      <3>2. AllShares(n)' = AllShares(n) + share
        BY <1>3, <2>1
      <3>3. second_last'[n] = r - share
        BY <1>1, <2>1, BaseTypes DEF Scores
      <3>4. r \in Int
        BY <1>1
      <3> HIDE DEF r
      <3>5. before[n] - (AllShares(n) + share) <= r - share /\ r - share <= before[n]
        BY <1>2, <1>4, <3>1, <3>4 DEF InBounds
      <3> QED BY <1>1, <3>2, <3>3, <3>5 DEF InBounds
    <2>2. CASE n # tail
      <3>1. second_last'[n] = second_last[n]
        BY <1>1, <2>2, BaseTypes DEF Scores
      <3>2. InBounds(second_last[n], n)
        BY <1>1 DEF RaceInv
      <3> QED BY <1>4, <1>5, <3>1, <3>2 DEF InBounds
    <2> QED BY <2>1, <2>2
  <1>7. ASSUME NEW j \in 1..Len(task'), task'[j].state = "read"
        PROVE  InBounds(task[j].register, NextTail(j))'
    <2>1. j # i /\ j \in 1..Len(task) /\ task'[j] = task[j]
      BY <1>1, <1>7
    <2>2. InBounds(task[j].register, NextTail(j))
      BY <1>1, <1>7, <2>1 DEF RaceInv
    <2>3. task[j].register \in Int /\ NextTail(j) \in NodeId
      <3>1. task[j].edges < Len(TaskEdges(j))
        BY <1>1, <1>7, <2>1 DEF BaseInv, TasksInv
      <3> QED BY <1>1, <2>1, <3>1, TaskFacts DEF TaskState
    <2>4. NextTail(j)' = NextTail(j)
      BY <1>1, <2>1, TaskStays DEF NextTail
    <2> QED BY <1>5, <2>1, <2>2, <2>3, <2>4 DEF InBounds
  <1> QED BY <1>6, <1>7 DEF RaceInv

LEMMA RaceStep == BaseInv /\ RaceInv /\ [Next]_vars => RaceInv'
  <1> SUFFICES ASSUME BaseInv, RaceInv, [Next]_vars PROVE RaceInv'
    OBVIOUS
  <1>1. CASE forwardUpdate
    BY <1>1, ForwardRace
  <1>2. ASSUME NEW i \in DOMAIN task, Read(i) \/ Write(i) PROVE RaceInv'
    BY <1>2, ReadRace, WriteRace
  <1>3. CASE \/ InitialScores \/ performWeightedDegreeIteration \/ BuildQueue
             \/ TakeFirst \/ AddUpToDate \/ Refresh \/ Join \/ Return
    <2>1. pc' # "tasks"
      BY <1>3 DEF InitialScores, performWeightedDegreeIteration, BuildQueue, TakeFirst,
                  AddUpToDate, Refresh, Looping, Join, Return
    <2> QED BY <2>1 DEF RaceInv
  <1>4. CASE UNCHANGED vars
    <2>1. UNCHANGED <<graph, seed_set, before, task, pc>>
      BY <1>4 DEF vars
    <2>2. second_last' = second_last
      BY <1>4 DEF vars, scores, second_last
    <2>3. SeedsInEdges' = SeedsInEdges /\ \A i : TaskEdges(i)' = TaskEdges(i)
      BY <2>1, TaskStays
    <2>4. \A i : NextTail(i)' = NextTail(i)
      BY <2>1, <2>3 DEF NextTail
    <2>5. \A n : AllShares(n)' = AllShares(n)
      BY <2>1, <2>3 DEF AllShares, TaskShare
    <2> QED BY <2>1, <2>2, <2>4, <2>5 DEF RaceInv, InBounds
  <1> QED BY <1>1, <1>2, <1>3, <1>4 DEF Next

\* However the tasks of the parallel loop interleave their reads and writes, a score
\* ends between what it was and what is left when every subtraction counts: a lost
\* update overestimates a score, and none is underestimated.
THEOREM RaceOverestimates == Spec => []RacesOverestimate
  <1>1. Init => RaceInv
    BY DEF Init, RaceInv
  <1>2. BaseInv /\ RaceInv => RacesOverestimate
    <2> SUFFICES ASSUME BaseInv, RaceInv, Joined, NEW n \in NodeId
                 PROVE  second_last[n] \in (before[n] - AllShares(n))..before[n]
      BY DEF RacesOverestimate
    <2>1. InBounds(second_last[n], n) /\ pc = "tasks"
      BY DEF Joined, RaceInv
    <2>2. AllShares(n) \in Nat /\ before[n] \in Int /\ second_last[n] \in Int
      BY <2>1, AllSharesFacts, BaseTypes DEF Scores
    <2> QED BY <2>1, <2>2 DEF InBounds
  <1> QED BY <1>1, <1>2, InitBase, BaseStep, RaceStep, PTL DEF Spec

=============================================================================
