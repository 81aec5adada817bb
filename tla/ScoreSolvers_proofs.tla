------------------------ MODULE ScoreSolvers_proofs -----------------------
(*************************************************************************)
(* The solvers that score the nodes.  First those of ScoreSolvers:       *)
(* HighDegree, WeightedDegree, EaSyIM-Delta, EaSyIM, PageRank,           *)
(* WeightedPageRank and Random, on all graphs and numbers of seeds and   *)
(* iterations.  A run is the run of one solver, so that the inductive    *)
(* invariant is a disjunction of one invariant per solver (SolverInv).   *)
(* Each says which of the tasks' vectors holds the scores of which       *)
(* iteration, for the nodes whose task is done; while ranks are          *)
(* iterated, a sum lies between the ones that the least and the greatest *)
(* of the ranks it may have read would give, and that interval shrinks   *)
(* with the tolerance of the loop (RanksTasks, RanksSettled).            *)
(*************************************************************************)
EXTENDS ScoreSolvers, DegreeDiscount, SequenceFacts

-----------------------------------------------------------------------------
(* The weight of the walks of one to four hops.                            *)

\* What the edges of a node bring in, when those into S bring nothing, if a score of x[n]
\* is passed on from n.
Carried(g, S, x, n) ==
    SumOfSeq([i \in 1..Len(g.forward[n]) |->
                 IF g.forward[n][i].destination \in S THEN 0
                 ELSE Along(g.forward[n][i], x[g.forward[n][i].destination])])

\* The weight of the edges of a node, the walks of one hop.
OneHop(g, n) == SumOfSeq([i \in 1..Len(g.forward[n]) |-> Hop(g.forward[n][i])])

\* The equation of WalkWeightAvoiding.
FollowsWalks(W, g, S) ==
    W = [l \in 1..4 |-> [n \in NodeId |->
            SumOfSeq([i \in 1..Len(g.forward[n]) |->
               IF l = 1 THEN Hop(g.forward[n][i])
               ELSE IF g.forward[n][i].destination \in S THEN 0
               ELSE Along(g.forward[n][i], W[l - 1][g.forward[n][i].destination])])]]

\* The same, hop by hop.
GrowsByHops(W, g, S) ==
    /\ W[1] = [n \in NodeId |-> OneHop(g, n)]
    /\ \A l \in 1..3 : W[l + 1] = [n \in NodeId |-> Carried(g, S, W[l], n)]

\* The function that the model defines by its equation is one chosen to follow it.
LEMMA WalksChosen ==
    ASSUME NEW g, NEW S
    PROVE  WalkWeightAvoiding(g, S) = CHOOSE W : FollowsWalks(W, g, S)
  BY DEF WalkWeightAvoiding, SumOver, FollowsWalks

\* The equation and its hop by hop form say the same.
LEMMA WalksAreHops ==
    ASSUME NEW g, NEW S, NEW W, DOMAIN W = 1..4, W = [l \in 1..4 |-> W[l]]
    PROVE  FollowsWalks(W, g, S) <=> GrowsByHops(W, g, S)
  <1> DEFINE Row(l) == [n \in NodeId |->
            SumOfSeq([i \in 1..Len(g.forward[n]) |->
               IF l = 1 THEN Hop(g.forward[n][i])
               ELSE IF g.forward[n][i].destination \in S THEN 0
               ELSE Along(g.forward[n][i], W[l - 1][g.forward[n][i].destination])])]
  <1>1. FollowsWalks(W, g, S) <=> W = [l \in 1..4 |-> Row(l)]
    BY DEF FollowsWalks
  <1>2. Row(1) = [n \in NodeId |-> OneHop(g, n)]
    BY DEF OneHop
  <1>3. ASSUME NEW l \in 1..3 PROVE Row(l + 1) = [n \in NodeId |-> Carried(g, S, W[l], n)]
    <2>1. l + 1 # 1 /\ (l + 1) - 1 = l
      OBVIOUS
    <2> DEFINE m == l + 1
    <2> HIDE DEF m
    <2>2. ASSUME m # 1, m - 1 = l PROVE Row(m) = [n \in NodeId |-> Carried(g, S, W[l], n)]
      BY <2>2 DEF Carried
    <2> QED BY <2>1, <2>2 DEF m
  <1> HIDE DEF Row
  <1>4. W = [l \in 1..4 |-> Row(l)] <=> W[1] = Row(1) /\ \A l \in 1..3 : W[l + 1] = Row(l + 1)
    OBVIOUS
  <1> QED BY <1>1, <1>2, <1>3, <1>4 DEF GrowsByHops

\* There is such a function: its four rows can be written down.
LEMMA WalksExist ==
    ASSUME NEW g, NEW S
    PROVE  \E W : FollowsWalks(W, g, S)
  <1> DEFINE w1 == [n \in NodeId |-> OneHop(g, n)]
             w2 == [n \in NodeId |-> Carried(g, S, w1, n)]
             w3 == [n \in NodeId |-> Carried(g, S, w2, n)]
             w4 == [n \in NodeId |-> Carried(g, S, w3, n)]
             W == [l \in 1..4 |-> IF l = 1 THEN w1 ELSE IF l = 2 THEN w2
                                  ELSE IF l = 3 THEN w3 ELSE w4]
  <1> HIDE DEF w1, w2, w3, w4
  <1>1. W[1] = w1 /\ W[2] = w2 /\ W[3] = w3 /\ W[4] = w4
    OBVIOUS
  <1>2. W = [l \in 1..4 |-> W[l]] /\ DOMAIN W = 1..4
    OBVIOUS
  <1> HIDE DEF W
  <1>3. \A l \in 1..3 : W[l + 1] = [n \in NodeId |-> Carried(g, S, W[l], n)]
    <2>1. W[2] = [n \in NodeId |-> Carried(g, S, W[1], n)]
      BY <1>1 DEF w2
    <2>2. W[3] = [n \in NodeId |-> Carried(g, S, W[2], n)]
      BY <1>1 DEF w3
    <2>3. W[4] = [n \in NodeId |-> Carried(g, S, W[3], n)]
      BY <1>1 DEF w4
    <2> QED BY <2>1, <2>2, <2>3
  <1>4. GrowsByHops(W, g, S)
    BY <1>1, <1>3 DEF GrowsByHops, w1
  <1> QED BY <1>2, <1>4, WalksAreHops

\* So the weights of the walks grow hop by hop.
LEMMA WalkWeights ==
    ASSUME NEW g, NEW S
    PROVE  GrowsByHops(WalkWeightAvoiding(g, S), g, S)
  <1> DEFINE W == WalkWeightAvoiding(g, S)
  <1>1. FollowsWalks(W, g, S)
    BY WalksChosen, WalksExist
  <1>2. W = [l \in 1..4 |-> W[l]] /\ DOMAIN W = 1..4
    BY <1>1 DEF FollowsWalks
  <1> HIDE DEF W
  <1>3. GrowsByHops(W, g, S)
    BY <1>1, <1>2, WalksAreHops
  <1> QED BY <1>3 DEF W

-----------------------------------------------------------------------------
(* Scores that can be passed on without a remainder.                       *)

\* The multiples of m, the numbers that can be divided by m without a remainder.
Multiples(m) == {m * x : x \in Nat}

\* Arithmetic on products, a fact at a time.
LEMMA ExactQuotient == \A d \in Nat \ {0} : \A a \in Int : (d * a) \div d = a
  OBVIOUS

LEMMA ProductsCommute == \A a, b, c \in Int : a * (b * c) = b * (a * c) /\ (a * b) * c = a * (b * c)
  OBVIOUS

LEMMA ProductsAdd == \A a, b, c \in Int : a * b + a * c = a * (b + c)
  OBVIOUS

LEMMA NaturalProducts == \A a, b \in Nat : a * b \in Nat /\ a + b \in Nat
  OBVIOUS

LEMMA PositiveProducts == \A a, b \in Nat \ {0} : a * b \in Nat \ {0}
  OBVIOUS

\* Sums of multiples are multiples.
LEMMA MultiplesAdd ==
    ASSUME NEW m \in Nat
    PROVE  /\ Multiples(m) \subseteq Nat
           /\ 0 \in Multiples(m)
           /\ \A x, y \in Multiples(m) : x + y \in Multiples(m)
  <1>1. Multiples(m) \subseteq Nat
    BY NaturalProducts DEF Multiples
  <1>2. 0 \in Multiples(m)
    BY m * 0 = 0 DEF Multiples
  <1>3. ASSUME NEW x \in Multiples(m), NEW y \in Multiples(m) PROVE x + y \in Multiples(m)
    <2>1. PICK a \in Nat : x = m * a
      BY DEF Multiples
    <2>2. PICK b \in Nat : y = m * b
      BY DEF Multiples
    <2>3. x + y = m * (a + b) /\ a + b \in Nat
      BY <2>1, <2>2, ProductsAdd
    <2> QED BY <2>3 DEF Multiples
  <1> QED BY <1>1, <1>2, <1>3

LEMMA SumOfMultiples ==
    ASSUME NEW m \in Nat, NEW s \in Seq(Int), \A i \in 1..Len(s) : s[i] \in Multiples(m)
    PROVE  SumOfSeq(s) \in Multiples(m)
  <1>1. PICK f \in [Nat -> Int] : /\ f[0] = 0 /\ f[Len(s)] = SumOfSeq(s)
                                  /\ \A i \in 1..Len(s) : f[i] = f[i - 1] + s[i]
    BY SumAddsUp DEF AddsUp
  <1> DEFINE Sums == {i \in Nat : i <= Len(s) => f[i] \in Multiples(m)}
  <1>2. Len(s) \in Nat
    OBVIOUS
  <1>3. 0 \in Sums
    BY <1>1, MultiplesAdd
  <1>4. ASSUME NEW i \in Nat \cap Sums PROVE i + 1 \in Sums
    <2>1. ASSUME i + 1 <= Len(s) PROVE f[i + 1] \in Multiples(m)
      <3>1. i + 1 \in 1..Len(s) /\ (i + 1) - 1 = i /\ f[i] \in Multiples(m)
        BY <1>2, <1>4, <2>1
      <3>2. f[i + 1] = f[i] + s[i + 1] /\ s[i + 1] \in Multiples(m)
        BY <1>1, <3>1
      <3> QED BY <3>1, <3>2, MultiplesAdd
    <2> QED BY <2>1
  <1>5. Nat \subseteq Sums
    <2> HIDE DEF Sums
    <2> QED BY <1>3, <1>4, Induction
  <1> QED BY <1>1, <1>2, <1>5

\* The edges of a node of a graph.
LEMMA Spans ==
    ASSUME NEW g \in Graph, NEW n \in NodeId
    PROVE  /\ g.forward[n] \in Seq(Edge) /\ g.backward[n] \in Seq(Edge)
           /\ Len(g.forward[n]) \in Nat /\ Len(g.backward[n]) \in Nat
           /\ \A i \in 1..Len(g.forward[n]) : g.forward[n][i] \in Edge
           /\ \A i \in 1..Len(g.backward[n]) : g.backward[n][i] \in Edge
  <1>1. g.forward[n] \in Seq(Edge) /\ g.backward[n] \in Seq(Edge)
    BY DEF Graph, Adjacency
  <1> HIDE DEF Edge
  <1> QED BY <1>1, Elements

LEMMA EdgeType ==
    ASSUME NEW e \in Edge
    PROVE  e.weight \in Nat /\ e.destination \in NodeId /\ One \in Nat \ {0}
  BY GraphAssumption DEF Edge, Weight

\* The weight of an edge, and what goes over it, is a whole number of units.
LEMMA HopIsMultiple ==
    ASSUME NEW e \in Edge
    PROVE  Hop(e) \in Multiples(One * (One * One))
  <1>1. e.weight \in Nat /\ One \in Nat
    BY EdgeType
  <1>2. e.weight * One * One * One = (One * (One * One)) * e.weight
    <2>1. \A w, o \in Nat : w * o * o * o = (o * (o * o)) * w
      OBVIOUS
    <2> QED BY <1>1, <2>1
  <1> QED BY <1>1, <1>2 DEF Hop, Multiples

\* Passing on divides by One.
LEMMA AlongMultiples ==
    ASSUME NEW e \in Edge, NEW m \in Nat, NEW x \in Multiples(One * m)
    PROVE  Along(e, x) \in Multiples(m)
  <1>1. e.weight \in Nat /\ One \in Nat \ {0}
    BY EdgeType
  <1>2. PICK a \in Nat : x = (One * m) * a
    BY DEF Multiples
  <1>3. e.weight * x = One * (m * (e.weight * a))
    BY <1>1, <1>2, ProductsCommute, NaturalProducts
  <1>4. e.weight * a \in Nat /\ m * (e.weight * a) \in Nat
    BY <1>1, NaturalProducts
  <1>5. Along(e, x) = m * (e.weight * a)
    BY <1>1, <1>3, <1>4, ExactQuotient DEF Along
  <1> QED BY <1>4, <1>5 DEF Multiples

\* What goes over an edge is additive, nothing being lost to rounding.
LEMMA AlongAdds ==
    ASSUME NEW e \in Edge, NEW x \in Multiples(One), NEW y \in Multiples(One)
    PROVE  Along(e, x + y) = Along(e, x) + Along(e, y)
  <1>1. e.weight \in Nat /\ One \in Nat \ {0}
    BY EdgeType
  <1>2. PICK a \in Nat : x = One * a
    BY DEF Multiples
  <1>3. PICK b \in Nat : y = One * b
    BY DEF Multiples
  <1>4. ASSUME NEW c \in Nat PROVE (e.weight * (One * c)) \div One = e.weight * c
    <2>1. e.weight * (One * c) = One * (e.weight * c) /\ e.weight * c \in Int
      BY <1>1, ProductsCommute, NaturalProducts
    <2> QED BY <1>1, <2>1, ExactQuotient
  <1>5. x + y = One * (a + b) /\ a + b \in Nat
    BY <1>1, <1>2, <1>3, ProductsAdd
  <1>6. Along(e, x + y) = e.weight * (a + b)
    BY <1>4, <1>5 DEF Along
  <1>7. Along(e, x) = e.weight * a /\ Along(e, y) = e.weight * b
    BY <1>2, <1>3, <1>4 DEF Along
  <1>8. e.weight * a + e.weight * b = e.weight * (a + b)
    BY <1>1, ProductsAdd
  <1> QED BY <1>6, <1>7, <1>8

-----------------------------------------------------------------------------
(* What is passed on.                                                      *)

\* What each edge of n brings in, when the ones into S bring nothing.
PassedOn(g, S, x, n) ==
    [i \in 1..Len(g.forward[n]) |->
        IF g.forward[n][i].destination \in S THEN 0
        ELSE Along(g.forward[n][i], x[g.forward[n][i].destination])]

LEMMA PassedOnType ==
    ASSUME NEW g \in Graph, NEW S, NEW n \in NodeId, NEW m \in Nat, NEW x,
           \A u \in NodeId \ S : x[u] \in Multiples(One * m)
    PROVE  /\ PassedOn(g, S, x, n) \in Seq(Int)
           /\ Len(PassedOn(g, S, x, n)) = Len(g.forward[n])
           /\ \A i \in 1..Len(g.forward[n]) : PassedOn(g, S, x, n)[i] \in Multiples(m)
           /\ Carried(g, S, x, n) \in Multiples(m)
  <1> DEFINE l == Len(g.forward[n])
             w(i) == IF g.forward[n][i].destination \in S THEN 0
                     ELSE Along(g.forward[n][i], x[g.forward[n][i].destination])
  <1>1. l \in Nat /\ \A i \in 1..l : w(i) \in Multiples(m)
    <2>1. l \in Nat /\ \A i \in 1..l : g.forward[n][i] \in Edge
      BY Spans
    <2>2. ASSUME NEW i \in 1..l PROVE w(i) \in Multiples(m)
      <3>1. g.forward[n][i] \in Edge /\ g.forward[n][i].destination \in NodeId
        BY <2>1, EdgeType
      <3>2. CASE g.forward[n][i].destination \in S
        BY <3>2, MultiplesAdd
      <3>3. CASE g.forward[n][i].destination \notin S
        BY <3>1, <3>3, AlongMultiples
      <3> QED BY <3>2, <3>3
    <2> QED BY <2>1, <2>2
  <1>2. PassedOn(g, S, x, n) = [i \in 1..l |-> w(i)]
    BY DEF PassedOn
  <1>3. Carried(g, S, x, n) = SumOfSeq(PassedOn(g, S, x, n))
    BY DEF Carried, PassedOn
  <1> HIDE DEF l, w
  <1>4. \A i \in 1..l : w(i) \in Int
    BY <1>1, MultiplesAdd
  <1>5. /\ PassedOn(g, S, x, n) \in Seq(Int) /\ Len(PassedOn(g, S, x, n)) = l
        /\ \A i \in 1..l : PassedOn(g, S, x, n)[i] = w(i)
    BY <1>1, <1>2, <1>4
  <1>6. SumOfSeq(PassedOn(g, S, x, n)) \in Multiples(m)
    BY <1>1, <1>5, SumOfMultiples
  <1> QED BY <1>1, <1>3, <1>5, <1>6 DEF l

\* Passing on a sum of two scores is passing on each of them.
LEMMA CarriedAdds ==
    ASSUME NEW g \in Graph, NEW S, NEW n \in NodeId, NEW x, NEW y, NEW z,
           \A u \in NodeId : x[u] \in Multiples(One) /\ y[u] \in Multiples(One)
                             /\ z[u] = x[u] + y[u]
    PROVE  Carried(g, S, z, n) = Carried(g, S, x, n) + Carried(g, S, y, n)
  <1> DEFINE P(f) == PassedOn(g, S, f, n)
             l == Len(g.forward[n])
  <1>1. One * 1 = One /\ 1 \in Nat /\ Multiples(One) \subseteq Nat
    BY GraphAssumption, MultiplesAdd
  <1>2. \A u \in NodeId : z[u] \in Multiples(One)
    BY <1>1, GraphAssumption, MultiplesAdd
  <1>3. ASSUME NEW f, \A u \in NodeId : f[u] \in Multiples(One)
        PROVE  P(f) \in Seq(Int) /\ Len(P(f)) = l /\ Carried(g, S, f, n) = SumOfSeq(P(f))
    <2>1. P(f) \in Seq(Int) /\ Len(P(f)) = l
      BY <1>1, <1>3, PassedOnType
    <2> QED BY <2>1 DEF Carried, PassedOn
  <1>4. ASSUME NEW i \in 1..l PROVE P(z)[i] = P(x)[i] + P(y)[i]
    <2>1. g.forward[n][i] \in Edge /\ g.forward[n][i].destination \in NodeId
      BY Spans, EdgeType
    <2> DEFINE e == g.forward[n][i]
    <2>2. \A f : P(f)[i] = IF e.destination \in S THEN 0 ELSE Along(e, f[e.destination])
      BY DEF PassedOn
    <2> HIDE DEF e, P
    <2>3. CASE e.destination \in S
      BY <2>2, <2>3
    <2>4. CASE e.destination \notin S
      <3>1. Along(e, z[e.destination]) = Along(e, x[e.destination]) + Along(e, y[e.destination])
        BY <2>1, AlongAdds DEF e
      <3> QED BY <2>2, <2>4, <3>1
    <2> QED BY <2>3, <2>4
  <1> HIDE DEF P, l
  <1>5. /\ P(x) \in Seq(Int) /\ P(y) \in Seq(Int) /\ P(z) \in Seq(Int)
        /\ Together(P(z), P(x), P(y))
    BY <1>2, <1>3, <1>4 DEF Together
  <1>6. SumOfSeq(P(z)) = SumOfSeq(P(x)) + SumOfSeq(P(y))
    BY <1>5, SumOfBoth
  <1> QED BY <1>2, <1>3, <1>6

\* Only the scores outside of S count.
LEMMA CarriedAgrees ==
    ASSUME NEW g \in Graph, NEW S, NEW n \in NodeId, NEW x, NEW y,
           \A u \in NodeId \ S : x[u] = y[u]
    PROVE  Carried(g, S, x, n) = Carried(g, S, y, n)
  <1>1. ASSUME NEW i \in 1..Len(g.forward[n])
        PROVE  (IF g.forward[n][i].destination \in S THEN 0
                ELSE Along(g.forward[n][i], x[g.forward[n][i].destination]))
               = (IF g.forward[n][i].destination \in S THEN 0
                  ELSE Along(g.forward[n][i], y[g.forward[n][i].destination]))
    <2>1. g.forward[n][i].destination \in NodeId
      BY Spans, EdgeType
    <2> QED BY <2>1
  <1>2. PassedOn(g, S, x, n) = PassedOn(g, S, y, n)
    BY <1>1 DEF PassedOn
  <1> QED BY <1>2 DEF Carried, PassedOn

\* Walks of l hops lack 4 - l factors.
LEMMA WalkMultiples ==
    ASSUME NEW g \in Graph, NEW S
    PROVE  LET W == WalkWeightAvoiding(g, S)
           IN  /\ \A l \in 1..3 : \A n \in NodeId : W[l][n] \in Multiples(One)
               /\ \A n \in NodeId : W[4][n] \in Nat
               /\ \A n \in NodeId : W[1][n] = OneHop(g, n)
               /\ \A l \in 1..3 : \A n \in NodeId : W[l + 1][n] = Carried(g, S, W[l], n)
  <1> DEFINE W == WalkWeightAvoiding(g, S)
  <1>1. GrowsByHops(W, g, S)
    BY WalkWeights
  <1> HIDE DEF W
  <1>2. /\ \A n \in NodeId : W[1][n] = OneHop(g, n)
        /\ \A l \in 1..3 : \A n \in NodeId : W[l + 1][n] = Carried(g, S, W[l], n)
    BY <1>1 DEF GrowsByHops
  <1>3. One \in Nat /\ One * One \in Nat /\ One * (One * One) \in Nat /\ One * 1 = One
    BY GraphAssumption, NaturalProducts
  <1>4. ASSUME NEW n \in NodeId PROVE W[1][n] \in Multiples(One * (One * One))
    <2> DEFINE l == Len(g.forward[n])
               w(i) == Hop(g.forward[n][i])
               s == [i \in 1..l |-> w(i)]
    <2>1. l \in Nat /\ \A i \in 1..l : w(i) \in Multiples(One * (One * One))
      BY Spans, HopIsMultiple
    <2>2. OneHop(g, n) = SumOfSeq(s)
      BY DEF OneHop
    <2> HIDE DEF l, w
    <2>3. \A i \in 1..l : w(i) \in Int
      BY <1>3, <2>1, MultiplesAdd
    <2>4. s \in Seq(Int) /\ Len(s) = l /\ \A i \in 1..l : s[i] = w(i)
      BY <2>1, <2>3
    <2> HIDE DEF s
    <2>5. SumOfSeq(s) \in Multiples(One * (One * One))
      BY <1>3, <2>1, <2>4, SumOfMultiples
    <2> QED BY <1>2, <2>2, <2>5
  <1>5. ASSUME NEW n \in NodeId PROVE W[2][n] \in Multiples(One * One)
    <2>1. W[2][n] = Carried(g, S, W[1], n)
      BY <1>2, 1 \in 1..3, 1 + 1 = 2
    <2> QED BY <1>3, <1>4, <2>1, PassedOnType
  <1>6. ASSUME NEW n \in NodeId PROVE W[3][n] \in Multiples(One)
    <2>1. W[3][n] = Carried(g, S, W[2], n)
      BY <1>2, 2 \in 1..3, 2 + 1 = 3
    <2> QED BY <1>3, <1>5, <2>1, PassedOnType
  <1>7. ASSUME NEW n \in NodeId PROVE W[4][n] \in Nat
    <2>1. W[4][n] = Carried(g, S, W[3], n)
      BY <1>2, 3 \in 1..3, 3 + 1 = 4
    <2>2. W[4][n] \in Multiples(1)
      BY <1>3, <1>6, <2>1, PassedOnType
    <2> QED BY <2>2, MultiplesAdd
  <1>8. ASSUME NEW m \in Nat PROVE Multiples(One * m) \subseteq Multiples(One)
    <2>1. ASSUME NEW a \in Nat PROVE (One * m) * a = One * (m * a) /\ m * a \in Nat
      BY <1>3, ProductsCommute, NaturalProducts
    <2> QED BY <2>1 DEF Multiples
  <1>9. \A l \in 1..3 : \A n \in NodeId : W[l][n] \in Multiples(One)
    <2>1. \A n \in NodeId : W[1][n] \in Multiples(One) /\ W[2][n] \in Multiples(One)
      BY <1>3, <1>4, <1>5, <1>8
    <2> QED BY <1>6, <2>1
  <1> QED BY <1>2, <1>7, <1>9 DEF W

-----------------------------------------------------------------------------
(* The scores of one to four iterations.                                   *)

\* How many ways there are to spread l hops over i iterations, i at most 4.
LEMMA Factorials ==
    factorial[0] = 1 /\ factorial[1] = 1 /\ factorial[2] = 2 /\ factorial[3] = 6
  <1> DEFINE V == Nat
             base == 1
             step == [n \in Nat |-> [v \in V |-> n * v]]
             Follows(f) == f = [n \in Nat |-> IF n = 0 THEN 1 ELSE n * f[n - 1]]
  <1>1. base \in V /\ step \in [Nat -> [V -> V]]
    BY NaturalProducts
  <1>2. PICK f \in [Nat -> V] : f = [n \in Nat |-> IF n = 0 THEN base ELSE step[n][f[n - 1]]]
    <2> HIDE DEF V, base, step
    <2> QED BY <1>1, RecursionExists
  <1>3. ASSUME NEW n \in Nat, n # 0 PROVE step[n][f[n - 1]] = n * f[n - 1]
    BY <1>2, <1>3
  <1>4. Follows(f)
    <2> HIDE DEF step
    <2> QED BY <1>2, <1>3
  <1>5. Follows(factorial)
    <2>1. factorial = CHOOSE g : Follows(g)
      BY DEF factorial
    <2> HIDE DEF Follows
    <2> QED BY <1>4, <2>1
  <1>6. /\ factorial[0] = 1 /\ factorial[1] = 1 * factorial[0]
        /\ factorial[2] = 2 * factorial[1] /\ factorial[3] = 3 * factorial[2]
    <2>1. ASSUME NEW n \in Nat PROVE factorial[n] = IF n = 0 THEN 1 ELSE n * factorial[n - 1]
      BY <1>5
    <2> QED BY <2>1
  <1> QED BY <1>6

LEMMA SpreadValues ==
    /\ Spreads(1, 1) = 1
    /\ Spreads(2, 1) = 1 /\ Spreads(2, 2) = 1
    /\ Spreads(3, 1) = 1 /\ Spreads(3, 2) = 2 /\ Spreads(3, 3) = 1
    /\ Spreads(4, 1) = 1 /\ Spreads(4, 2) = 3 /\ Spreads(4, 3) = 3 /\ Spreads(4, 4) = 1
  <1>1. \A i, l \in 1..4 : l <= i =>
           Spreads(i, l) = factorial[i - 1] \div (factorial[l - 1] * factorial[i - l])
    BY DEF Spreads, choose
  <1>2. /\ 1 \div (1 * 1) = 1 /\ 2 \div (1 * 2) = 1 /\ 2 \div (1 * 1) = 2 /\ 2 \div (2 * 1) = 1
        /\ 6 \div (1 * 6) = 1 /\ 6 \div (1 * 2) = 3 /\ 6 \div (2 * 1) = 3 /\ 6 \div (6 * 1) = 1
    OBVIOUS
  <1> QED BY <1>1, <1>2, Factorials

\* Sums of at most four numbers, written out.
LEMMA ShortSums ==
    ASSUME NEW s \in Seq(Int)
    PROVE  /\ Len(s) = 1 => SumOfSeq(s) = s[1]
           /\ Len(s) = 2 => SumOfSeq(s) = s[1] + s[2]
           /\ Len(s) = 3 => SumOfSeq(s) = s[1] + s[2] + s[3]
           /\ Len(s) = 4 => SumOfSeq(s) = s[1] + s[2] + s[3] + s[4]
  <1>1. PICK f \in [Nat -> Int] : /\ f[0] = 0 /\ f[Len(s)] = SumOfSeq(s)
                                  /\ \A i \in 1..Len(s) : f[i] = f[i - 1] + s[i]
    BY SumAddsUp DEF AddsUp
  <1>2. \A i \in 1..Len(s) : s[i] \in Int
    BY Elements
  <1>3. Len(s) >= 1 => f[1] = f[0] + s[1] /\ s[1] \in Int
    BY <1>1, <1>2
  <1>4. Len(s) >= 2 => f[2] = f[1] + s[2] /\ s[2] \in Int
    BY <1>1, <1>2
  <1>5. Len(s) >= 3 => f[3] = f[2] + s[3] /\ s[3] \in Int
    BY <1>1, <1>2
  <1>6. Len(s) >= 4 => f[4] = f[3] + s[4] /\ s[4] \in Int
    BY <1>1, <1>2
  <1>7. f[0] = 0 /\ f[Len(s)] = SumOfSeq(s) /\ f[1] \in Int /\ f[2] \in Int
    BY <1>1
  <1>8. CASE Len(s) = 1
    BY <1>3, <1>7, <1>8
  <1>9. CASE Len(s) = 2
    BY <1>3, <1>4, <1>7, <1>9
  <1>10. CASE Len(s) = 3
    BY <1>3, <1>4, <1>5, <1>7, <1>10
  <1>11. CASE Len(s) = 4
    BY <1>3, <1>4, <1>5, <1>6, <1>7, <1>11
  <1> QED BY <1>8, <1>9, <1>10, <1>11

\* The scores by the weights of the walks.
ByHops(W, g, S, n) ==
    /\ WalkScoreAvoiding(g, S, 1, n) = W[1][n]
    /\ WalkScoreAvoiding(g, S, 2, n) = W[1][n] + W[2][n]
    /\ WalkScoreAvoiding(g, S, 3, n) = W[1][n] + 2 * W[2][n] + W[3][n]
    /\ WalkScoreAvoiding(g, S, 4, n) = W[1][n] + 3 * W[2][n] + 3 * W[3][n] + W[4][n]

\* Weights of walks are natural numbers.
LEMMA WalkNumbers ==
    ASSUME NEW g \in Graph, NEW S, NEW l \in 1..4, NEW n \in NodeId
    PROVE  WalkWeightAvoiding(g, S)[l][n] \in Nat
  <1>1. Multiples(One) \subseteq Nat
    BY GraphAssumption, MultiplesAdd
  <1>2. CASE l = 4
    BY <1>2, WalkMultiples
  <1>3. CASE l # 4
    <2>1. l \in 1..3
      BY <1>3
    <2> QED BY <1>1, <2>1, WalkMultiples
  <1> QED BY <1>2, <1>3

\* A score is a sum with a term for each length of walk.
LEMMA WalkScoreTerms ==
    ASSUME NEW g \in Graph, NEW S, NEW i \in 1..4, NEW n \in NodeId
    PROVE  WalkScoreAvoiding(g, S, i, n)
           = SumOfSeq([l \in 1..i |-> Spreads(i, l) * WalkWeightAvoiding(g, S)[l][n]])
  <1> DEFINE W == WalkWeightAvoiding(g, S)
             s == [l \in 1..i |-> l]
  <1>1. WalkScoreAvoiding(g, S, i, n)
        = SumOfSeq([j \in 1..Len(s) |-> Spreads(i, s[j]) * W[s[j]][n]])
    BY DEF WalkScoreAvoiding, SumOver
  <1>2. Len(s) = i /\ \A j \in 1..i : s[j] = j
    OBVIOUS
  <1> HIDE DEF s, W
  <1>3. [j \in 1..Len(s) |-> Spreads(i, s[j]) * W[s[j]][n]]
        = [l \in 1..i |-> Spreads(i, l) * W[l][n]]
    BY <1>2
  <1> QED BY <1>1, <1>3 DEF W

\* The four scores, in terms of the weights of the walks.
LEMMA ScoresByHops ==
    ASSUME NEW g \in Graph, NEW S, NEW n \in NodeId
    PROVE  ByHops(WalkWeightAvoiding(g, S), g, S, n)
  <1> DEFINE W == WalkWeightAvoiding(g, S)
             t(i) == [l \in 1..i |-> Spreads(i, l) * W[l][n]]
  <1>1. \A l \in 1..4 : W[l][n] \in Nat
    BY WalkNumbers
  <1>2. \A i \in 1..4 : WalkScoreAvoiding(g, S, i, n) = SumOfSeq(t(i))
    BY WalkScoreTerms
  <1> HIDE DEF W
  <1>3. t(1) \in Seq(Int) /\ Len(t(1)) = 1 /\ t(1)[1] = W[1][n]
    <2>1. \A l \in 1..1 : Spreads(1, l) * W[l][n] \in Int
      BY <1>1, SpreadValues
    <2> QED BY <1>1, <2>1, SpreadValues
  <1>4. t(2) \in Seq(Int) /\ Len(t(2)) = 2 /\ t(2)[1] = W[1][n] /\ t(2)[2] = W[2][n]
    <2>1. \A l \in 1..2 : Spreads(2, l) * W[l][n] \in Int
      BY <1>1, SpreadValues
    <2> QED BY <1>1, <2>1, SpreadValues
  <1>5. t(3) \in Seq(Int) /\ Len(t(3)) = 3
        /\ t(3)[1] = W[1][n] /\ t(3)[2] = 2 * W[2][n] /\ t(3)[3] = W[3][n]
    <2>1. \A l \in 1..3 : Spreads(3, l) * W[l][n] \in Int
      BY <1>1, SpreadValues
    <2> QED BY <1>1, <2>1, SpreadValues
  <1>6. t(4) \in Seq(Int) /\ Len(t(4)) = 4
        /\ t(4)[1] = W[1][n] /\ t(4)[2] = 3 * W[2][n] /\ t(4)[3] = 3 * W[3][n] /\ t(4)[4] = W[4][n]
    <2>1. \A l \in 1..4 : Spreads(4, l) * W[l][n] \in Int
      BY <1>1, SpreadValues
    <2> QED BY <1>1, <2>1, SpreadValues
  <1> HIDE DEF t
  <1>7. /\ SumOfSeq(t(1)) = W[1][n]
        /\ SumOfSeq(t(2)) = W[1][n] + W[2][n]
        /\ SumOfSeq(t(3)) = W[1][n] + 2 * W[2][n] + W[3][n]
        /\ SumOfSeq(t(4)) = W[1][n] + 3 * W[2][n] + 3 * W[3][n] + W[4][n]
    BY <1>3, <1>4, <1>5, <1>6, ShortSums
  <1> QED BY <1>2, <1>7 DEF ByHops, W

\* Scores are natural numbers, and up to the third one no precision is lost.
LEMMA WalkScoreType ==
    ASSUME NEW g \in Graph, NEW S, NEW i \in 1..4, NEW n \in NodeId
    PROVE  /\ WalkScoreAvoiding(g, S, i, n) \in Nat
           /\ i # 4 => WalkScoreAvoiding(g, S, i, n) \in Multiples(One)
           /\ WalkScoreAvoiding(g, S, 1, n) = OneHop(g, n)
  <1> DEFINE W == WalkWeightAvoiding(g, S)
  <1>1. ByHops(W, g, S, n) /\ \A l \in 1..4 : W[l][n] \in Nat
    BY ScoresByHops, WalkNumbers
  <1>2. W[1][n] = OneHop(g, n) /\ \A l \in 1..3 : W[l][n] \in Multiples(One)
    BY WalkMultiples
  <1> HIDE DEF W
  <1>3. /\ WalkScoreAvoiding(g, S, 1, n) \in Nat /\ WalkScoreAvoiding(g, S, 2, n) \in Nat
        /\ WalkScoreAvoiding(g, S, 3, n) \in Nat /\ WalkScoreAvoiding(g, S, 4, n) \in Nat
    BY <1>1 DEF ByHops
  <1>4. /\ W[1][n] + W[2][n] \in Multiples(One)
        /\ (W[1][n] + W[2][n]) + (W[2][n] + W[3][n]) \in Multiples(One)
    BY <1>2, GraphAssumption, MultiplesAdd
  <1>5. W[1][n] + 2 * W[2][n] + W[3][n] = (W[1][n] + W[2][n]) + (W[2][n] + W[3][n])
    BY <1>1
  <1>6. /\ WalkScoreAvoiding(g, S, 1, n) \in Multiples(One)
        /\ WalkScoreAvoiding(g, S, 2, n) \in Multiples(One)
        /\ WalkScoreAvoiding(g, S, 3, n) \in Multiples(One)
    BY <1>1, <1>2, <1>4, <1>5 DEF ByHops
  <1> QED BY <1>1, <1>2, <1>3, <1>6 DEF ByHops

\* One more iteration: the score of the node itself, and what is passed on to it.
LEMMA NextWalkScore ==
    ASSUME NEW g \in Graph, NEW S, NEW i \in 1..3, NEW n \in NodeId, NEW x,
           \A u \in NodeId \ S : x[u] = WalkScoreAvoiding(g, S, i, u)
    PROVE  WalkScoreAvoiding(g, S, i + 1, n) = WalkScoreAvoiding(g, S, i, n) + Carried(g, S, x, n)
  <1> DEFINE W == WalkWeightAvoiding(g, S)
             w12 == [u \in NodeId |-> W[1][u] + W[2][u]]
             w23 == [u \in NodeId |-> W[2][u] + W[3][u]]
             w13 == [u \in NodeId |-> w12[u] + w23[u]]
  <1>1. \A u \in NodeId : ByHops(W, g, S, u) /\ \A l \in 1..4 : W[l][u] \in Nat
    BY ScoresByHops, WalkNumbers
  <1>2. /\ \A u \in NodeId : \A l \in 1..3 : W[l][u] \in Multiples(One)
        /\ W[2][n] = Carried(g, S, W[1], n)
        /\ W[3][n] = Carried(g, S, W[2], n)
        /\ W[4][n] = Carried(g, S, W[3], n)
    <2>1. /\ \A u \in NodeId : \A l \in 1..3 : W[l][u] \in Multiples(One)
          /\ \A l \in 1..3 : W[l + 1][n] = Carried(g, S, W[l], n)
      BY WalkMultiples
    <2> HIDE DEF W
    <2>2. W[1 + 1][n] = Carried(g, S, W[1], n) /\ W[2 + 1][n] = Carried(g, S, W[2], n)
          /\ W[3 + 1][n] = Carried(g, S, W[3], n)
      BY <2>1
    <2> QED BY <2>1, <2>2
  <1> HIDE DEF W
  <1>3. \A u \in NodeId : /\ w12[u] = W[1][u] + W[2][u] /\ w23[u] = W[2][u] + W[3][u]
                          /\ w13[u] = w12[u] + w23[u]
    OBVIOUS
  <1> HIDE DEF w12, w23, w13
  <1>4. \A u \in NodeId : w12[u] \in Multiples(One) /\ w23[u] \in Multiples(One)
    BY <1>2, <1>3, GraphAssumption, MultiplesAdd
  <1>5. Carried(g, S, w12, n) = W[2][n] + W[3][n]
    BY <1>2, <1>3, CarriedAdds
  <1>6. Carried(g, S, w23, n) = W[3][n] + W[4][n]
    BY <1>2, <1>3, CarriedAdds
  <1>7. Carried(g, S, w13, n) = (W[2][n] + W[3][n]) + (W[3][n] + W[4][n])
    BY <1>3, <1>4, <1>5, <1>6, CarriedAdds
  <1>8. CASE i = 1
    <2>1. \A u \in NodeId \ S : x[u] = W[1][u]
      BY <1>1, <1>8 DEF ByHops
    <2>2. Carried(g, S, x, n) = W[2][n]
      BY <1>2, <2>1, CarriedAgrees
    <2> QED BY <1>1, <1>8, <2>2 DEF ByHops
  <1>9. CASE i = 2
    <2>1. \A u \in NodeId \ S : x[u] = w12[u]
      BY <1>1, <1>3, <1>9 DEF ByHops
    <2>2. Carried(g, S, x, n) = W[2][n] + W[3][n]
      BY <1>5, <2>1, CarriedAgrees
    <2> QED BY <1>1, <1>9, <2>2 DEF ByHops
  <1>10. CASE i = 3
    <2>1. \A u \in NodeId \ S : x[u] = w13[u]
      BY <1>1, <1>3, <1>10 DEF ByHops
    <2>2. Carried(g, S, x, n) = (W[2][n] + W[3][n]) + (W[3][n] + W[4][n])
      BY <1>7, <2>1, CarriedAgrees
    <2> QED BY <1>1, <1>10, <2>2 DEF ByHops
  <1> QED BY <1>8, <1>9, <1>10

-----------------------------------------------------------------------------
(* The best of the nodes.                                                  *)

\* Minimum and maximum of two numbers.
LEMMA Smaller ==
    ASSUME NEW a \in Nat, NEW b \in Nat
    PROVE  /\ Min({a, b}) = IF a <= b THEN a ELSE b
           /\ Max({a, b}) = IF a <= b THEN b ELSE a
  <1>1. Min({a, b}) = IF a <= b THEN a ELSE b
    <2> DEFINE m == IF a <= b THEN a ELSE b
    <2>1. m \in {a, b} /\ \A y \in {a, b} : m <= y
      OBVIOUS
    <2>2. \A x \in {a, b} : (\A y \in {a, b} : x <= y) => x = m
      OBVIOUS
    <2> HIDE DEF m
    <2>3. Min({a, b}) = m
      BY <2>1, <2>2 DEF Min
    <2> QED BY <2>3 DEF m
  <1>2. Max({a, b}) = IF a <= b THEN b ELSE a
    <2> DEFINE m == IF a <= b THEN b ELSE a
    <2>1. m \in {a, b} /\ \A y \in {a, b} : m >= y
      OBVIOUS
    <2>2. \A x \in {a, b} : (\A y \in {a, b} : x >= y) => x = m
      OBVIOUS
    <2> HIDE DEF m
    <2>3. Max({a, b}) = m
      BY <2>1, <2>2 DEF Max
    <2> QED BY <2>3 DEF m
  <1> QED BY <1>1, <1>2

\* An order of all nodes, the best first.
IsOrder(nodes) == nodes \in [1..NumberOfNodes -> NodeId] /\ IsInjective(nodes)

\* The order is the one that the code sorts into: by falling score.
SortedBy(x, nodes) ==
    \A i, j \in DOMAIN nodes : i < j => x[nodes[i]] >= x[nodes[j]]

\* Different nodes, the best ones first.
IsTop(r, size, x) ==
    /\ r \in Seq(NodeId) /\ Len(r) = size
    /\ IsInjective(r)
    /\ \A i \in DOMAIN r : \A n \in NodeId \ {r[j] : j \in 1..i} : x[n] <= x[r[i]]

\* An order of the nodes has every node.
LEMMA OrderHasAll ==
    ASSUME NEW nodes, IsOrder(nodes)
    PROVE  \A n \in NodeId : \E i \in 1..NumberOfNodes : nodes[i] = n
  <1>1. NumberOfNodes \in Nat \ {0}
    BY GraphAssumption
  <1>2. IsFiniteSet(NodeId) /\ Cardinality(NodeId) = NumberOfNodes
    BY <1>1, FS_Interval DEF NodeId
  <1>3. Cardinality(1..NumberOfNodes) = NumberOfNodes
    BY <1>1, FS_Interval
  <1>4. nodes \in Injection(1..NumberOfNodes, NodeId)
    BY DEF IsOrder, Injection
  <1>5. nodes \in Surjection(1..NumberOfNodes, NodeId)
    BY <1>2, <1>3, <1>4, FS_Injection
  <1> QED BY <1>5 DEF Surjection

\* The first nodes of a sorted order are the best ones, the best first.
LEMMA TopOfOrder ==
    ASSUME NEW nodes, IsOrder(nodes), NEW x \in [NodeId -> Nat], SortedBy(x, nodes),
           NEW size \in 0..NumberOfNodes
    PROVE  IsTop(SubSeq(nodes, 1, size), size, x)
  <1> DEFINE r == SubSeq(nodes, 1, size)
  <1>1. NumberOfNodes \in Nat /\ size \in Nat /\ size <= NumberOfNodes
    BY GraphAssumption
  <1>2. nodes \in [1..NumberOfNodes -> NodeId] /\ IsInjective(nodes)
    BY DEF IsOrder
  <1>3. nodes \in Seq(NodeId) /\ Len(nodes) = NumberOfNodes
    BY <1>1, <1>2
  <1>4. /\ r \in Seq(NodeId) /\ Len(r) = size /\ DOMAIN r = 1..size
        /\ \A i \in 1..size : r[i] = nodes[i]
    BY <1>1, <1>3
  <1> HIDE DEF r
  <1>5. IsInjective(r)
    <2>1. ASSUME NEW a \in 1..size, NEW b \in 1..size, r[a] = r[b] PROVE a = b
      <3>1. a \in DOMAIN nodes /\ b \in DOMAIN nodes /\ nodes[a] = nodes[b]
        BY <1>1, <1>2, <1>4, <2>1
      <3> QED BY <1>2, <3>1 DEF IsInjective
    <2> QED BY <1>4, <2>1 DEF IsInjective
  <1>6. ASSUME NEW i \in DOMAIN r, NEW n \in NodeId \ {r[j] : j \in 1..i}
        PROVE  x[n] <= x[r[i]]
    <2>1. i \in 1..size /\ r[i] = nodes[i] /\ i \in DOMAIN nodes
      BY <1>1, <1>2, <1>4
    <2>2. PICK p \in 1..NumberOfNodes : nodes[p] = n
      BY OrderHasAll
    <2>3. p \notin 1..i
      <3>1. ASSUME p \in 1..i PROVE FALSE
        <4>1. r[p] = n
          BY <1>1, <1>4, <2>1, <2>2, <3>1
        <4> QED BY <1>6, <3>1, <4>1
      <3> QED BY <3>1
    <2>4. i < p /\ p \in DOMAIN nodes
      BY <1>1, <1>2, <2>1, <2>2, <2>3
    <2>5. x[nodes[i]] >= x[nodes[p]]
      BY <2>1, <2>4 DEF SortedBy
    <2>6. nodes[i] \in NodeId /\ x[nodes[i]] \in Nat /\ x[n] \in Nat
      BY <1>2, <2>1
    <2> QED BY <2>1, <2>2, <2>5, <2>6
  <1> QED BY <1>4, <1>5, <1>6 DEF IsTop, r

-----------------------------------------------------------------------------
(* HighDegree, WeightedDegree and EasyImDelta.                             *)

\* The operators of the instance are the ones of this module.
LEMMA RankingOperators ==
    /\ Ranking!NodeId = NodeId
    /\ \A s : Ranking!SumOfSeq(s) = SumOfSeq(s)
    /\ \A e : Ranking!Hop(e) = Hop(e)
    /\ \A e, x : Ranking!Along(e, x) = Along(e, x)
    /\ \A i, l : Ranking!Spreads(i, l) = Spreads(i, l)
    /\ \A f : Ranking!IsInjective(f) = IsInjective(f)
    /\ \A S : Ranking!Max(S) = Max(S) /\ Ranking!Min(S) = Min(S)
  <1>1. Ranking!NodeId = NodeId
    BY DEF NodeId, Ranking!NodeId
  <1>2. \A s : Ranking!SumOfSeq(s) = SumOfSeq(s)
    BY DEF SumOfSeq, Ranking!SumOfSeq
  <1>3. \A e : Ranking!Hop(e) = Hop(e)
    BY DEF Hop, Ranking!Hop
  <1>4. \A e, x : Ranking!Along(e, x) = Along(e, x)
    BY DEF Along, Ranking!Along
  <1>5. \A i, l : Ranking!Spreads(i, l) = Spreads(i, l)
    BY DEF Spreads, choose, factorial, Ranking!Spreads, Ranking!choose, Ranking!factorial
  <1>6. \A f : Ranking!IsInjective(f) = IsInjective(f)
    BY DEF IsInjective, Ranking!IsInjective
  <1>7. \A S : Ranking!Max(S) = Max(S) /\ Ranking!Min(S) = Min(S)
    BY DEF Max, Min, Ranking!Max, Ranking!Min
  <1> QED BY <1>1, <1>2, <1>3, <1>4, <1>5, <1>6, <1>7

LEMMA RankingReference ==
    ASSUME NEW g, NEW S, NEW i, NEW n
    PROVE  Ranking!WalkScoreAvoiding(g, S, i, n) = WalkScoreAvoiding(g, S, i, n)
  BY DEF WalkScoreAvoiding, WalkWeightAvoiding, Spreads, choose, factorial, SumOver, SumOfSeq,
         Hop, Along, NodeId,
         Ranking!WalkScoreAvoiding, Ranking!WalkWeightAvoiding, Ranking!Spreads,
         Ranking!choose, Ranking!factorial, Ranking!SumOver, Ranking!SumOfSeq,
         Ranking!Hop, Ranking!Along, Ranking!NodeId

\* What a node's score is after i iterations.
RankingScore(i, n) == IF solver = "HighDegree" THEN getOutDegreeOf(graph_, n)
                      ELSE WalkScoreAvoiding(graph_, {}, i, n)

\* The vector that the tasks of an iteration write.
RankingWrites == IF iteration % 2 = 0 THEN weighted_degree_0_ ELSE weighted_degree_1_

\* What a run of a ranking solver is given.
RankingInput == /\ graph_ \in Graphs /\ k \in SeedNumbers
                /\ solver \in Ranking!Solvers
                /\ iterations_ \in IF solver = "EasyImDelta" THEN Iterations ELSE {1}

\* The types of its state.
RankingTypes == /\ weighted_degree_0_ \in [NodeId -> Nat]
                /\ weighted_degree_1_ \in [NodeId -> Nat]
                /\ pc \in {"init", "iterate", "done"}
                /\ iteration \in 1..4 /\ (iteration = 1 \/ iteration <= iterations_)
                /\ pending \subseteq NodeId

\* The vector to be read holds the score of this iteration, for all nodes once the
\* first loop is over.
RankingRead ==
    /\ pc = "init" => /\ iteration = 1
                      /\ \A n \in NodeId \ pending : weighted_degree_0_[n] = RankingScore(1, n)
    /\ pc # "init" => \A n \in NodeId : Ranking!Lookup[n] = RankingScore(iteration, n)

\* The other vector holds the next score, for the nodes whose task is done.
RankingWritten ==
    pc = "iterate" /\ iteration < iterations_ =>
        \A n \in NodeId \ pending : RankingWrites[n] = RankingScore(iteration + 1, n)

\* The result is the top of the vector that was sorted.
RankingResult ==
    /\ pc # "done" => result = << >>
    /\ pc = "done" => ~(iteration < iterations_)
                      /\ IsTop(result, Ranking!Size, Ranking!weighted_degree)

\* The invariant of HighDegree, WeightedDegree and EaSyIM-Delta.
RankingInv == RankingInput /\ RankingTypes /\ RankingRead /\ RankingWritten /\ RankingResult

\* What the assumptions on the constants say of such a run.
LEMMA RankingConstants ==
    ASSUME RankingInput
    PROVE  /\ graph_ \in Graph /\ k \in Nat /\ iterations_ \in 0..4
           /\ iterations_ > 1 => solver = "EasyImDelta"
           /\ solver # "EaSyIM" /\ solver \notin Ranks!RankSolvers /\ solver # "Random"
  BY ScoreAssumption DEF RankingInput, Ranking!Solvers, Ranks!RankSolvers

LEMMA RankingScoreType ==
    ASSUME RankingInput, NEW i \in 1..4, NEW n \in NodeId
    PROVE  RankingScore(i, n) \in Nat
  <1>1. graph_ \in Graph
    BY RankingConstants
  <1>2. getOutDegreeOf(graph_, n) \in Nat
    BY <1>1, Spans DEF getOutDegreeOf, getEdgesOf
  <1>3. WalkScoreAvoiding(graph_, {}, i, n) \in Nat
    BY <1>1, WalkScoreType
  <1> QED BY <1>2, <1>3 DEF RankingScore

\* The first score of a node, and the next one from the scores before it, are those
\* of the definition by walks.
LEMMA RankingFirstScore ==
    ASSUME RankingInput, NEW n \in NodeId
    PROVE  Ranking!FirstScore(n) = RankingScore(1, n)
  <1>1. graph_ \in Graph
    BY RankingConstants
  <1>2. CASE solver = "HighDegree"
    BY <1>2 DEF Ranking!FirstScore, RankingScore, getOutDegreeOf, getEdgesOf,
                Ranking!getOutDegreeOf, Ranking!getEdgesOf
  <1>3. CASE solver # "HighDegree"
    <2>1. Ranking!FirstScore(n) = OneHop(graph_, n)
      BY <1>3 DEF Ranking!FirstScore, Ranking!SumOver, Ranking!SumOfSeq, Ranking!Hop,
                  Ranking!getEdgesOf, OneHop, SumOfSeq, Hop
    <2>2. 1 \in 1..4 /\ WalkScoreAvoiding(graph_, {}, 1, n) = OneHop(graph_, n)
      BY <1>1, WalkScoreType
    <2> QED BY <1>3, <2>1, <2>2 DEF RankingScore
  <1> QED BY <1>2, <1>3

LEMMA RankingNextScore ==
    ASSUME RankingInput, NEW n \in NodeId, iteration \in 1..3, iteration < iterations_,
           \A u \in NodeId : Ranking!Lookup[u] = RankingScore(iteration, u)
    PROVE  Ranking!NextScore(n) = RankingScore(iteration + 1, n)
  <1> DEFINE x == Ranking!Lookup
  <1>1. graph_ \in Graph /\ iterations_ \in 0..4 /\ solver = "EasyImDelta"
    BY RankingConstants
  <1>2. \A u \in NodeId : x[u] = WalkScoreAvoiding(graph_, {}, iteration, u)
    BY <1>1 DEF RankingScore
  <1>3. Ranking!NextScore(n)
        = x[n] + SumOfSeq([i \in 1..Len(graph_.forward[n]) |->
                             Along(graph_.forward[n][i], x[graph_.forward[n][i].destination])])
    BY DEF Ranking!NextScore, Ranking!SumOver, Ranking!SumOfSeq, Ranking!Along,
           Ranking!getEdgesOf, SumOfSeq, Along
  <1> HIDE DEF x
  <1>4. SumOfSeq([i \in 1..Len(graph_.forward[n]) |->
                     Along(graph_.forward[n][i], x[graph_.forward[n][i].destination])])
        = Carried(graph_, {}, x, n)
    <2>1. [i \in 1..Len(graph_.forward[n]) |->
              Along(graph_.forward[n][i], x[graph_.forward[n][i].destination])]
          = PassedOn(graph_, {}, x, n)
      BY DEF PassedOn
    <2> QED BY <2>1 DEF Carried, PassedOn
  <1>5. WalkScoreAvoiding(graph_, {}, iteration + 1, n)
        = WalkScoreAvoiding(graph_, {}, iteration, n) + Carried(graph_, {}, x, n)
    BY <1>1, <1>2, NextWalkScore
  <1> QED BY <1>1, <1>2, <1>3, <1>4, <1>5 DEF RankingScore

\* The result has the smaller of k and the number of nodes.
LEMMA RankingSize ==
    ASSUME RankingInput
    PROVE  Ranking!Size \in 0..NumberOfNodes /\ Ranking!Size <= k
           /\ Ranking!Size = Min({k, NumberOfNodes}) /\ Ranking!Result = Ranking!Size
  <1>1. k \in Nat /\ NumberOfNodes \in Nat
    BY RankingConstants, GraphAssumption
  <1>2. Ranking!Size = Min({k, NumberOfNodes}) /\ Ranking!Result = Ranking!Size
    BY RankingOperators DEF Ranking!Size, Ranking!Result
  <1> QED BY <1>1, <1>2, Smaller

\* The initial states and each action keep the invariant.
LEMMA RankingBegins ==
    ASSUME Ranking!Init
    PROVE  RankingInv
  <1>1. RankingInput
    BY DEF Ranking!Init, RankingInput
  <1>2. RankingTypes /\ RankingRead /\ RankingWritten /\ RankingResult
    BY RankingOperators
       DEF Ranking!Init, Ranking!Zero, RankingTypes, RankingRead, RankingWritten, RankingResult
  <1> QED BY <1>1, <1>2 DEF RankingInv

LEMMA RankingScores ==
    ASSUME RankingInv, NEW node \in Ranking!NodeId, Ranking!ScoreTask(node)
    PROVE  RankingInv'
  <1>1. RankingInput /\ RankingTypes /\ RankingRead /\ RankingWritten /\ RankingResult
    BY DEF RankingInv
  <1>2. /\ pc = "init" /\ node \in pending /\ pending' = pending \ {node}
        /\ weighted_degree_0_' = [weighted_degree_0_ EXCEPT ![node] = Ranking!FirstScore(node)]
        /\ weighted_degree_1_' = weighted_degree_1_ /\ result' = result /\ pc' = pc
        /\ iteration' = iteration
    BY DEF Ranking!ScoreTask
  <1>3. UNCHANGED <<graph_, k, solver, iterations_>>
    BY DEF Ranking!ScoreTask, Ranking!input
  <1>4. node \in NodeId
    BY RankingOperators
  <1>5. Ranking!FirstScore(node) = RankingScore(1, node) /\ RankingScore(1, node) \in Nat
    BY <1>1, <1>4, RankingFirstScore, RankingScoreType, 1 \in 1..4
  <1>6. RankingInput'
    BY <1>1, <1>3 DEF RankingInput, Ranking!Solvers
  <1>7. RankingTypes'
    BY <1>1, <1>2, <1>3, <1>5 DEF RankingTypes
  <1>8. \A i, n : RankingScore(i, n)' = RankingScore(i, n)
    BY <1>3 DEF RankingScore, getOutDegreeOf, getEdgesOf
  <1>9. RankingRead'
    <2>1. \A n \in NodeId \ pending' : weighted_degree_0_'[n] = RankingScore(1, n)
      BY <1>1, <1>2, <1>4, <1>5 DEF RankingRead, RankingTypes
    <2> QED BY <1>1, <1>2, <1>8, <2>1 DEF RankingRead
  <1>10. RankingWritten' /\ RankingResult'
    BY <1>1, <1>2 DEF RankingWritten, RankingResult
  <1> QED BY <1>6, <1>7, <1>9, <1>10 DEF RankingInv

LEMMA RankingScored ==
    ASSUME RankingInv, Ranking!ScoreDone
    PROVE  RankingInv'
  <1>1. RankingInput /\ RankingTypes /\ RankingRead /\ RankingWritten /\ RankingResult
    BY DEF RankingInv
  <1>2. /\ pc = "init" /\ pending = {} /\ pc' = "iterate" /\ pending' = NodeId
        /\ weighted_degree_0_' = weighted_degree_0_ /\ weighted_degree_1_' = weighted_degree_1_
        /\ result' = result /\ iteration' = iteration
    BY RankingOperators DEF Ranking!ScoreDone, Ranking!scores
  <1>3. UNCHANGED <<graph_, k, solver, iterations_>>
    BY DEF Ranking!ScoreDone, Ranking!input
  <1>4. RankingInput'
    BY <1>1, <1>3 DEF RankingInput, Ranking!Solvers
  <1>5. RankingTypes'
    BY <1>1, <1>2, <1>3 DEF RankingTypes
  <1>6. \A i, n : RankingScore(i, n)' = RankingScore(i, n)
    BY <1>3 DEF RankingScore, getOutDegreeOf, getEdgesOf
  <1>7. RankingRead'
    <2>1. iteration = 1 /\ \A n \in NodeId : weighted_degree_0_[n] = RankingScore(1, n)
      BY <1>1, <1>2 DEF RankingRead
    <2>2. Ranking!Lookup' = weighted_degree_0_
      BY <1>2, <2>1 DEF Ranking!Lookup
    <2> QED BY <1>2, <1>6, <2>1, <2>2 DEF RankingRead
  <1>8. RankingWritten' /\ RankingResult'
    BY <1>1, <1>2 DEF RankingWritten, RankingResult
  <1> QED BY <1>4, <1>5, <1>7, <1>8 DEF RankingInv

LEMMA RankingIterates ==
    ASSUME RankingInv, NEW node \in Ranking!NodeId, Ranking!IterationTask(node)
    PROVE  RankingInv'
  <1>1. RankingInput /\ RankingTypes /\ RankingRead /\ RankingWritten /\ RankingResult
    BY DEF RankingInv
  <1>2. /\ pc = "iterate" /\ iteration < iterations_ /\ node \in pending
        /\ pending' = pending \ {node}
        /\ result' = result /\ pc' = pc /\ iteration' = iteration
    BY DEF Ranking!IterationTask, Ranking!Iterating
  <1>3. UNCHANGED <<graph_, k, solver, iterations_>>
    BY DEF Ranking!IterationTask, Ranking!input
  <1>4. node \in NodeId
    BY RankingOperators
  <1>5. /\ iteration \in 1..3
        /\ \A u \in NodeId : Ranking!Lookup[u] = RankingScore(iteration, u)
    BY <1>1, <1>2, RankingConstants DEF RankingTypes, RankingRead
  <1> DEFINE s == Ranking!NextScore(node)
  <1>6. s = RankingScore(iteration + 1, node) /\ s \in Nat
    <2>1. iteration + 1 \in 1..4
      BY <1>5
    <2> QED BY <1>1, <1>2, <1>4, <1>5, <2>1, RankingNextScore, RankingScoreType
  <1>7. IF iteration % 2 = 0
        THEN /\ weighted_degree_0_' = [weighted_degree_0_ EXCEPT ![node] = s]
             /\ weighted_degree_1_' = weighted_degree_1_
        ELSE /\ weighted_degree_1_' = [weighted_degree_1_ EXCEPT ![node] = s]
             /\ weighted_degree_0_' = weighted_degree_0_
    BY DEF Ranking!IterationTask
  <1> HIDE DEF s
  <1>8. RankingInput'
    BY <1>1, <1>3 DEF RankingInput, Ranking!Solvers
  <1>9. RankingTypes'
    BY <1>1, <1>2, <1>3, <1>6, <1>7 DEF RankingTypes
  <1>10. \A i, n : RankingScore(i, n)' = RankingScore(i, n)
    BY <1>3 DEF RankingScore, getOutDegreeOf, getEdgesOf
  <1>11. Ranking!Lookup' = Ranking!Lookup
    BY <1>2, <1>7 DEF Ranking!Lookup
  <1>12. RankingRead'
    BY <1>1, <1>2, <1>5, <1>10, <1>11 DEF RankingRead
  <1>13. RankingWritten'
    <2>1. RankingWrites' = [RankingWrites EXCEPT ![node] = s] /\ node \in DOMAIN RankingWrites
      BY <1>1, <1>2, <1>4, <1>7 DEF RankingWrites, RankingTypes
    <2>2. \A n \in NodeId \ pending : RankingWrites[n] = RankingScore(iteration + 1, n)
      BY <1>1, <1>2 DEF RankingWritten
    <2>3. \A n \in NodeId \ pending' : RankingWrites'[n] = RankingScore(iteration + 1, n)
      BY <1>2, <1>6, <2>1, <2>2
    <2> QED BY <1>2, <1>3, <1>10, <2>3 DEF RankingWritten
  <1>14. RankingResult'
    BY <1>1, <1>2 DEF RankingResult
  <1> QED BY <1>8, <1>9, <1>12, <1>13, <1>14 DEF RankingInv

LEMMA RankingIterated ==
    ASSUME RankingInv, Ranking!IterationDone
    PROVE  RankingInv'
  <1>1. RankingInput /\ RankingTypes /\ RankingRead /\ RankingWritten /\ RankingResult
    BY DEF RankingInv
  <1>2. /\ pc = "iterate" /\ iteration < iterations_ /\ pending = {}
        /\ iteration' = iteration + 1 /\ pending' = NodeId /\ pc' = pc
        /\ weighted_degree_0_' = weighted_degree_0_ /\ weighted_degree_1_' = weighted_degree_1_
        /\ result' = result
    BY RankingOperators DEF Ranking!IterationDone, Ranking!Iterating, Ranking!scores
  <1>3. UNCHANGED <<graph_, k, solver, iterations_>>
    BY DEF Ranking!IterationDone, Ranking!input
  <1>4. RankingInput'
    BY <1>1, <1>3 DEF RankingInput, Ranking!Solvers
  <1>5. iteration \in 1..3 /\ iteration' \in 1..4 /\ iteration' <= iterations_'
    BY <1>1, <1>2, <1>3, RankingConstants DEF RankingTypes
  <1>6. RankingTypes'
    BY <1>1, <1>2, <1>5 DEF RankingTypes
  <1>7. \A i, n : RankingScore(i, n)' = RankingScore(i, n)
    BY <1>3 DEF RankingScore, getOutDegreeOf, getEdgesOf
  <1>8. RankingRead'
    <2>1. \A n \in NodeId : RankingWrites[n] = RankingScore(iteration + 1, n)
      BY <1>1, <1>2 DEF RankingWritten
    <2>2. Ranking!Lookup' = RankingWrites
      BY <1>2, <1>5 DEF Ranking!Lookup, RankingWrites
    <2> QED BY <1>2, <1>7, <2>1, <2>2 DEF RankingRead
  <1>9. RankingWritten' /\ RankingResult'
    BY <1>1, <1>2 DEF RankingWritten, RankingResult
  <1> QED BY <1>4, <1>6, <1>8, <1>9 DEF RankingInv

LEMMA RankingSorts ==
    ASSUME RankingInv, Ranking!Sort
    PROVE  RankingInv'
  <1>1. RankingInput /\ RankingTypes /\ RankingRead /\ RankingWritten /\ RankingResult
    BY DEF RankingInv
  <1> DEFINE x == Ranking!weighted_degree
  <1>2. /\ pc = "iterate" /\ ~(iteration < iterations_) /\ pc' = "done"
        /\ weighted_degree_0_' = weighted_degree_0_ /\ weighted_degree_1_' = weighted_degree_1_
        /\ iteration' = iteration /\ pending' = pending
    BY DEF Ranking!Sort, Ranking!Iterating, Ranking!scores
  <1>3. UNCHANGED <<graph_, k, solver, iterations_>>
    BY DEF Ranking!Sort, Ranking!input
  <1>4. PICK nodes \in Ranking!Orders :
           Ranking!BestFirst(nodes) /\ result' = SubSeq(nodes, 1, Ranking!Size)
    BY DEF Ranking!Sort, Ranking!Selection
  <1>5. x \in [NodeId -> Nat]
    BY <1>1 DEF RankingTypes, Ranking!weighted_degree
  <1>6. IsOrder(nodes) /\ SortedBy(x, nodes)
    BY <1>4, RankingOperators DEF Ranking!Orders, Ranking!BestFirst, IsOrder, SortedBy
  <1>7. Ranking!Size \in 0..NumberOfNodes
    BY <1>1, RankingSize
  <1>8. Ranking!Size' = Ranking!Size /\ x' = x
    BY <1>2, <1>3 DEF Ranking!Size, Ranking!weighted_degree
  <1> HIDE DEF x
  <1>9. IsTop(result', Ranking!Size, x)
    BY <1>4, <1>5, <1>6, <1>7, TopOfOrder
  <1>10. RankingInput'
    BY <1>1, <1>3 DEF RankingInput, Ranking!Solvers
  <1>11. RankingTypes'
    BY <1>1, <1>2, <1>3 DEF RankingTypes
  <1>12. \A i, n : RankingScore(i, n)' = RankingScore(i, n)
    BY <1>3 DEF RankingScore, getOutDegreeOf, getEdgesOf
  <1>13. RankingRead'
    <2>1. Ranking!Lookup' = Ranking!Lookup
      BY <1>2 DEF Ranking!Lookup
    <2> QED BY <1>1, <1>2, <1>12, <2>1 DEF RankingRead
  <1>14. RankingWritten'
    BY <1>2 DEF RankingWritten
  <1>15. RankingResult'
    <2>1. IsTop(result', Ranking!Size', x')
      BY <1>8, <1>9
    <2> QED BY <1>2, <1>3, <2>1 DEF RankingResult, IsTop, x
  <1> QED BY <1>10, <1>11, <1>13, <1>14, <1>15 DEF RankingInv

LEMMA RankingSteps ==
    ASSUME RankingInv, Ranking!Next
    PROVE  RankingInv'
  BY RankingScores, RankingScored, RankingIterates, RankingIterated, RankingSorts
     DEF Ranking!Next

\* What the sort reads when the iterations are over.
LEMMA RankingLast ==
    ASSUME RankingInv, pc # "init", ~(iteration < iterations_), NEW n \in NodeId
    PROVE  Ranking!weighted_degree[n] = Ranking!ScoreOf(n)
  <1>1. RankingInput /\ RankingTypes /\ RankingRead
    BY DEF RankingInv
  <1>2. iterations_ \in 0..4 /\ iteration \in 1..4 /\ (iteration = 1 \/ iteration <= iterations_)
    BY <1>1, RankingConstants DEF RankingTypes
  <1>3. iteration = Max({1, iterations_})
    BY <1>2, Smaller
  <1>4. Ranking!weighted_degree = Ranking!Lookup
    <2>1. CASE iterations_ = 0
      BY <1>2, <2>1 DEF Ranking!weighted_degree, Ranking!Lookup
    <2>2. CASE iterations_ # 0
      <3>1. iteration = iterations_
        BY <1>2, <2>2
      <3> QED BY <1>2, <3>1 DEF Ranking!weighted_degree, Ranking!Lookup
    <2> QED BY <2>1, <2>2
  <1>5. Ranking!ScoreOf(n) = RankingScore(iteration, n)
    BY <1>3, RankingOperators, RankingReference
       DEF Ranking!ScoreOf, RankingScore, getOutDegreeOf, getEdgesOf,
           Ranking!getOutDegreeOf, Ranking!getEdgesOf
  <1> QED BY <1>1, <1>4, <1>5 DEF RankingRead

\* What the invariant says of the properties.
LEMMA RankingShows ==
    ASSUME RankingInv
    PROVE  /\ TypeOK /\ ReadScoresAreExact /\ ResultIsTheTop /\ SettledRanksSolveTheEquation
  <1>1. RankingInput /\ RankingTypes /\ RankingRead /\ RankingWritten /\ RankingResult
    BY DEF RankingInv
  <1>2. solver \in Ranking!Solvers /\ solver # "EaSyIM" /\ solver \notin Ranks!RankSolvers
        /\ solver # "Random" /\ k \in Nat
    BY <1>1, RankingConstants DEF RankingInput
  <1>3. \A n \in NodeId : pc # "init" /\ ~(iteration < iterations_) =>
                             Ranking!weighted_degree[n] = Ranking!ScoreOf(n)
    BY RankingLast
  <1>4. TypeOK
    <2>1. result \in Seq(NodeId) /\ Len(result) <= k
      <3>1. CASE pc = "done"
        <4>1. result \in Seq(NodeId) /\ Len(result) = Ranking!Size
          BY <1>1, <3>1 DEF RankingResult, IsTop
        <4> QED BY <1>1, <4>1, RankingSize
      <3>2. CASE pc # "done"
        <4>1. result = << >>
          BY <1>1, <3>2 DEF RankingResult
        <4> QED BY <1>2, <4>1
      <3> QED BY <3>1, <3>2
    <2> QED BY <1>1, <1>2, <2>1 DEF TypeOK, RankingTypes
  <1>5. ReadScoresAreExact
    <2>1. pc # "init" /\ ~Ranking!Iterating => ~(iteration < iterations_)
      BY <1>1 DEF Ranking!Iterating, RankingTypes, RankingResult
    <2>2. Ranking!ScoresAreExact
      BY <1>3, <2>1, RankingOperators DEF Ranking!ScoresAreExact
    <2> QED BY <1>2, <1>4, <2>2 DEF ReadScoresAreExact
  <1>6. ResultIsTheTop
    <2>1. ASSUME pc = "done" PROVE IsTop(result, Ranking!Size, Ranking!weighted_degree)
                                   /\ ~(iteration < iterations_)
      BY <1>1, <2>1 DEF RankingResult
    <2>2. ASSUME pc = "done", NEW i \in DOMAIN result,
                 NEW n \in NodeId \ {result[j] : j \in 1..i}
          PROVE  Ranking!ScoreOf(n) <= Ranking!ScoreOf(result[i])
      <3>1. Ranking!weighted_degree[n] <= Ranking!weighted_degree[result[i]]
        BY <2>1, <2>2 DEF IsTop
      <3>2. result[i] \in NodeId
        BY <2>1, <2>2 DEF IsTop
      <3> QED BY <1>3, <2>1, <2>2, <3>1, <3>2
    <2>3. Ranking!ResultIsTheTop
      BY <1>1, <2>1, <2>2, RankingOperators, RankingSize DEF Ranking!ResultIsTheTop, IsTop
    <2> QED BY <1>2, <2>3 DEF ResultIsTheTop
  <1>7. SettledRanksSolveTheEquation
    BY <1>2 DEF SettledRanksSolveTheEquation
  <1> QED BY <1>4, <1>5, <1>6, <1>7

-----------------------------------------------------------------------------
(* EaSyIM.                                                                 *)

\* The operators of the instance are the ones of this module.
LEMMA EaSyIMOperators ==
    /\ EaSyIM!NodeId = NodeId
    /\ \A s : EaSyIM!Range(s) = Range(s) /\ EaSyIM!Last(s) = Last(s)
    /\ \A S : EaSyIM!Max(S) = Max(S)
  <1>1. EaSyIM!NodeId = NodeId
    BY DEF NodeId, EaSyIM!NodeId
  <1>2. \A s : EaSyIM!Range(s) = Range(s) /\ EaSyIM!Last(s) = Last(s)
    BY DEF Range, EaSyIM!Range, Last, EaSyIM!Last
  <1>3. \A S : EaSyIM!Max(S) = Max(S)
    BY DEF Max, EaSyIM!Max
  <1> QED BY <1>1, <1>2, <1>3

LEMMA EaSyIMReference ==
    ASSUME NEW g, NEW S, NEW i, NEW n
    PROVE  EaSyIM!WalkScoreAvoiding(g, S, i, n) = WalkScoreAvoiding(g, S, i, n)
  BY DEF WalkScoreAvoiding, WalkWeightAvoiding, Spreads, choose, factorial, SumOver, SumOfSeq,
         Hop, Along, NodeId,
         EaSyIM!WalkScoreAvoiding, EaSyIM!WalkWeightAvoiding, EaSyIM!Spreads,
         EaSyIM!choose, EaSyIM!factorial, EaSyIM!SumOver, EaSyIM!SumOfSeq,
         EaSyIM!Hop, EaSyIM!Along, EaSyIM!NodeId

\* What a node's score is after i iterations.  A selected node has none.
EaSyIMScore(i, n) == IF n \in selected_nodes_ THEN 0
                     ELSE WalkScoreAvoiding(graph_, selected_nodes_, i, n)

\* The vector that the tasks of an iteration write.
EaSyIMWrites == IF iteration % 2 = 0 THEN weighted_degree_even_ ELSE weighted_degree_odd_

\* What a run of EaSyIM is given.
EaSyIMInput == /\ solver = "EaSyIM"
               /\ graph_ \in Graphs /\ k \in SeedNumbers /\ iterations_ \in Iterations

\* The types of its state.
EaSyIMTypes == /\ weighted_degree_even_ \in [NodeId -> Nat]
               /\ weighted_degree_odd_ \in [NodeId -> Nat]
               /\ weighted_degree_0_ \in [NodeId -> Nat]
               /\ weighted_degree_1_ \in [NodeId -> Nat]
               /\ pc \in {"init", "while", "iterate", "reset", "done"}
               /\ iteration \in 2..5 /\ (iteration = 2 \/ iteration <= iterations_ + 1)
               /\ pending \subseteq NodeId
               /\ result = << >>

\* The seeds chosen so far; the selected nodes are a bit set of them.
EaSyIMSeeds == /\ seed_set \in Seq(NodeId) /\ Len(seed_set) <= k
               /\ selected_nodes_ = Range(seed_set)
               /\ pc = "init" => seed_set = << >>
               /\ pc = "iterate" => Len(seed_set) < k

\* The scores of one hop, in the third vector and before each selection in the second.
EaSyIMFirst ==
    /\ pc = "init" => \A n \in NodeId \ pending : /\ weighted_degree_0_[n] = EaSyIMScore(1, n)
                                                  /\ weighted_degree_odd_[n] = EaSyIMScore(1, n)
    /\ pc # "init" => \A n \in NodeId : weighted_degree_0_[n] = EaSyIMScore(1, n)
    /\ pc = "while" => \A n \in NodeId : weighted_degree_odd_[n] = EaSyIMScore(1, n)
    /\ pc = "reset" => \A n \in NodeId \ pending : weighted_degree_odd_[n] = EaSyIMScore(1, n)
    /\ pc \in {"init", "while"} => \A n \in NodeId : weighted_degree_even_[n] = 0

\* The tasks do not write the score of a selected node, which is 0 as the vector was.
EaSyIMIterated ==
    pc = "iterate" =>
        /\ \A n \in NodeId : EaSyIM!Lookup[n] = EaSyIMScore(iteration - 1, n)
        /\ iteration <= iterations_ =>
              \A n \in NodeId : n \notin pending \/ n \in selected_nodes_ =>
                 EaSyIMWrites[n] = EaSyIMScore(iteration, n)

\* The invariant of EaSyIM.
EaSyIMInv == EaSyIMInput /\ EaSyIMTypes /\ EaSyIMSeeds /\ EaSyIMFirst /\ EaSyIMIterated

\* What the assumptions on the constants say of such a run.
LEMMA EaSyIMConstants ==
    ASSUME EaSyIMInput
    PROVE  /\ graph_ \in Graph /\ k \in Nat /\ iterations_ \in 0..4
           /\ solver \notin Ranking!Solvers /\ solver \notin Ranks!RankSolvers
           /\ solver # "Random"
  BY ScoreAssumption DEF EaSyIMInput, Ranking!Solvers, Ranks!RankSolvers

LEMMA EaSyIMScoreType ==
    ASSUME EaSyIMInput, NEW i \in 1..4, NEW n \in NodeId
    PROVE  EaSyIMScore(i, n) \in Nat
  <1>1. WalkScoreAvoiding(graph_, selected_nodes_, i, n) \in Nat
    BY EaSyIMConstants, WalkScoreType
  <1> QED BY <1>1 DEF EaSyIMScore

\* calculateWD and ResetDegree give the score of one hop.
LEMMA EaSyIMFirstScore ==
    ASSUME EaSyIMInput, NEW n \in NodeId
    PROVE  /\ EaSyIM!ResetDegree(n) = EaSyIMScore(1, n)
           /\ n \notin selected_nodes_ => EaSyIM!calculateWD(n) = EaSyIMScore(1, n)
           /\ EaSyIM!calculateWD(n) \in Nat
  <1>1. EaSyIM!calculateWD(n) = OneHop(graph_, n)
    BY DEF EaSyIM!calculateWD, EaSyIM!SumOver, EaSyIM!SumOfSeq, EaSyIM!Hop,
           EaSyIM!getEdgesOf, OneHop, SumOfSeq, Hop
  <1>2. /\ WalkScoreAvoiding(graph_, selected_nodes_, 1, n) = OneHop(graph_, n)
        /\ OneHop(graph_, n) \in Nat
    BY EaSyIMConstants, WalkScoreType, 1 \in 1..4
  <1> QED BY <1>1, <1>2 DEF EaSyIMScore, EaSyIM!ResetDegree

\* The next score of a node from the scores before it is the one by walks that avoid
\* the selected nodes.
LEMMA EaSyIMNextScore ==
    ASSUME EaSyIMInput, NEW n \in NodeId \ selected_nodes_, iteration \in 2..4,
           \A u \in NodeId : EaSyIM!Lookup[u] = EaSyIMScore(iteration - 1, u)
    PROVE  EaSyIM!NextScore(n) = EaSyIMScore(iteration, n)
  <1> DEFINE x == EaSyIM!Lookup
             i == iteration - 1
  <1>1. graph_ \in Graph
    BY EaSyIMConstants
  <1>2. \A u \in NodeId \ selected_nodes_ :
           x[u] = WalkScoreAvoiding(graph_, selected_nodes_, i, u)
    BY DEF EaSyIMScore
  <1>3. EaSyIM!NextScore(n) = x[n] + Carried(graph_, selected_nodes_, x, n)
    BY DEF EaSyIM!NextScore, EaSyIM!SumOver, EaSyIM!SumOfSeq, EaSyIM!Along,
           EaSyIM!getEdgesOf, Carried, SumOfSeq, Along
  <1>4. i \in 1..3 /\ i + 1 = iteration
    OBVIOUS
  <1> HIDE DEF x, i
  <1>5. WalkScoreAvoiding(graph_, selected_nodes_, i + 1, n)
        = WalkScoreAvoiding(graph_, selected_nodes_, i, n)
          + Carried(graph_, selected_nodes_, x, n)
    BY <1>1, <1>2, <1>4, NextWalkScore
  <1> QED BY <1>2, <1>3, <1>4, <1>5 DEF EaSyIMScore

\* What a selection reads.
LEMMA EaSyIMLast ==
    ASSUME EaSyIMInv, EaSyIM!IterationsOver, NEW n \in NodeId
    PROVE  /\ EaSyIM!weighted_degree[n] = EaSyIM!WalkScore(n)
           /\ EaSyIM!weighted_degree[n] \in Nat
           /\ n \in selected_nodes_ => EaSyIM!weighted_degree[n] = 0
  <1>1. EaSyIMInput /\ EaSyIMTypes /\ EaSyIMFirst /\ EaSyIMIterated
    BY DEF EaSyIMInv
  <1>2. /\ pc = "iterate" /\ iteration > iterations_
        /\ iterations_ \in 0..4 /\ iteration \in 2..5
        /\ (iteration = 2 \/ iteration <= iterations_ + 1)
    BY <1>1, EaSyIMConstants DEF EaSyIM!IterationsOver, EaSyIMTypes
  <1> DEFINE m == Max({1, iterations_})
  <1>3. m = (IF iterations_ <= 1 THEN 1 ELSE iterations_) /\ m \in 1..4
    <2>1. m = IF 1 <= iterations_ THEN iterations_ ELSE 1
      BY <1>2, Smaller
    <2> HIDE DEF m
    <2> QED BY <1>2, <2>1
  <1>4. EaSyIM!WalkScore(n) = EaSyIMScore(m, n)
    BY EaSyIMOperators, EaSyIMReference DEF EaSyIM!WalkScore, EaSyIMScore
  <1> HIDE DEF m
  <1>5. EaSyIM!weighted_degree[n] = EaSyIMScore(m, n)
    <2>1. CASE iterations_ <= 1
      BY <1>1, <1>2, <1>3, <2>1 DEF EaSyIM!weighted_degree, EaSyIMFirst
    <2>2. CASE iterations_ > 1
      <3>1. iteration = iterations_ + 1 /\ m = iteration - 1
        BY <1>2, <1>3, <2>2
      <3>2. EaSyIM!weighted_degree = EaSyIM!Lookup
        BY <1>2, <2>2, <3>1 DEF EaSyIM!weighted_degree, EaSyIM!Lookup
      <3> QED BY <1>1, <1>2, <3>1, <3>2 DEF EaSyIMIterated
    <2> QED BY <1>2, <2>1, <2>2
  <1>6. EaSyIMScore(m, n) \in Nat
    BY <1>1, <1>3, EaSyIMScoreType
  <1> QED BY <1>4, <1>5, <1>6 DEF EaSyIMScore

\* What the other solvers have and EaSyIM leaves alone.
EaSyIMFrame == UNCHANGED <<solver, weighted_degree_1_, result>>

\* The initial states and each action keep the invariant.
LEMMA EaSyIMBegins ==
    ASSUME solver = "EaSyIM", EaSyIM!Init, weighted_degree_1_ = EaSyIM!Zero, result = << >>
    PROVE  EaSyIMInv
  <1>1. EaSyIMInput /\ EaSyIMTypes
    BY EaSyIMOperators DEF EaSyIM!Init, EaSyIM!Zero, EaSyIMInput, EaSyIMTypes
  <1>2. seed_set = << >> /\ selected_nodes_ = {} /\ pc = "init" /\ k \in Nat
    BY <1>1, EaSyIMConstants DEF EaSyIM!Init
  <1>3. EaSyIMSeeds
    <2>1. Range(<< >>) = {} /\ << >> \in Seq(NodeId) /\ Len(<< >>) = 0
      BY DEF Range
    <2> QED BY <1>2, <2>1 DEF EaSyIMSeeds
  <1>4. EaSyIMFirst /\ EaSyIMIterated
    BY EaSyIMOperators DEF EaSyIM!Init, EaSyIM!Zero, EaSyIMFirst, EaSyIMIterated
  <1> QED BY <1>1, <1>3, <1>4 DEF EaSyIMInv

\* A step that leaves the selection alone.
LEMMA EaSyIMSame ==
    ASSUME EaSyIMInput, EaSyIMSeeds, UNCHANGED <<graph_, k, iterations_, solver, seed_set,
           selected_nodes_>>
    PROVE  /\ EaSyIMInput'
           /\ \A i, n : EaSyIMScore(i, n)' = EaSyIMScore(i, n)
           /\ pc' # "init" /\ pc' # "iterate" => EaSyIMSeeds'
           /\ pc' = pc => EaSyIMSeeds'
  <1>1. EaSyIMInput'
    BY DEF EaSyIMInput
  <1>2. \A i, n : EaSyIMScore(i, n)' = EaSyIMScore(i, n)
    BY DEF EaSyIMScore
  <1>3. /\ pc' # "init" /\ pc' # "iterate" => EaSyIMSeeds'
        /\ pc' = pc => EaSyIMSeeds'
    BY DEF EaSyIMSeeds
  <1> QED BY <1>1, <1>2, <1>3

LEMMA EaSyIMInitTask ==
    ASSUME EaSyIMInv, EaSyIMFrame, NEW node \in EaSyIM!NodeId, EaSyIM!InitTask(node)
    PROVE  EaSyIMInv'
  <1>1. EaSyIMInput /\ EaSyIMTypes /\ EaSyIMSeeds /\ EaSyIMFirst /\ EaSyIMIterated
    BY DEF EaSyIMInv
  <1> DEFINE s == EaSyIM!calculateWD(node)
  <1>2. /\ pc = "init" /\ node \in pending /\ pending' = pending \ {node}
        /\ weighted_degree_odd_' = [weighted_degree_odd_ EXCEPT ![node] = s]
        /\ weighted_degree_0_' = [weighted_degree_0_ EXCEPT ![node] = s]
        /\ weighted_degree_even_' = weighted_degree_even_
        /\ pc' = pc /\ iteration' = iteration
    BY DEF EaSyIM!InitTask
  <1>3. UNCHANGED <<graph_, k, iterations_, solver, seed_set, selected_nodes_>>
        /\ weighted_degree_1_' = weighted_degree_1_ /\ result' = result
    BY DEF EaSyIM!InitTask, EaSyIM!input, EaSyIM!seeds, EaSyIMFrame
  <1>4. node \in NodeId
    BY EaSyIMOperators
  <1>5. s = EaSyIMScore(1, node) /\ s \in Nat
    <2>1. selected_nodes_ = {}
      BY <1>1, <1>2 DEF EaSyIMSeeds, Range
    <2> QED BY <1>1, <1>4, <2>1, EaSyIMFirstScore
  <1> HIDE DEF s
  <1>6. EaSyIMInput' /\ EaSyIMSeeds' /\ \A i, n : EaSyIMScore(i, n)' = EaSyIMScore(i, n)
    BY <1>1, <1>2, <1>3, EaSyIMSame
  <1>7. EaSyIMTypes'
    BY <1>1, <1>2, <1>3, <1>5 DEF EaSyIMTypes
  <1>8. EaSyIMFirst'
    <2>1. \A n \in NodeId \ pending' : weighted_degree_0_'[n] = EaSyIMScore(1, n)
                                       /\ weighted_degree_odd_'[n] = EaSyIMScore(1, n)
      BY <1>1, <1>2, <1>4, <1>5 DEF EaSyIMFirst, EaSyIMTypes
    <2>2. \A n \in NodeId : weighted_degree_even_'[n] = 0
      BY <1>1, <1>2 DEF EaSyIMFirst
    <2> QED BY <1>2, <1>6, <2>1, <2>2 DEF EaSyIMFirst
  <1>9. EaSyIMIterated'
    BY <1>2 DEF EaSyIMIterated
  <1> QED BY <1>6, <1>7, <1>8, <1>9 DEF EaSyIMInv

LEMMA EaSyIMInitDone ==
    ASSUME EaSyIMInv, EaSyIMFrame, EaSyIM!InitDone
    PROVE  EaSyIMInv'
  <1>1. EaSyIMInput /\ EaSyIMTypes /\ EaSyIMSeeds /\ EaSyIMFirst /\ EaSyIMIterated
    BY DEF EaSyIMInv
  <1>2. /\ pc = "init" /\ pending = {} /\ pc' = "while"
        /\ weighted_degree_odd_' = weighted_degree_odd_
        /\ weighted_degree_0_' = weighted_degree_0_
        /\ weighted_degree_even_' = weighted_degree_even_
        /\ iteration' = iteration /\ pending' = pending
    BY DEF EaSyIM!InitDone, EaSyIM!scores
  <1>3. UNCHANGED <<graph_, k, iterations_, solver, seed_set, selected_nodes_>>
        /\ weighted_degree_1_' = weighted_degree_1_ /\ result' = result
    BY DEF EaSyIM!InitDone, EaSyIM!input, EaSyIM!seeds, EaSyIMFrame
  <1>4. EaSyIMInput' /\ EaSyIMSeeds' /\ \A i, n : EaSyIMScore(i, n)' = EaSyIMScore(i, n)
    BY <1>1, <1>2, <1>3, EaSyIMSame
  <1>5. EaSyIMTypes'
    BY <1>1, <1>2, <1>3 DEF EaSyIMTypes
  <1>6. EaSyIMFirst'
    BY <1>1, <1>2, <1>4 DEF EaSyIMFirst
  <1>7. EaSyIMIterated'
    BY <1>2 DEF EaSyIMIterated
  <1> QED BY <1>4, <1>5, <1>6, <1>7 DEF EaSyIMInv

LEMMA EaSyIMBeginIterations ==
    ASSUME EaSyIMInv, EaSyIMFrame, EaSyIM!BeginIterations
    PROVE  EaSyIMInv'
  <1>1. EaSyIMInput /\ EaSyIMTypes /\ EaSyIMSeeds /\ EaSyIMFirst /\ EaSyIMIterated
    BY DEF EaSyIMInv
  <1>2. /\ pc = "while" /\ Len(seed_set) < k /\ iteration' = 2 /\ pending' = NodeId
        /\ pc' = "iterate"
        /\ weighted_degree_odd_' = weighted_degree_odd_
        /\ weighted_degree_0_' = weighted_degree_0_
        /\ weighted_degree_even_' = weighted_degree_even_
    BY EaSyIMOperators DEF EaSyIM!BeginIterations, EaSyIM!SeedsMissing, EaSyIM!scores
  <1>3. UNCHANGED <<graph_, k, iterations_, solver, seed_set, selected_nodes_>>
        /\ weighted_degree_1_' = weighted_degree_1_ /\ result' = result
    BY DEF EaSyIM!BeginIterations, EaSyIM!input, EaSyIM!seeds, EaSyIMFrame
  <1>4. EaSyIMInput' /\ \A i, n : EaSyIMScore(i, n)' = EaSyIMScore(i, n)
    BY <1>1, <1>3, EaSyIMSame
  <1>5. EaSyIMSeeds'
    BY <1>1, <1>2, <1>3 DEF EaSyIMSeeds
  <1>6. EaSyIMTypes'
    BY <1>1, <1>2, <1>3 DEF EaSyIMTypes
  <1>7. EaSyIMFirst'
    BY <1>1, <1>2, <1>4 DEF EaSyIMFirst
  <1>8. EaSyIMIterated'
    <2>1. EaSyIM!Lookup' = weighted_degree_odd_ /\ EaSyIMWrites' = weighted_degree_even_
      BY <1>2 DEF EaSyIM!Lookup, EaSyIMWrites
    <2>2. \A n \in NodeId : weighted_degree_odd_[n] = EaSyIMScore(1, n)
                            /\ weighted_degree_even_[n] = 0
      BY <1>1, <1>2 DEF EaSyIMFirst
    <2>3. \A n \in selected_nodes_ : EaSyIMScore(2, n) = 0
      BY DEF EaSyIMScore
    <2>4. \A n \in NodeId : EaSyIM!Lookup'[n] = EaSyIMScore(iteration' - 1, n)
      BY <1>2, <2>1, <2>2
    <2>5. \A n \in NodeId : n \notin pending' \/ n \in selected_nodes_' =>
                               EaSyIMWrites'[n] = EaSyIMScore(iteration', n)
      BY <1>2, <1>3, <2>1, <2>2, <2>3
    <2> QED BY <1>2, <1>4, <2>4, <2>5 DEF EaSyIMIterated
  <1> QED BY <1>4, <1>5, <1>6, <1>7, <1>8 DEF EaSyIMInv

LEMMA EaSyIMIterationTask ==
    ASSUME EaSyIMInv, EaSyIMFrame, NEW node \in EaSyIM!NodeId, EaSyIM!IterationTask(node)
    PROVE  EaSyIMInv'
  <1>1. EaSyIMInput /\ EaSyIMTypes /\ EaSyIMSeeds /\ EaSyIMFirst /\ EaSyIMIterated
    BY DEF EaSyIMInv
  <1> DEFINE s == EaSyIM!NextScore(node)
  <1>2. /\ pc = "iterate" /\ iteration <= iterations_ /\ node \in pending
        /\ pending' = pending \ {node}
        /\ weighted_degree_0_' = weighted_degree_0_
        /\ pc' = pc /\ iteration' = iteration
    BY DEF EaSyIM!IterationTask
  <1>3. UNCHANGED <<graph_, k, iterations_, solver, seed_set, selected_nodes_>>
        /\ weighted_degree_1_' = weighted_degree_1_ /\ result' = result
    BY DEF EaSyIM!IterationTask, EaSyIM!input, EaSyIM!seeds, EaSyIMFrame
  <1>4. node \in NodeId
    BY EaSyIMOperators
  <1>5. /\ iteration \in 2..4
        /\ \A u \in NodeId : EaSyIM!Lookup[u] = EaSyIMScore(iteration - 1, u)
        /\ \A n \in NodeId : n \notin pending \/ n \in selected_nodes_ =>
              EaSyIMWrites[n] = EaSyIMScore(iteration, n)
    BY <1>1, <1>2, EaSyIMConstants DEF EaSyIMTypes, EaSyIMIterated
  <1>6. node \notin selected_nodes_ => s = EaSyIMScore(iteration, node) /\ s \in Nat
    <2>1. iteration \in 1..4
      BY <1>5
    <2> QED BY <1>1, <1>4, <1>5, <2>1, EaSyIMNextScore, EaSyIMScoreType
  <1>7. IF node \in selected_nodes_
        THEN weighted_degree_even_' = weighted_degree_even_
             /\ weighted_degree_odd_' = weighted_degree_odd_
        ELSE IF iteration % 2 = 0
             THEN /\ weighted_degree_even_' = [weighted_degree_even_ EXCEPT ![node] = s]
                  /\ weighted_degree_odd_' = weighted_degree_odd_
             ELSE /\ weighted_degree_odd_' = [weighted_degree_odd_ EXCEPT ![node] = s]
                  /\ weighted_degree_even_' = weighted_degree_even_
    BY DEF EaSyIM!IterationTask, EaSyIM!WriteUpdated
  <1> HIDE DEF s
  <1>8. EaSyIMInput' /\ EaSyIMSeeds' /\ \A i, n : EaSyIMScore(i, n)' = EaSyIMScore(i, n)
    BY <1>1, <1>2, <1>3, EaSyIMSame
  <1>9. EaSyIMTypes'
    BY <1>1, <1>2, <1>3, <1>6, <1>7 DEF EaSyIMTypes
  <1>10. EaSyIMFirst'
    BY <1>1, <1>2, <1>8 DEF EaSyIMFirst
  <1>11. EaSyIM!Lookup' = EaSyIM!Lookup
    BY <1>2, <1>7 DEF EaSyIM!Lookup
  <1>12. EaSyIMWrites' = IF node \in selected_nodes_ THEN EaSyIMWrites
                         ELSE [EaSyIMWrites EXCEPT ![node] = s]
    BY <1>2, <1>7 DEF EaSyIMWrites
  <1>13. DOMAIN EaSyIMWrites = NodeId
    BY <1>1 DEF EaSyIMWrites, EaSyIMTypes
  <1>14. EaSyIMIterated'
    <2>1. \A n \in NodeId : n \notin pending' \/ n \in selected_nodes_ =>
                               EaSyIMWrites'[n] = EaSyIMScore(iteration, n)
      BY <1>2, <1>5, <1>6, <1>12, <1>13
    <2> QED BY <1>2, <1>3, <1>5, <1>8, <1>11, <2>1 DEF EaSyIMIterated
  <1> QED BY <1>8, <1>9, <1>10, <1>14 DEF EaSyIMInv

LEMMA EaSyIMIterationDone ==
    ASSUME EaSyIMInv, EaSyIMFrame, EaSyIM!IterationDone
    PROVE  EaSyIMInv'
  <1>1. EaSyIMInput /\ EaSyIMTypes /\ EaSyIMSeeds /\ EaSyIMFirst /\ EaSyIMIterated
    BY DEF EaSyIMInv
  <1>2. /\ pc = "iterate" /\ iteration <= iterations_ /\ pending = {}
        /\ iteration' = iteration + 1 /\ pending' = NodeId /\ pc' = pc
        /\ weighted_degree_odd_' = weighted_degree_odd_
        /\ weighted_degree_0_' = weighted_degree_0_
        /\ weighted_degree_even_' = weighted_degree_even_
    BY EaSyIMOperators DEF EaSyIM!IterationDone, EaSyIM!scores
  <1>3. UNCHANGED <<graph_, k, iterations_, solver, seed_set, selected_nodes_>>
        /\ weighted_degree_1_' = weighted_degree_1_ /\ result' = result
    BY DEF EaSyIM!IterationDone, EaSyIM!input, EaSyIM!seeds, EaSyIMFrame
  <1>4. EaSyIMInput' /\ EaSyIMSeeds' /\ \A i, n : EaSyIMScore(i, n)' = EaSyIMScore(i, n)
    BY <1>1, <1>2, <1>3, EaSyIMSame
  <1>5. iteration \in 2..4 /\ iteration' \in 2..5 /\ iteration' <= iterations_' + 1
    BY <1>1, <1>2, <1>3, EaSyIMConstants DEF EaSyIMTypes
  <1>6. EaSyIMTypes'
    BY <1>1, <1>2, <1>3, <1>5 DEF EaSyIMTypes
  <1>7. EaSyIMFirst'
    BY <1>1, <1>2, <1>4 DEF EaSyIMFirst
  <1>8. EaSyIMIterated'
    <2>1. \A n \in NodeId : EaSyIM!Lookup[n] = EaSyIMScore(iteration - 1, n)
                            /\ EaSyIMWrites[n] = EaSyIMScore(iteration, n)
      BY <1>1, <1>2 DEF EaSyIMIterated
    <2>2. EaSyIM!Lookup' = EaSyIMWrites /\ EaSyIMWrites' = EaSyIM!Lookup
      BY <1>2, <1>5 DEF EaSyIM!Lookup, EaSyIMWrites
    <2>3. iteration' - 1 = iteration
      BY <1>2, <1>5
    <2>4. \A n \in selected_nodes_ : EaSyIMScore(iteration - 1, n) = 0
                                     /\ EaSyIMScore(iteration', n) = 0
      BY DEF EaSyIMScore
    <2>5. \A n \in NodeId : EaSyIM!Lookup'[n] = EaSyIMScore(iteration' - 1, n)
      BY <2>1, <2>2, <2>3
    <2>6. \A n \in NodeId : n \notin pending' \/ n \in selected_nodes_' =>
                               EaSyIMWrites'[n] = EaSyIMScore(iteration', n)
      BY <1>2, <1>3, <2>1, <2>2, <2>4
    <2> QED BY <1>4, <2>5, <2>6 DEF EaSyIMIterated
  <1> QED BY <1>4, <1>6, <1>7, <1>8 DEF EaSyIMInv

LEMMA EaSyIMPick ==
    ASSUME EaSyIMInv, EaSyIMFrame, EaSyIM!Pick
    PROVE  EaSyIMInv'
  <1>1. EaSyIMInput /\ EaSyIMTypes /\ EaSyIMSeeds /\ EaSyIMFirst /\ EaSyIMIterated
    BY DEF EaSyIMInv
  <1>2. PICK best \in NodeId :
           /\ seed_set' = Append(seed_set, best)
           /\ selected_nodes_' = selected_nodes_ \cup {best}
           /\ weighted_degree_0_' = [weighted_degree_0_ EXCEPT ![best] = 0]
    BY EaSyIMOperators DEF EaSyIM!Pick, EaSyIM!WithoutDegree0
  <1>3. /\ pc = "iterate" /\ pending' = NodeId /\ pc' = "reset"
        /\ weighted_degree_odd_' = weighted_degree_odd_
        /\ weighted_degree_even_' = weighted_degree_even_
        /\ iteration' = iteration
    BY EaSyIMOperators DEF EaSyIM!Pick, EaSyIM!IterationsOver
  <1>4. UNCHANGED <<graph_, k, iterations_, solver>>
        /\ weighted_degree_1_' = weighted_degree_1_ /\ result' = result
    BY DEF EaSyIM!Pick, EaSyIM!input, EaSyIMFrame
  <1>5. EaSyIMInput'
    BY <1>1, <1>4 DEF EaSyIMInput
  <1>6. EaSyIMTypes'
    BY <1>1, <1>2, <1>3, <1>4 DEF EaSyIMTypes
  <1>7. EaSyIMSeeds'
    <2>1. seed_set \in Seq(NodeId) /\ selected_nodes_ = Range(seed_set) /\ Len(seed_set) < k
          /\ k \in Nat
      BY <1>1, <1>3, EaSyIMConstants DEF EaSyIMSeeds
    <2>2. seed_set' \in Seq(NodeId) /\ selected_nodes_' = Range(seed_set')
      BY <1>2, <2>1, PushRange
    <2>3. Len(seed_set') <= k'
      BY <1>2, <1>4, <2>1
    <2> QED BY <1>3, <2>2, <2>3 DEF EaSyIMSeeds
  <1>8. EaSyIMFirst'
    <2>1. ASSUME NEW n \in NodeId PROVE weighted_degree_0_'[n] = EaSyIMScore(1, n)'
      <3>1. weighted_degree_0_[n] = EaSyIMScore(1, n)
        BY <1>1, <1>3 DEF EaSyIMFirst
      <3>2. graph_ \in Graph /\ 1 \in 1..4
        BY <1>1, EaSyIMConstants
      <3>3. \A S : WalkScoreAvoiding(graph_, S, 1, n) = OneHop(graph_, n)
        BY <3>2, WalkScoreType
      <3>4. EaSyIMScore(1, n)' = IF n = best THEN 0 ELSE EaSyIMScore(1, n)
        BY <1>2, <1>4, <3>3 DEF EaSyIMScore
      <3>5. weighted_degree_0_'[n] = IF n = best THEN 0 ELSE weighted_degree_0_[n]
        BY <1>1, <1>2 DEF EaSyIMTypes
      <3> QED BY <3>1, <3>4, <3>5
    <2> QED BY <1>3, <2>1 DEF EaSyIMFirst
  <1>9. EaSyIMIterated'
    BY <1>3 DEF EaSyIMIterated
  <1> QED BY <1>5, <1>6, <1>7, <1>8, <1>9 DEF EaSyIMInv

LEMMA EaSyIMResetTask ==
    ASSUME EaSyIMInv, EaSyIMFrame, NEW node \in EaSyIM!NodeId, EaSyIM!ResetTask(node)
    PROVE  EaSyIMInv'
  <1>1. EaSyIMInput /\ EaSyIMTypes /\ EaSyIMSeeds /\ EaSyIMFirst /\ EaSyIMIterated
    BY DEF EaSyIMInv
  <1> DEFINE s == EaSyIM!ResetDegree(node)
  <1>2. /\ pc = "reset" /\ node \in pending /\ pending' = pending \ {node}
        /\ weighted_degree_odd_' = [weighted_degree_odd_ EXCEPT ![node] = s]
        /\ weighted_degree_0_' = weighted_degree_0_
        /\ weighted_degree_even_' = weighted_degree_even_
        /\ pc' = pc /\ iteration' = iteration
    BY DEF EaSyIM!ResetTask
  <1>3. UNCHANGED <<graph_, k, iterations_, solver, seed_set, selected_nodes_>>
        /\ weighted_degree_1_' = weighted_degree_1_ /\ result' = result
    BY DEF EaSyIM!ResetTask, EaSyIM!input, EaSyIM!seeds, EaSyIMFrame
  <1>4. node \in NodeId
    BY EaSyIMOperators
  <1>5. s = EaSyIMScore(1, node) /\ s \in Nat
    BY <1>1, <1>4, EaSyIMFirstScore, EaSyIMScoreType, 1 \in 1..4
  <1> HIDE DEF s
  <1>6. EaSyIMInput' /\ EaSyIMSeeds' /\ \A i, n : EaSyIMScore(i, n)' = EaSyIMScore(i, n)
    BY <1>1, <1>2, <1>3, EaSyIMSame
  <1>7. EaSyIMTypes'
    BY <1>1, <1>2, <1>3, <1>5 DEF EaSyIMTypes
  <1>8. EaSyIMFirst'
    <2>1. \A n \in NodeId \ pending' : weighted_degree_odd_'[n] = EaSyIMScore(1, n)
      BY <1>1, <1>2, <1>4, <1>5 DEF EaSyIMFirst, EaSyIMTypes
    <2> QED BY <1>1, <1>2, <1>6, <2>1 DEF EaSyIMFirst
  <1>9. EaSyIMIterated'
    BY <1>2 DEF EaSyIMIterated
  <1> QED BY <1>6, <1>7, <1>8, <1>9 DEF EaSyIMInv

LEMMA EaSyIMResetDone ==
    ASSUME EaSyIMInv, EaSyIMFrame, EaSyIM!ResetDone
    PROVE  EaSyIMInv'
  <1>1. EaSyIMInput /\ EaSyIMTypes /\ EaSyIMSeeds /\ EaSyIMFirst /\ EaSyIMIterated
    BY DEF EaSyIMInv
  <1>2. /\ pc = "reset" /\ pending = {} /\ pc' = "while"
        /\ weighted_degree_even_' = [n \in NodeId |-> 0]
        /\ weighted_degree_odd_' = weighted_degree_odd_
        /\ weighted_degree_0_' = weighted_degree_0_
        /\ iteration' = iteration /\ pending' = pending
    BY EaSyIMOperators DEF EaSyIM!ResetDone, EaSyIM!Zero
  <1>3. UNCHANGED <<graph_, k, iterations_, solver, seed_set, selected_nodes_>>
        /\ weighted_degree_1_' = weighted_degree_1_ /\ result' = result
    BY DEF EaSyIM!ResetDone, EaSyIM!input, EaSyIM!seeds, EaSyIMFrame
  <1>4. EaSyIMInput' /\ EaSyIMSeeds' /\ \A i, n : EaSyIMScore(i, n)' = EaSyIMScore(i, n)
    BY <1>1, <1>2, <1>3, EaSyIMSame
  <1>5. EaSyIMTypes'
    BY <1>1, <1>2, <1>3 DEF EaSyIMTypes
  <1>6. EaSyIMFirst'
    BY <1>1, <1>2, <1>4 DEF EaSyIMFirst
  <1>7. EaSyIMIterated'
    BY <1>2 DEF EaSyIMIterated
  <1> QED BY <1>4, <1>5, <1>6, <1>7 DEF EaSyIMInv

LEMMA EaSyIMReturn ==
    ASSUME EaSyIMInv, EaSyIMFrame, EaSyIM!Return
    PROVE  EaSyIMInv'
  <1>1. EaSyIMInput /\ EaSyIMTypes /\ EaSyIMSeeds /\ EaSyIMFirst /\ EaSyIMIterated
    BY DEF EaSyIMInv
  <1>2. /\ pc = "while" /\ pc' = "done"
        /\ weighted_degree_odd_' = weighted_degree_odd_
        /\ weighted_degree_0_' = weighted_degree_0_
        /\ weighted_degree_even_' = weighted_degree_even_
        /\ iteration' = iteration /\ pending' = pending
    BY DEF EaSyIM!Return, EaSyIM!scores
  <1>3. UNCHANGED <<graph_, k, iterations_, solver, seed_set, selected_nodes_>>
        /\ weighted_degree_1_' = weighted_degree_1_ /\ result' = result
    BY DEF EaSyIM!Return, EaSyIM!input, EaSyIM!seeds, EaSyIMFrame
  <1>4. EaSyIMInput' /\ EaSyIMSeeds' /\ \A i, n : EaSyIMScore(i, n)' = EaSyIMScore(i, n)
    BY <1>1, <1>2, <1>3, EaSyIMSame
  <1>5. EaSyIMTypes'
    BY <1>1, <1>2, <1>3 DEF EaSyIMTypes
  <1>6. EaSyIMFirst' /\ EaSyIMIterated'
    BY <1>1, <1>2, <1>4 DEF EaSyIMFirst, EaSyIMIterated
  <1> QED BY <1>4, <1>5, <1>6 DEF EaSyIMInv

LEMMA EaSyIMSteps ==
    ASSUME EaSyIMInv, EaSyIMFrame, EaSyIM!Next
    PROVE  EaSyIMInv'
  BY EaSyIMInitTask, EaSyIMInitDone, EaSyIMBeginIterations, EaSyIMIterationTask,
     EaSyIMIterationDone, EaSyIMPick, EaSyIMResetTask, EaSyIMResetDone, EaSyIMReturn
     DEF EaSyIM!Next

\* What the invariant says of the properties.
LEMMA EaSyIMShows ==
    ASSUME EaSyIMInv
    PROVE  TypeOK /\ ReadScoresAreExact /\ ResultIsTheTop /\ SettledRanksSolveTheEquation
  <1>1. EaSyIMInput /\ EaSyIMTypes /\ EaSyIMSeeds
    BY DEF EaSyIMInv
  <1>2. /\ solver = "EaSyIM" /\ solver \notin Ranking!Solvers /\ solver \notin Ranks!RankSolvers
        /\ solver # "Random" /\ graph_ \in Graph /\ k \in Nat
    BY <1>1, EaSyIMConstants DEF EaSyIMInput
  <1>3. EaSyIM!TypeOK
    <2>1. EaSyIM!Graph = Graph
      BY DEF EaSyIM!Graph, EaSyIM!Adjacency, EaSyIM!Edge, EaSyIM!Weight, EaSyIM!NodeId,
             Graph, Adjacency, Edge, Weight, NodeId
    <2>2. iteration \in Nat
      BY <1>1 DEF EaSyIMTypes
    <2> QED BY <1>1, <1>2, <2>1, <2>2, EaSyIMOperators
            DEF EaSyIM!TypeOK, EaSyIM!Score, EaSyIMInput, EaSyIMTypes, EaSyIMSeeds
  <1>4. TypeOK
    <2>1. result = << >> /\ weighted_degree_1_ \in [NodeId -> Nat]
      BY <1>1 DEF EaSyIMTypes
    <2>2. result \in Seq(NodeId) /\ Len(result) <= k
      BY <1>2, <2>1
    <2> QED BY <1>2, <1>3, <2>1, <2>2 DEF TypeOK
  <1>5. EaSyIM!ScoresAreExact
    BY EaSyIMLast, EaSyIMOperators DEF EaSyIM!ScoresAreExact
  <1> QED BY <1>2, <1>4, <1>5
          DEF ReadScoresAreExact, ResultIsTheTop, SettledRanksSolveTheEquation

\* A selection takes a node of the highest score.
LEMMA EaSyIMPicks ==
    ASSUME EaSyIMInv, EaSyIM!Next, seed_set' # seed_set, NEW n \in EaSyIM!NodeId
    PROVE  /\ EaSyIM!WalkScore(n) <= EaSyIM!WalkScore(EaSyIM!Last(seed_set'))
           /\ EaSyIM!WalkScore(n) > 0 => EaSyIM!Last(seed_set') \notin selected_nodes_
  <1>1. EaSyIM!Pick
    BY DEF EaSyIM!Next, EaSyIM!InitTask, EaSyIM!IterationTask, EaSyIM!ResetTask, EaSyIM!InitDone,
           EaSyIM!BeginIterations, EaSyIM!IterationDone, EaSyIM!ResetDone, EaSyIM!Return,
           EaSyIM!seeds
  <1>2. EaSyIM!IterationsOver /\ seed_set \in Seq(NodeId) /\ n \in NodeId
    BY <1>1, EaSyIMOperators DEF EaSyIM!Pick, EaSyIMInv, EaSyIMSeeds
  <1>3. PICK best \in NodeId : EaSyIM!IsBest(best) /\ seed_set' = Append(seed_set, best)
    BY <1>1, EaSyIMOperators DEF EaSyIM!Pick
  <1>4. EaSyIM!Last(seed_set') = best
    <2>1. Append(seed_set, best)[Len(Append(seed_set, best))] = best
      BY <1>2
    <2> QED BY <1>3, <2>1, EaSyIMOperators DEF Last
  <1> DEFINE w == EaSyIM!weighted_degree
  <1>5. /\ w[n] \in Nat /\ w[best] \in Nat
        /\ w[n] = EaSyIM!WalkScore(n) /\ w[best] = EaSyIM!WalkScore(best)
        /\ best \in selected_nodes_ => w[best] = 0
    BY <1>2, EaSyIMLast
  <1>6. w[n] < w[best] \/ w[n] = w[best]
    BY <1>2, <1>3, EaSyIMOperators DEF EaSyIM!IsBest
  <1> HIDE DEF w
  <1>7. w[n] <= w[best] /\ (w[n] > 0 => best \notin selected_nodes_)
    BY <1>5, <1>6
  <1> QED BY <1>4, <1>5, <1>7

-----------------------------------------------------------------------------
(* Random.                                                                 *)

\* The invariant of Random: the seeds are different nodes.
RandomInv == /\ solver = "Random" /\ k \in SeedNumbers
             /\ weighted_degree_1_ \in [NodeId -> Nat]
             /\ result \in Seq(NodeId) /\ IsInjective(result) /\ Len(result) <= k
             /\ pc = "done" => Len(result) = k

\* The initial states and each draw keep the invariant.
LEMMA RandomBegins ==
    ASSUME solver = "Random", RandomSolver!Init, NoDegrees
    PROVE  RandomInv
  <1>1. k \in SeedNumbers /\ k \in Nat /\ result = << >> /\ pc = "draw"
    BY ScoreAssumption DEF RandomSolver!Init
  <1>2. weighted_degree_1_ \in [NodeId -> Nat]
    BY RankingOperators DEF NoDegrees, Ranking!Zero
  <1>3. IsInjective(<< >>) /\ << >> \in Seq(NodeId) /\ Len(<< >>) = 0
    BY DEF IsInjective
  <1> QED BY <1>1, <1>2, <1>3 DEF RandomInv

LEMMA RandomDraws ==
    ASSUME RandomInv, NEW node \in NodeId, RandomSolver!Draw(node),
           UNCHANGED <<solver, weighted_degree_1_>>
    PROVE  RandomInv'
  <1>1. /\ pc = "draw" /\ Len(result) < k /\ k' = k /\ pc' = pc
        /\ result' = IF node \notin RandomSolver!Range(result) THEN Append(result, node)
                     ELSE result
    BY DEF RandomSolver!Draw, RandomSolver!IsNew
  <1>2. RandomSolver!Range(result) = Range(result)
    BY DEF RandomSolver!Range, Range
  <1>3. k \in Nat /\ result \in Seq(NodeId) /\ IsInjective(result)
    BY ScoreAssumption DEF RandomInv
  <1>4. CASE node \in Range(result)
    BY <1>1, <1>2, <1>4 DEF RandomInv
  <1>5. CASE node \notin Range(result)
    <2>1. result' = Append(result, node)
      BY <1>1, <1>2, <1>5
    <2>2. result' \in Seq(NodeId) /\ Len(result') <= k
      BY <1>1, <1>3, <2>1
    <2>3. IsInjective(result')
      BY <1>3, <1>5, <2>1, PushInjective
    <2> QED BY <1>1, <2>2, <2>3 DEF RandomInv
  <1> QED BY <1>4, <1>5

LEMMA RandomSteps ==
    ASSUME RandomInv, RandomSolver!Next, UNCHANGED <<solver, weighted_degree_1_>>
    PROVE  RandomInv'
  <1>1. ASSUME RandomSolver!Return PROVE RandomInv'
    <2>1. pc' = "done" /\ k' = k /\ result' = result /\ Len(result) >= k
      BY <1>1 DEF RandomSolver!Return
    <2>2. Len(result) = k
      <3>1. Len(result) <= k /\ Len(result) \in Nat /\ k \in Nat
        BY ScoreAssumption DEF RandomInv
      <3> QED BY <2>1, <3>1
    <2> QED BY <2>1, <2>2 DEF RandomInv
  <1>2. ASSUME NEW node \in RandomSolver!NodeId, RandomSolver!Draw(node) PROVE RandomInv'
    <2>1. node \in NodeId
      BY DEF RandomSolver!NodeId, NodeId
    <2> QED BY <1>2, <2>1, RandomDraws
  <1> QED BY <1>1, <1>2 DEF RandomSolver!Next

\* What the invariant says of the properties.
LEMMA RandomShows ==
    ASSUME RandomInv
    PROVE  TypeOK /\ ReadScoresAreExact /\ ResultIsTheTop /\ SettledRanksSolveTheEquation
  <1>1. /\ solver = "Random" /\ solver \notin Ranking!Solvers
        /\ solver \notin Ranks!RankSolvers /\ solver # "EaSyIM"
    BY DEF RandomInv, Ranking!Solvers, Ranks!RankSolvers
  <1>2. TypeOK
    BY <1>1 DEF RandomInv, TypeOK
  <1>3. ResultIsTheTop
    BY <1>1 DEF RandomInv, ResultIsTheTop
  <1> QED BY <1>1, <1>2, <1>3 DEF ReadScoresAreExact, SettledRanksSolveTheEquation

-----------------------------------------------------------------------------
(* PageRankSolver and WeightedPageRank: quotients.                         *)

\* Arithmetic on quotients.
LEMMA QuotientBounds ==
    ASSUME NEW a \in Nat, NEW d \in Nat \ {0}
    PROVE  /\ a \div d \in Nat
           /\ d * (a \div d) <= a /\ a < d * (a \div d) + d
           /\ a % d = 0 => d * (a \div d) = a
  OBVIOUS

LEMMA ProductsGrow == \A a, b, c \in Nat : a <= b => a * c <= b * c /\ c * a <= c * b
  OBVIOUS

LEMMA ProductsStep == \A d, q \in Int : d * (q + 1) = d * q + d
  OBVIOUS

LEMMA ProductsDiffer == \A d, p, q \in Int : d * (p - q) = d * p - d * q
  OBVIOUS

LEMMA QuotientsGrow ==
    ASSUME NEW a \in Nat, NEW b \in Nat, NEW d \in Nat \ {0}, a <= b
    PROVE  a \div d <= b \div d
  <1> DEFINE p == a \div d
             q == b \div d
  <1>1. p \in Nat /\ q \in Nat /\ d * p <= a /\ b < d * q + d
    BY QuotientBounds
  <1> HIDE DEF p, q
  <1>2. ASSUME ~(p <= q) PROVE FALSE
    <2>1. q + 1 \in Nat /\ q + 1 <= p /\ d \in Nat
      BY <1>1, <1>2
    <2>2. d * (q + 1) <= d * p /\ d * (q + 1) = d * q + d
      BY <1>1, <2>1, ProductsGrow, ProductsStep
    <2>3. d * p \in Nat /\ d * q \in Nat /\ d * q + d \in Nat
      BY <1>1, <2>1, NaturalProducts
    <2> QED BY <1>1, <2>2, <2>3
  <1> QED BY <1>1, <1>2 DEF p, q

\* The rank for a sum of shares: its type, and that it grows with the sum.
LEMMA RankType ==
    ASSUME NEW x \in Nat
    PROVE  /\ 15 * RankOne * One + 85 * x \in Nat /\ 100 * One \in Nat \ {0}
           /\ Ranks!RankOf(x) \in Nat
           /\ Ranks!RankOf(x) = (15 * RankOne * One + 85 * x) \div (100 * One)
  <1>1. RankOne \in Nat /\ One \in Nat \ {0} /\ One \in Nat
    BY ScoreAssumption, GraphAssumption
  <1>2. 15 * RankOne * One + 85 * x \in Nat
    BY <1>1, NaturalProducts
  <1>3. 100 * One \in Nat \ {0}
    BY <1>1
  <1>4. Ranks!RankOf(x) = (15 * RankOne * One + 85 * x) \div (100 * One)
    BY DEF Ranks!RankOf
  <1> DEFINE a == 15 * RankOne * One + 85 * x
             d == 100 * One
  <1> HIDE DEF a, d
  <1>5. a \in Nat /\ d \in Nat \ {0} => a \div d \in Nat
    BY QuotientBounds
  <1> QED BY <1>2, <1>3, <1>4, <1>5 DEF a, d

LEMMA RankGrows ==
    ASSUME NEW x \in Nat, NEW y \in Nat, x <= y
    PROVE  Ranks!RankOf(x) <= Ranks!RankOf(y)
  <1> DEFINE c == 15 * RankOne * One
             a == c + 85 * x
             b == c + 85 * y
             d == 100 * One
  <1>1. a \in Nat /\ b \in Nat /\ d \in Nat \ {0}
        /\ Ranks!RankOf(x) = a \div d /\ Ranks!RankOf(y) = b \div d
    BY RankType
  <1>2. c \in Nat
    BY ScoreAssumption, GraphAssumption, NaturalProducts
  <1>3. a <= b
    <2> HIDE DEF c
    <2> QED BY <1>2
  <1> HIDE DEF a, b, d
  <1>4. a \div d <= b \div d
    BY <1>1, <1>3, QuotientsGrow
  <1> QED BY <1>1, <1>4

\* A rank between those of two sums that are at most e away from a third sum.
LEMMA RankBetween ==
    ASSUME NEW low \in Nat, NEW high \in Nat, NEW sum \in Nat, NEW e \in Nat, NEW r \in Nat,
           sum <= low + e, high <= sum + e,
           Ranks!RankOf(low) <= r, r <= Ranks!RankOf(high)
    PROVE  100 * One * Ranks!Distance(r, Ranks!RankOf(sum)) <= 85 * e + 100 * One
  <1> DEFINE c == 15 * RankOne * One
             d == 100 * One
             q(x) == (c + 85 * x) \div d
  <1>1. c \in Nat /\ d \in Nat /\ d \in Nat \ {0}
    BY ScoreAssumption, GraphAssumption, NaturalProducts
  <1>2. ASSUME NEW x \in Nat
        PROVE  q(x) \in Nat /\ Ranks!RankOf(x) = q(x)
               /\ d * q(x) <= c + 85 * x /\ c + 85 * x < d * q(x) + d
    <2>1. c + 85 * x \in Nat /\ Ranks!RankOf(x) = q(x)
      BY RankType
    <2> HIDE DEF c, d
    <2>2. q(x) \in Nat /\ d * q(x) <= c + 85 * x /\ c + 85 * x < d * q(x) + d
      BY <1>1, <2>1, QuotientBounds
    <2> QED BY <2>1, <2>2
  <1> DEFINE l == q(low)
             h == q(high)
             s == q(sum)
  <1>3. /\ l \in Nat /\ h \in Nat /\ s \in Nat
        /\ Ranks!RankOf(low) = l /\ Ranks!RankOf(high) = h /\ Ranks!RankOf(sum) = s
        /\ c + 85 * low < d * l + d
        /\ d * h <= c + 85 * high
        /\ d * s <= c + 85 * sum /\ c + 85 * sum < d * s + d
    BY <1>2
  <1>4. l <= r /\ r <= h
    BY <1>3
  <1>5. 100 * One * Ranks!Distance(r, Ranks!RankOf(sum))
        = d * (IF r < s THEN s - r ELSE r - s)
    BY <1>3 DEF Ranks!Distance
  <1> HIDE DEF c, d, l, h, s, q
  <1>6. /\ d * l \in Nat /\ d * h \in Nat /\ d * s \in Nat /\ d * r \in Nat
        /\ d * l <= d * r /\ d * r <= d * h
    BY <1>1, <1>3, <1>4, NaturalProducts, ProductsGrow
  <1>7. d * r - d * s <= 85 * e + d /\ d * s - d * r <= 85 * e + d
    BY <1>1, <1>3, <1>6
  <1>8. d * (s - r) = d * s - d * r /\ d * (r - s) = d * r - d * s
    BY <1>1, <1>3, ProductsDiffer
  <1>9. d * (IF r < s THEN s - r ELSE r - s) <= 85 * e + d
    BY <1>7, <1>8
  <1> QED BY <1>5, <1>9 DEF d

-----------------------------------------------------------------------------
(* What the edges of a node bring in.                                      *)

\* The numbers of t are c times those of s; then so are their sums.
Scaled(t, s, c) == Len(t) = Len(s) /\ \A i \in 1..Len(s) : t[i] = s[i] * c

LEMMA SumScales ==
    ASSUME NEW s \in Seq(Int), NEW t \in Seq(Int), NEW c \in Int, Scaled(t, s, c)
    PROVE  SumOfSeq(t) = SumOfSeq(s) * c
  <1>1. PICK f \in [Nat -> Int] : /\ f[0] = 0 /\ f[Len(s)] = SumOfSeq(s)
                                  /\ \A i \in 1..Len(s) : f[i] = f[i - 1] + s[i]
    BY SumAddsUp DEF AddsUp
  <1> DEFINE g == [i \in Nat |-> f[i] * c]
  <1>2. Len(s) \in Nat /\ Len(t) = Len(s) /\ \A i \in 1..Len(s) : t[i] = s[i] * c
    BY DEF Scaled
  <1>3. \A a, b \in Int : (a + b) * c = a * c + b * c /\ a * c \in Int
    OBVIOUS
  <1>4. g \in [Nat -> Int] /\ \A i \in Nat : g[i] = f[i] * c
    BY <1>3
  <1> HIDE DEF g
  <1>5. g[0] = 0 /\ g[Len(t)] = SumOfSeq(s) * c
    BY <1>1, <1>2, <1>4
  <1>6. ASSUME NEW i \in 1..Len(t) PROVE g[i] = g[i - 1] + t[i]
    <2>1. i \in Nat /\ i - 1 \in Nat /\ i \in 1..Len(s) /\ s[i] \in Int
      BY <1>2, Elements
    <2>2. f[i] = f[i - 1] + s[i] /\ t[i] = s[i] * c /\ f[i - 1] \in Int
      BY <1>1, <1>2, <2>1
    <2>3. g[i] = f[i] * c /\ g[i - 1] = f[i - 1] * c
      BY <1>4, <2>1
    <2>4. (f[i - 1] + s[i]) * c = f[i - 1] * c + s[i] * c
      BY <1>3, <2>1, <2>2
    <2> QED BY <2>2, <2>3, <2>4
  <1>7. AddsUp(t, SumOfSeq(s) * c)
    BY <1>4, <1>5, <1>6 DEF AddsUp
  <1>8. AddsUp(t, SumOfSeq(t))
    BY SumAddsUp
  <1>9. SumOfSeq(s) * c \in Int
    BY <1>3, SumAddsUp
  <1> QED BY <1>7, <1>8, <1>9, AddsUpOnce

\* The operators of the instance, in terms of the graph.
LEMMA RanksOperators ==
    /\ Ranks!NodeId = NodeId
    /\ \A f : Ranks!IsInjective(f) = IsInjective(f)
    /\ \A S : Ranks!Min(S) = Min(S)
    /\ \A n : Ranks!Edges(n) = graph_.forward[n]
    /\ \A g, n : Ranks!getInDegreeOf(g, n) = Len(g.backward[n])
  <1>1. Ranks!NodeId = NodeId
    BY DEF NodeId, Ranks!NodeId
  <1>2. \A f : Ranks!IsInjective(f) = IsInjective(f)
    BY DEF IsInjective, Ranks!IsInjective
  <1>3. \A S : Ranks!Min(S) = Min(S)
    BY DEF Min, Ranks!Min
  <1>4. \A n : Ranks!Edges(n) = graph_.forward[n]
    BY DEF Ranks!Edges, Ranks!getEdgesOf
  <1>5. \A g, n : Ranks!getInDegreeOf(g, n) = Len(g.backward[n])
    BY DEF Ranks!getInDegreeOf, Ranks!getInverseEdgesOf
  <1> QED BY <1>1, <1>2, <1>3, <1>4, <1>5

\* What a run of a rank solver is given.
RanksInput == /\ graph_ \in RankGraphs /\ k \in RankSeedNumbers
              /\ solver \in Ranks!RankSolvers
              /\ iterations_ \in Nat /\ (solver = "WeightedPageRank" => iterations_ = 0)
              /\ abs_truncates \in BOOLEAN

\* The types of its state.
RanksTypes == /\ page_rank_ \in [NodeId -> Nat] /\ temp_rank_ \in [NodeId -> Nat]
              /\ probability_sum_ \in [NodeId -> Nat]
              /\ weighted_degree_1_ \in [NodeId -> Nat]
              /\ pc \in {"sums", "iteration", "tasks", "sort", "done"}
              /\ iteration \in Nat
              /\ pending \subseteq NodeId
              /\ reads \in [NodeId -> SUBSET Nat]
              /\ \A n \in NodeId : reads[n] \subseteq 1..Len(graph_.forward[n])
              /\ sums \in [NodeId -> Nat]

\* WeightedPageRank has computed the in-weights before its first iteration.
PartsKnown == solver = "WeightedPageRank" /\ pc # "sums" =>
                 \A n \in NodeId : probability_sum_[n] = Ranks!InWeight(graph_, n)

\* What comes over the edges of n, except for those in R, if the ranks are x.
WeighedParts(R, x, n) ==
    [i \in 1..Len(graph_.forward[n]) |->
        IF i \in R THEN 0
        ELSE x[graph_.forward[n][i].destination] * Ranks!Part(graph_.forward[n][i])]

\* The sum of them: what node n receives.
Weighed(R, x, n) == SumOfSeq(WeighedParts(R, x, n))

\* What the assumptions on the constants say of such a run.
LEMMA RanksConstants ==
    ASSUME RanksInput
    PROVE  /\ graph_ \in Graph /\ k \in Nat
           /\ solver \notin Ranking!Solvers /\ solver # "EaSyIM" /\ solver # "Random"
           /\ solver = "PageRank" \/ solver = "WeightedPageRank"
  BY ScoreAssumption DEF RanksInput, Ranking!Solvers, Ranks!RankSolvers

\* Every part of a rank is a whole number of units.
LEMMA RanksExact ==
    ASSUME RanksInput, NEW n \in NodeId, NEW i \in 1..Len(graph_.forward[n])
    PROVE  LET t == graph_.forward[n][i].destination
           IN  /\ Len(graph_.backward[t]) > 0 /\ One % Len(graph_.backward[t]) = 0
               /\ Ranks!InWeight(graph_, t) > 0
               /\ (graph_.forward[n][i].weight * One) % Ranks!InWeight(graph_, t) = 0
  <1>1. Ranks!PartsAreExact(graph_)
    BY PartsAssumption DEF RanksInput
  <1> QED BY <1>1, RanksOperators DEF Ranks!PartsAreExact

\* The weight of the in-edges of a node is a number.
LEMMA InWeightType ==
    ASSUME NEW g \in Graph, NEW n \in NodeId
    PROVE  Ranks!InWeight(g, n) \in Nat
  <1> DEFINE l == Len(g.backward[n])
             w(i) == g.backward[n][i].weight
             s == [i \in 1..l |-> w(i)]
  <1>1. l \in Nat /\ \A i \in 1..l : w(i) \in Nat
    BY Spans, EdgeType
  <1>2. Ranks!InWeight(g, n) = SumOfSeq(s)
    BY DEF Ranks!InWeight, Ranks!SumOver, Ranks!SumOfSeq, Ranks!getInverseEdgesOf, SumOfSeq
  <1> HIDE DEF l, w
  <1>3. s \in Seq(Int) /\ Len(s) = l /\ \A i \in 1..l : s[i] >= 0
    BY <1>1
  <1> HIDE DEF s
  <1> QED BY <1>2, <1>3, SumIsNatural

\* A share of a rank is the rank times the part, with no remainder.
LEMMA ExactShare ==
    ASSUME NEW r \in Nat, NEW a \in Nat, NEW d \in Nat, d > 0, a % d = 0
    PROVE  a \div d \in Nat /\ (r * a) \div d = r * (a \div d)
  <1> DEFINE q == a \div d
  <1>1. q \in Nat /\ d * q = a
    BY QuotientBounds
  <1> HIDE DEF q
  <1>2. r * (d * q) = d * (r * q) /\ r * q \in Int
    BY <1>1, ProductsCommute, NaturalProducts
  <1>3. (d * (r * q)) \div d = r * q
    BY <1>2, ExactQuotient
  <1> QED BY <1>1, <1>2, <1>3 DEF q

\* Every part is exact, so that a share is the part of the rank.
LEMMA RankShares ==
    ASSUME RanksInput, RanksTypes, PartsKnown, pc # "sums",
           NEW n \in NodeId, NEW i \in 1..Len(graph_.forward[n])
    PROVE  LET e == graph_.forward[n][i]
           IN  /\ e.destination \in NodeId
               /\ Ranks!Part(e) \in Nat
               /\ Ranks!Share(e) = page_rank_[e.destination] * Ranks!Part(e)
  <1> DEFINE e == graph_.forward[n][i]
             t == e.destination
             p == Ranks!Part(e)
             r == page_rank_[t]
  <1>1. graph_ \in Graph /\ One \in Nat \ {0} /\ One \in Nat
    BY RanksConstants, GraphAssumption
  <1>2. t \in NodeId /\ e.weight \in Nat
    BY <1>1, Spans, EdgeType
  <1>3. r \in Nat
    BY <1>2 DEF RanksTypes
  <1>4. ASSUME NEW a \in Nat, NEW d \in Nat, d > 0, a % d = 0
        PROVE  a \div d \in Nat /\ (r * a) \div d = r * (a \div d)
    BY <1>3, <1>4, ExactShare
  <1>5. CASE solver = "PageRank"
    <2> DEFINE d == Len(graph_.backward[t])
    <2>1. d \in Nat /\ d > 0 /\ One % d = 0
      BY <1>1, <1>2, Spans, RanksExact
    <2>2. p = One \div d /\ Ranks!Share(e) = (r * One) \div d
      BY <1>5, RanksOperators DEF Ranks!Part, Ranks!Share
    <2> HIDE DEF d, e, t, p, r
    <2>3. p \in Nat /\ Ranks!Share(e) = r * p
      BY <1>1, <1>4, <2>1, <2>2
    <2> QED BY <1>2, <2>3 DEF p, r, t, e
  <1>6. CASE solver = "WeightedPageRank"
    <2> DEFINE d == Ranks!InWeight(graph_, t)
               a == e.weight * One
    <2>1. d \in Nat /\ d > 0 /\ a % d = 0 /\ a \in Nat
      BY <1>1, <1>2, InWeightType, RanksExact, NaturalProducts
    <2>2. probability_sum_[t] = d
      BY <1>2, <1>6 DEF PartsKnown
    <2>3. p = a \div d /\ Ranks!Share(e) = (r * a) \div d
      BY <1>6, <2>2 DEF Ranks!Part, Ranks!Share
    <2> HIDE DEF d, a, e, t, p, r
    <2>4. p \in Nat /\ Ranks!Share(e) = r * p
      BY <1>4, <2>1, <2>3
    <2> QED BY <1>2, <2>4 DEF p, r, t, e
  <1> QED BY <1>5, <1>6, RanksConstants

\* The precalculated sums are there, so that parts are what they should be.
RanksKnown == RanksInput /\ RanksTypes /\ PartsKnown /\ pc # "sums"

\* What a node receives is a natural number.
LEMMA WeighedType ==
    ASSUME RanksKnown, NEW R, NEW x \in [NodeId -> Nat], NEW n \in NodeId
    PROVE  /\ WeighedParts(R, x, n) \in Seq(Int)
           /\ Len(WeighedParts(R, x, n)) = Len(graph_.forward[n])
           /\ \A i \in 1..Len(graph_.forward[n]) : WeighedParts(R, x, n)[i] \in Nat
           /\ Weighed(R, x, n) \in Nat
  <1> DEFINE l == Len(graph_.forward[n])
             w(i) == IF i \in R THEN 0
                     ELSE x[graph_.forward[n][i].destination] * Ranks!Part(graph_.forward[n][i])
             s == WeighedParts(R, x, n)
  <1>1. l \in Nat
    BY RanksConstants, Spans DEF RanksKnown
  <1>2. ASSUME NEW i \in 1..l PROVE w(i) \in Nat
    <2>1. x[graph_.forward[n][i].destination] \in Nat /\ Ranks!Part(graph_.forward[n][i]) \in Nat
      BY RankShares DEF RanksKnown
    <2> QED BY <2>1, NaturalProducts
  <1>3. s = [i \in 1..l |-> w(i)]
    BY DEF WeighedParts
  <1>4. Weighed(R, x, n) = SumOfSeq(s)
    BY DEF Weighed
  <1> HIDE DEF l, w, s
  <1>5. s \in Seq(Int) /\ Len(s) = l /\ \A i \in 1..l : s[i] \in Nat
    BY <1>1, <1>2, <1>3
  <1>6. SumOfSeq(s) \in Nat
    <2>1. \A i \in 1..Len(s) : s[i] >= 0
      BY <1>5
    <2> QED BY <1>5, <2>1, SumIsNatural
  <1> QED BY <1>4, <1>5, <1>6 DEF l, s

\* SumOfShares is what a node receives of the ranks stored now.
LEMMA WeighedShares ==
    ASSUME RanksKnown, NEW n \in NodeId
    PROVE  Ranks!SumOfShares(n) = Weighed({}, page_rank_, n)
  <1>1. Ranks!SumOfShares(n)
        = SumOfSeq([i \in 1..Len(graph_.forward[n]) |-> Ranks!Share(graph_.forward[n][i])])
    BY DEF Ranks!SumOfShares, Ranks!SumOver, Ranks!SumOfSeq, Ranks!Edges, Ranks!getEdgesOf,
           SumOfSeq
  <1>2. \A i \in 1..Len(graph_.forward[n]) : Ranks!Share(graph_.forward[n][i])
           = page_rank_[graph_.forward[n][i].destination] * Ranks!Part(graph_.forward[n][i])
    BY RankShares DEF RanksKnown
  <1>3. [i \in 1..Len(graph_.forward[n]) |-> Ranks!Share(graph_.forward[n][i])]
        = WeighedParts({}, page_rank_, n)
    BY <1>2 DEF WeighedParts
  <1> QED BY <1>1, <1>3 DEF Weighed

\* Higher ranks have higher sums.
LEMMA WeighedGrows ==
    ASSUME RanksKnown, NEW R, NEW x \in [NodeId -> Nat], NEW y \in [NodeId -> Nat],
           \A t \in NodeId : x[t] <= y[t], NEW n \in NodeId
    PROVE  Weighed(R, x, n) <= Weighed(R, y, n)
  <1> DEFINE s == WeighedParts(R, x, n)
             t == WeighedParts(R, y, n)
  <1>1. s \in Seq(Int) /\ t \in Seq(Int) /\ Len(s) = Len(t) /\ Len(s) = Len(graph_.forward[n])
    BY WeighedType
  <1>2. ASSUME NEW i \in 1..Len(graph_.forward[n]) PROVE s[i] <= t[i]
    <2> DEFINE u == graph_.forward[n][i].destination
               p == Ranks!Part(graph_.forward[n][i])
    <2>1. u \in NodeId /\ p \in Nat
      BY RankShares DEF RanksKnown
    <2>2. s[i] = (IF i \in R THEN 0 ELSE x[u] * p) /\ t[i] = (IF i \in R THEN 0 ELSE y[u] * p)
      BY DEF WeighedParts
    <2> HIDE DEF u, p, s, t
    <2>3. x[u] \in Nat /\ y[u] \in Nat /\ x[u] <= y[u]
      BY <2>1
    <2>4. x[u] * p <= y[u] * p
      BY <2>1, <2>3, ProductsGrow
    <2> QED BY <2>2, <2>4
  <1> HIDE DEF s, t
  <1>3. AtMost(s, t)
    BY <1>1, <1>2 DEF AtMost
  <1>4. SumOfSeq(s) <= SumOfSeq(t)
    BY <1>1, <1>3, SumIsMonotone
  <1> QED BY <1>4 DEF Weighed, s, t

\* Ranks that are not more than c higher have sums that are not much higher.
LEMMA WeighedClose ==
    ASSUME RanksKnown, NEW x \in [NodeId -> Nat], NEW y \in [NodeId -> Nat], NEW c \in Nat,
           \A t \in NodeId : y[t] <= x[t] + c, NEW n \in NodeId
    PROVE  /\ Ranks!Sensitivity(n) \in Nat
           /\ Weighed({}, y, n) <= Weighed({}, x, n) + c * Ranks!Sensitivity(n)
  <1> DEFINE l == Len(graph_.forward[n])
             e(i) == Ranks!Part(graph_.forward[n][i])
             p == [i \in 1..l |-> e(i)]
             q == [i \in 1..l |-> e(i) * c]
             z == [t \in NodeId |-> x[t] + c]
             s == WeighedParts({}, x, n)
             u == WeighedParts({}, z, n)
  <1>1. l \in Nat /\ \A i \in 1..l : e(i) \in Nat
    BY RanksConstants, Spans, RankShares DEF RanksKnown
  <1>2. Ranks!Sensitivity(n) = SumOfSeq(p)
    BY DEF Ranks!Sensitivity, Ranks!SumOver, Ranks!SumOfSeq, Ranks!Edges, Ranks!getEdgesOf,
           SumOfSeq
  <1>3. z \in [NodeId -> Nat] /\ \A t \in NodeId : z[t] = x[t] + c
    OBVIOUS
  <1> HIDE DEF z
  <1>4. /\ s \in Seq(Int) /\ u \in Seq(Int) /\ Len(s) = l /\ Len(u) = l
        /\ Weighed({}, x, n) = SumOfSeq(s) /\ Weighed({}, z, n) = SumOfSeq(u)
    BY <1>3, WeighedType DEF Weighed
  <1>5. ASSUME NEW i \in 1..l PROVE u[i] = s[i] + e(i) * c
    <2> DEFINE t == graph_.forward[n][i].destination
    <2>1. t \in NodeId /\ e(i) \in Nat
      BY RankShares DEF RanksKnown
    <2>2. s[i] = x[t] * e(i) /\ u[i] = z[t] * e(i)
      BY DEF WeighedParts
    <2> HIDE DEF t, e, s, u
    <2>3. x[t] \in Nat /\ z[t] = x[t] + c
      BY <1>3, <2>1
    <2>4. \A a, b, d \in Int : (a + b) * d = a * d + d * b
      OBVIOUS
    <2>5. (x[t] + c) * e(i) = x[t] * e(i) + e(i) * c
      BY <2>1, <2>3, <2>4
    <2> QED BY <2>2, <2>3, <2>5
  <1> HIDE DEF l, e, s, u
  <1>6. p \in Seq(Int) /\ Len(p) = l /\ \A i \in 1..l : p[i] = e(i) /\ p[i] >= 0
    BY <1>1
  <1>7. q \in Seq(Int) /\ Len(q) = l /\ \A i \in 1..l : q[i] = e(i) * c
    <2>1. \A i \in 1..l : e(i) * c \in Int
      BY <1>1, NaturalProducts
    <2> QED BY <1>1, <2>1
  <1> HIDE DEF p, q
  <1>8. SumOfSeq(p) \in Nat
    BY <1>6, SumIsNatural
  <1>9. SumOfSeq(q) = SumOfSeq(p) * c
    <2>1. Scaled(q, p, c)
      BY <1>6, <1>7 DEF Scaled
    <2> QED BY <1>6, <1>7, <2>1, SumScales
  <1>10. SumOfSeq(u) = SumOfSeq(s) + SumOfSeq(q)
    <2>1. Together(u, s, q)
      BY <1>4, <1>5, <1>7 DEF Together
    <2> QED BY <1>4, <1>7, <2>1, SumOfBoth
  <1>11. Weighed({}, y, n) <= Weighed({}, z, n)
    BY <1>3, WeighedGrows
  <1>12. SumOfSeq(p) * c = c * SumOfSeq(p)
    BY <1>8
  <1> QED BY <1>2, <1>4, <1>8, <1>9, <1>10, <1>11, <1>12

\* Nothing is read at first; each edge that is read adds its share.
LEMMA WeighedNothing ==
    ASSUME RanksKnown, NEW x \in [NodeId -> Nat], NEW n \in NodeId
    PROVE  Weighed(1..Len(graph_.forward[n]), x, n) = 0
  <1> DEFINE s == WeighedParts(1..Len(graph_.forward[n]), x, n)
  <1>1. s \in Seq(Int) /\ Len(s) = Len(graph_.forward[n])
    BY WeighedType
  <1>2. \A i \in 1..Len(s) : s[i] = 0
    BY <1>1 DEF WeighedParts
  <1> HIDE DEF s
  <1>3. SumOfSeq(s) = 0
    BY <1>1, <1>2, SumOfZeros
  <1> QED BY <1>3 DEF Weighed, s

\* Reading an edge moves its share from what is to be read to what was read.
LEMMA WeighedMore ==
    ASSUME RanksKnown, NEW x \in [NodeId -> Nat], NEW n \in NodeId, NEW R, NEW i \in R,
           i \in 1..Len(graph_.forward[n])
    PROVE  LET e == graph_.forward[n][i]
           IN  Weighed(R \ {i}, x, n) = Weighed(R, x, n) + x[e.destination] * Ranks!Part(e)
  <1> DEFINE e == graph_.forward[n][i]
             d == x[e.destination] * Ranks!Part(e)
             s == WeighedParts(R, x, n)
             t == WeighedParts(R \ {i}, x, n)
  <1>1. /\ s \in Seq(Int) /\ t \in Seq(Int) /\ Len(s) = Len(graph_.forward[n])
        /\ Len(t) = Len(graph_.forward[n])
    BY WeighedType
  <1>2. d \in Int
    <2>1. x[e.destination] \in Nat /\ Ranks!Part(e) \in Nat
      BY RankShares DEF RanksKnown
    <2> QED BY <2>1, NaturalProducts
  <1>3. \A j \in 1..Len(graph_.forward[n]) : t[j] = IF j = i THEN s[j] + d ELSE s[j]
    <2>1. ASSUME NEW j \in 1..Len(graph_.forward[n]), j # i PROVE t[j] = s[j]
      BY <2>1 DEF WeighedParts
    <2>2. t[i] = d /\ s[i] = 0
      BY DEF WeighedParts
    <2> HIDE DEF d, s, t
    <2> QED BY <1>2, <2>1, <2>2
  <1> HIDE DEF d, s, t
  <1>4. Grown(t, s, i, d)
    BY <1>1, <1>3 DEF Grown
  <1>5. SumOfSeq(t) = SumOfSeq(s) + d
    BY <1>1, <1>2, <1>4, SumGrows
  <1> QED BY <1>5 DEF Weighed, s, t, d

-----------------------------------------------------------------------------
(* The iterations.                                                         *)

\* The lesser and the greater of the two ranks that a node has in an iteration.
Lower(p, q) == [t \in NodeId |-> IF p[t] <= q[t] THEN p[t] ELSE q[t]]

Higher(p, q) == [t \in NodeId |-> IF p[t] <= q[t] THEN q[t] ELSE p[t]]

\* The task of n still reads: its rank is the copied one, and its sum is between those of
\* the lower and of the higher of the two values that each rank can have had.
TaskReads(n) ==
    /\ page_rank_[n] = temp_rank_[n]
    /\ Weighed(reads[n], Lower(page_rank_, temp_rank_), n) <= sums[n]
    /\ sums[n] <= Weighed(reads[n], Higher(page_rank_, temp_rank_), n)

\* The task of n has written its rank.
TaskWrote(n) ==
    /\ Ranks!RankOf(Weighed({}, Lower(page_rank_, temp_rank_), n)) <= page_rank_[n]
    /\ page_rank_[n] <= Ranks!RankOf(Weighed({}, Higher(page_rank_, temp_rank_), n))

\* Which phases the solvers have, and what their loops have left to read.
RanksPhases == /\ solver = "PageRank" => pc # "sums"
               /\ solver = "WeightedPageRank" => \A n \in NodeId : reads[n] = {}

\* Each task of PageRankSolver has read, or written, a rank between the two.
RanksTasks == solver = "PageRank" /\ pc = "tasks" =>
                 /\ \A n \in pending : TaskReads(n)
                 /\ \A n \in NodeId \ pending : TaskWrote(n)

\* The tasks of WeightedPageRank write a second vector.
RanksSecond == solver = "WeightedPageRank" /\ pc = "tasks" =>
                  \A n \in NodeId \ pending :
                     temp_rank_[n] = Ranks!RankOf(Weighed({}, page_rank_, n))

\* The rank of n is close to the one that its equation gives.
RankSettled(n) ==
    100 * One * Ranks!Distance(page_rank_[n], Ranks!RankOf(Weighed({}, page_rank_, n)))
        <= 85 * Ranks!Tolerance * Ranks!Sensitivity(n) + 100 * One

\* Once the loop has stopped by itself, all ranks have settled.
RanksSettled == pc \in {"sort", "done"} /\ iterations_ = 0 => \A n \in NodeId : RankSettled(n)

\* The result is the top of the ranks.
RanksResult == /\ pc # "done" => result = << >>
               /\ pc = "done" => IsTop(result, Ranks!Size, page_rank_)

\* The invariant of PageRank and WeightedPageRank.
RanksInv == /\ RanksInput /\ RanksTypes /\ PartsKnown
            /\ RanksPhases /\ RanksTasks /\ RanksSecond /\ RanksSettled /\ RanksResult

\* What the steps of this solver leave to the others.
RanksFrame == UNCHANGED weighted_degree_1_

\* The initial states keep the invariant.
LEMMA RanksBegin ==
    ASSUME Ranks!Init, weighted_degree_1_ \in [NodeId -> Nat]
    PROVE  RanksInv
  <1>1. RanksInput
    <2>1. /\ graph_ \in RankGraphs /\ k \in RankSeedNumbers /\ solver \in Ranks!RankSolvers
          /\ iterations_ \in IF solver = "PageRank" THEN RankIterations ELSE {0}
      BY DEF Ranks!Init
    <2>2. abs_truncates \in BOOLEAN
      <3>1. abs_truncates \in IF iterations_ = 0 THEN BOOLEAN ELSE {FALSE}
        BY DEF Ranks!Init
      <3>2. CASE iterations_ = 0
        BY <3>1, <3>2
      <3>3. CASE iterations_ # 0
        BY <3>1, <3>3
      <3> QED BY <3>2, <3>3
    <2>3. iterations_ \in Nat /\ (solver = "WeightedPageRank" => iterations_ = 0)
      BY <2>1, ScoreAssumption
    <2> QED BY <2>1, <2>2, <2>3 DEF RanksInput
  <1>2. RanksTypes
    BY ScoreAssumption, RanksOperators DEF Ranks!Init, Ranks!NoRank, Ranks!NoReads, RanksTypes
  <1>3. PartsKnown /\ RanksPhases
    BY RanksOperators DEF Ranks!Init, Ranks!NoReads, PartsKnown, RanksPhases
  <1>4. pc \in {"sums", "iteration"} /\ result = << >>
    BY DEF Ranks!Init
  <1> QED BY <1>1, <1>2, <1>3, <1>4
          DEF RanksInv, RanksTasks, RanksSecond, RanksSettled, RanksResult

\* A step that leaves the input alone, and what is precalculated.
LEMMA RanksSame ==
    ASSUME RanksInv, UNCHANGED <<graph_, k, solver, iterations_, abs_truncates>>,
           UNCHANGED probability_sum_
    PROVE  /\ RanksInput'
           /\ \A R, x, n : Weighed(R, x, n)' = Weighed(R, x, n)
           /\ \A n : Ranks!Sensitivity(n)' = Ranks!Sensitivity(n)
           /\ Ranks!Tolerance' = Ranks!Tolerance /\ Ranks!Size' = Ranks!Size
           /\ pc # "sums" => PartsKnown'
  <1>1. RanksInput'
    BY DEF RanksInv, RanksInput, Ranks!RankSolvers
  <1>2. \A R, x, n : Weighed(R, x, n)' = Weighed(R, x, n)
    BY DEF Weighed, WeighedParts, Ranks!Part, Ranks!getInDegreeOf, Ranks!getInverseEdgesOf
  <1>3. \A n : Ranks!Sensitivity(n)' = Ranks!Sensitivity(n)
    BY DEF Ranks!Sensitivity, Ranks!SumOver, Ranks!Part, Ranks!Edges, Ranks!getEdgesOf,
           Ranks!getInDegreeOf, Ranks!getInverseEdgesOf
  <1>4. Ranks!Tolerance' = Ranks!Tolerance /\ Ranks!Size' = Ranks!Size
    BY DEF Ranks!Tolerance, Ranks!Size
  <1>5. pc # "sums" => PartsKnown'
    <2>1. \A n : Ranks!InWeight(graph_, n)' = Ranks!InWeight(graph_, n)
      BY DEF Ranks!InWeight, Ranks!SumOver
    <2> QED BY <2>1 DEF RanksInv, PartsKnown
  <1> QED BY <1>1, <1>2, <1>3, <1>4, <1>5

\* The actions keep the invariant, one lemma for each.
LEMMA RanksPrecalculate ==
    ASSUME RanksInv, RanksFrame, Ranks!precalculateWeightedSums
    PROVE  RanksInv'
  <1>1. RanksInput /\ RanksTypes /\ RanksPhases /\ RanksResult
    BY DEF RanksInv
  <1>2. /\ pc = "sums" /\ pc' = "iteration"
        /\ probability_sum_' = [n \in NodeId |-> Ranks!InWeight(graph_, n)]
    BY RanksOperators DEF Ranks!precalculateWeightedSums
  <1>3. UNCHANGED <<graph_, k, solver, iterations_, abs_truncates>>
        /\ UNCHANGED <<page_rank_, temp_rank_, result, iteration, pending, reads, sums>>
        /\ weighted_degree_1_' = weighted_degree_1_
    BY DEF Ranks!precalculateWeightedSums, Ranks!input, Ranks!ranks, Ranks!tasks, RanksFrame
  <1>4. RanksInput'
    BY <1>1, <1>3 DEF RanksInput, Ranks!RankSolvers
  <1>5. \A n \in NodeId : Ranks!InWeight(graph_, n) \in Nat
    BY <1>1, RanksConstants, InWeightType
  <1>6. RanksTypes'
    BY <1>1, <1>2, <1>3, <1>5 DEF RanksTypes
  <1>7. PartsKnown'
    <2>1. \A n : Ranks!InWeight(graph_, n)' = Ranks!InWeight(graph_, n)
      BY <1>3 DEF Ranks!InWeight, Ranks!SumOver
    <2> QED BY <1>2, <1>3, <2>1 DEF PartsKnown
  <1>8. RanksPhases'
    BY <1>1, <1>2, <1>3 DEF RanksPhases
  <1>9. RanksResult'
    BY <1>1, <1>2, <1>3 DEF RanksResult
  <1> QED BY <1>2, <1>4, <1>6, <1>7, <1>8, <1>9
          DEF RanksInv, RanksTasks, RanksSecond, RanksSettled

LEMMA RanksBeginIteration ==
    ASSUME RanksInv, RanksFrame, Ranks!BeginIteration
    PROVE  RanksInv'
  <1>1. RanksInput /\ RanksTypes /\ PartsKnown /\ RanksPhases /\ RanksResult
    BY DEF RanksInv
  <1>2. /\ pc = "iteration" /\ pc' = "tasks" /\ pending' = NodeId
        /\ temp_rank_' = IF solver = "PageRank" THEN page_rank_ ELSE temp_rank_
        /\ reads' = IF solver = "PageRank" THEN [n \in NodeId |-> DOMAIN graph_.forward[n]]
                    ELSE [n \in NodeId |-> {}]
        /\ sums' = [n \in NodeId |-> 0]
    BY RanksOperators DEF Ranks!BeginIteration, Ranks!NoReads, Ranks!NoRank, Ranks!Copy
  <1>3. UNCHANGED <<graph_, k, solver, iterations_, abs_truncates>>
        /\ UNCHANGED probability_sum_ /\ UNCHANGED <<page_rank_, result, iteration>>
        /\ weighted_degree_1_' = weighted_degree_1_
    BY DEF Ranks!BeginIteration, Ranks!input, RanksFrame
  <1>4. RanksInput' /\ PartsKnown' /\ \A R, x, n : Weighed(R, x, n)' = Weighed(R, x, n)
    BY <1>2, <1>3, RanksSame
  <1>5. \A n \in NodeId : /\ DOMAIN graph_.forward[n] = 1..Len(graph_.forward[n])
                          /\ DOMAIN graph_.forward[n] \in SUBSET Nat
    <2>1. ASSUME NEW n \in NodeId PROVE graph_.forward[n] \in Seq(Edge)
      BY <1>1, RanksConstants, Spans
    <2> HIDE DEF Edge
    <2> QED BY <2>1
  <1>6. RanksTypes'
    <2>1. reads' \in [NodeId -> SUBSET Nat]
          /\ \A n \in NodeId : reads'[n] \subseteq 1..Len(graph_.forward[n])
      BY <1>2, <1>5
    <2>2. temp_rank_' \in [NodeId -> Nat] /\ sums' \in [NodeId -> Nat] /\ pending' \subseteq NodeId
      BY <1>1, <1>2 DEF RanksTypes
    <2> QED BY <1>1, <1>2, <1>3, <2>1, <2>2 DEF RanksTypes
  <1>7. RanksPhases'
    BY <1>1, <1>2, <1>3 DEF RanksPhases
  <1>8. RanksTasks'
    <2> SUFFICES ASSUME solver = "PageRank", NEW n \in NodeId PROVE TaskReads(n)'
      BY <1>2, <1>3 DEF RanksTasks
    <2>1. Lower(page_rank_, temp_rank_)' = page_rank_ /\ Higher(page_rank_, temp_rank_)' = page_rank_
          /\ page_rank_ \in [NodeId -> Nat]
      BY <1>1, <1>2, <1>3 DEF Lower, Higher, RanksTypes
    <2>2. RanksKnown
      BY <1>1, <1>2 DEF RanksKnown
    <2>3. Weighed(1..Len(graph_.forward[n]), page_rank_, n) = 0
      BY <2>1, <2>2, WeighedNothing
    <2>4. reads'[n] = 1..Len(graph_.forward[n]) /\ sums'[n] = 0
          /\ page_rank_'[n] = temp_rank_'[n]
      BY <1>2, <1>3, <1>5
    <2> QED BY <1>4, <2>1, <2>3, <2>4 DEF TaskReads
  <1>9. RanksResult'
    BY <1>1, <1>2, <1>3 DEF RanksResult
  <1> QED BY <1>2, <1>4, <1>6, <1>7, <1>8, <1>9 DEF RanksInv, RanksSecond, RanksSettled

\* The lesser and the greater of two ranks are ranks around both.
LEMMA Between ==
    ASSUME NEW p \in [NodeId -> Nat], NEW q \in [NodeId -> Nat]
    PROVE  /\ Lower(p, q) \in [NodeId -> Nat] /\ Higher(p, q) \in [NodeId -> Nat]
           /\ \A t \in NodeId : Lower(p, q)[t] <= p[t] /\ p[t] <= Higher(p, q)[t]
           /\ \A t \in NodeId : p[t] = q[t] => Lower(p, q)[t] = q[t] /\ Higher(p, q)[t] = q[t]
           /\ \A t \in NodeId : Lower(p, q)[t] <= q[t] /\ q[t] <= Higher(p, q)[t]
  BY DEF Lower, Higher

\* A rank that is read is between the lower and the higher of its two values.
LEMMA RanksReadRank ==
    ASSUME RanksInv, RanksFrame, NEW node \in NodeId, Ranks!ReadRank(node)
    PROVE  RanksInv'
  <1>1. RanksInput /\ RanksTypes /\ PartsKnown /\ RanksPhases /\ RanksTasks /\ RanksResult
    BY DEF RanksInv
  <1> DEFINE e(i) == graph_.forward[node][i]
  <1>2. PICK i \in reads[node] :
           /\ reads' = [reads EXCEPT ![node] = reads[node] \ {i}]
           /\ sums' = [sums EXCEPT ![node] = sums[node] + Ranks!Share(e(i))]
    BY RanksOperators DEF Ranks!ReadRank
  <1>3. /\ pc = "tasks" /\ pc' = pc
        /\ UNCHANGED <<graph_, k, solver, iterations_, abs_truncates>>
        /\ UNCHANGED probability_sum_
        /\ UNCHANGED <<page_rank_, temp_rank_, result, iteration, pending>>
        /\ weighted_degree_1_' = weighted_degree_1_
    BY DEF Ranks!ReadRank, Ranks!input, Ranks!ranks, RanksFrame
  <1>4. solver = "PageRank" /\ solver # "WeightedPageRank"
    <2>1. solver # "WeightedPageRank"
      BY <1>1, <1>2 DEF RanksPhases
    <2> QED BY <1>1, <2>1, RanksConstants
  <1>5. RanksInput' /\ PartsKnown' /\ \A R, x, n : Weighed(R, x, n)' = Weighed(R, x, n)
    BY <1>3, RanksSame
  <1>6. RanksKnown /\ i \in 1..Len(graph_.forward[node])
    BY <1>1, <1>2, <1>3 DEF RanksKnown, RanksTypes
  <1> DEFINE t == e(i).destination
             p == Ranks!Part(e(i))
             low == Lower(page_rank_, temp_rank_)
             high == Higher(page_rank_, temp_rank_)
  <1>7. t \in NodeId /\ p \in Nat /\ Ranks!Share(e(i)) = page_rank_[t] * p
    BY <1>1, <1>3, <1>6, RankShares
  <1>8. /\ page_rank_ \in [NodeId -> Nat] /\ low \in [NodeId -> Nat] /\ high \in [NodeId -> Nat]
        /\ low[t] <= page_rank_[t] /\ page_rank_[t] <= high[t]
    BY <1>1, <1>7, Between DEF RanksTypes
  <1>9. /\ Weighed(reads[node] \ {i}, low, node) = Weighed(reads[node], low, node) + low[t] * p
        /\ Weighed(reads[node] \ {i}, high, node) = Weighed(reads[node], high, node) + high[t] * p
    <2>1. ASSUME NEW x \in [NodeId -> Nat]
          PROVE  Weighed(reads[node] \ {i}, x, node) = Weighed(reads[node], x, node) + x[t] * p
      BY <1>2, <1>6, WeighedMore
    <2> HIDE DEF low, high, t, p
    <2> QED BY <1>8, <2>1
  <1>10. Weighed(reads[node], low, node) \in Nat /\ Weighed(reads[node], high, node) \in Nat
    BY <1>6, <1>8, WeighedType
  <1>11. sums[node] \in Nat /\ reads \in [NodeId -> SUBSET Nat] /\ sums \in [NodeId -> Nat]
    BY <1>1 DEF RanksTypes
  <1>12. low' = low /\ high' = high
    BY <1>3 DEF Lower, Higher
  <1> HIDE DEF t, p, low, high, e
  <1>13. /\ low[t] * p \in Nat /\ high[t] * p \in Nat /\ page_rank_[t] * p \in Nat
         /\ low[t] * p <= page_rank_[t] * p /\ page_rank_[t] * p <= high[t] * p
    <2>1. low[t] \in Nat /\ high[t] \in Nat /\ page_rank_[t] \in Nat
      BY <1>7, <1>8
    <2> QED BY <1>7, <1>8, <2>1, NaturalProducts, ProductsGrow
  <1>14. sums'[node] = sums[node] + page_rank_[t] * p /\ reads'[node] = reads[node] \ {i}
    BY <1>2, <1>7, <1>11
  <1>15. RanksTypes'
    <2>1. sums' \in [NodeId -> Nat]
      <3>1. sums[node] + Ranks!Share(e(i)) \in Nat
        BY <1>7, <1>11, <1>13
      <3> QED BY <1>2, <1>11, <3>1
    <2>2. reads' \in [NodeId -> SUBSET Nat]
      BY <1>2, <1>11
    <2>3. \A n \in NodeId : reads'[n] \subseteq 1..Len(graph_.forward[n])
      <3>1. \A n \in NodeId : reads[n] \subseteq 1..Len(graph_.forward[n])
        BY <1>1 DEF RanksTypes
      <3>2. \A n \in NodeId : reads'[n] \subseteq reads[n]
        BY <1>2, <1>11
      <3> QED BY <3>1, <3>2
    <2> QED BY <1>1, <1>3, <2>1, <2>2, <2>3 DEF RanksTypes
  <1>16. ASSUME NEW n \in pending PROVE TaskReads(n)'
    <2>1. TaskReads(n)
      BY <1>1, <1>3, <1>4 DEF RanksTasks
    <2>2. page_rank_'[n] = temp_rank_'[n]
      BY <1>3, <2>1 DEF TaskReads
    <2>3. CASE n = node
      <3>1. Weighed(reads[node], low, node) <= sums[node]
            /\ sums[node] <= Weighed(reads[node], high, node)
        BY <2>1, <2>3 DEF TaskReads, low, high
      <3>2. Weighed(reads'[node], low, node) <= sums'[node]
            /\ sums'[node] <= Weighed(reads'[node], high, node)
        <4> DEFINE a == Weighed(reads[node], low, node)
                   b == Weighed(reads[node], high, node)
        <4>1. a \in Nat /\ b \in Nat /\ a <= sums[node] /\ sums[node] <= b
          BY <1>10, <3>1
        <4>2. Weighed(reads'[node], low, node) = a + low[t] * p
              /\ Weighed(reads'[node], high, node) = b + high[t] * p
          BY <1>9, <1>14
        <4> HIDE DEF a, b
        <4>3. a + low[t] * p <= sums[node] + page_rank_[t] * p
              /\ sums[node] + page_rank_[t] * p <= b + high[t] * p
          BY <1>11, <1>13, <4>1
        <4> QED BY <1>14, <4>2, <4>3
      <3> QED BY <1>5, <1>12, <2>2, <2>3, <3>2 DEF TaskReads, low, high
    <2>4. CASE n # node
      <3>1. reads'[n] = reads[n] /\ sums'[n] = sums[n]
        BY <1>1, <1>2, <1>11, <2>4 DEF RanksTypes
      <3>2. Weighed(reads'[n], low, n) <= sums'[n] /\ sums'[n] <= Weighed(reads'[n], high, n)
        BY <2>1, <3>1 DEF TaskReads, low, high
      <3> QED BY <1>5, <1>12, <2>2, <3>2 DEF TaskReads, low, high
    <2> QED BY <2>3, <2>4
  <1>17. ASSUME NEW n \in NodeId \ pending PROVE TaskWrote(n)'
    <2>1. TaskWrote(n)
      BY <1>1, <1>3, <1>4 DEF RanksTasks
    <2>2. Ranks!RankOf(Weighed({}, low, n)) <= page_rank_'[n]
          /\ page_rank_'[n] <= Ranks!RankOf(Weighed({}, high, n))
      BY <1>3, <2>1 DEF TaskWrote, low, high
    <2> QED BY <1>5, <1>12, <2>2 DEF TaskWrote, low, high
  <1>18. RanksTasks'
    BY <1>3, <1>16, <1>17 DEF RanksTasks
  <1>19. RanksPhases' /\ RanksSecond' /\ RanksSettled' /\ RanksResult'
    BY <1>1, <1>3, <1>4 DEF RanksPhases, RanksSecond, RanksSettled, RanksResult
  <1> QED BY <1>5, <1>15, <1>18, <1>19 DEF RanksInv

\* A rank that is written is a value that the other tasks can read, from then on.
LEMMA RanksWriteRank ==
    ASSUME RanksInv, RanksFrame, NEW node \in NodeId, Ranks!WriteRank(node)
    PROVE  RanksInv'
  <1>1. RanksInput /\ RanksTypes /\ PartsKnown /\ RanksPhases /\ RanksTasks /\ RanksSecond
        /\ RanksResult
    BY DEF RanksInv
  <1>2. /\ pc = "tasks" /\ pc' = pc /\ node \in pending /\ reads[node] = {}
        /\ pending' = pending \ {node} /\ sums' = [sums EXCEPT ![node] = 0]
    BY DEF Ranks!WriteRank
  <1>3. /\ UNCHANGED <<graph_, k, solver, iterations_, abs_truncates>>
        /\ UNCHANGED probability_sum_
        /\ UNCHANGED <<result, iteration, reads>>
        /\ weighted_degree_1_' = weighted_degree_1_
    BY DEF Ranks!WriteRank, Ranks!input, RanksFrame
  <1>4. IF solver = "PageRank"
        THEN /\ page_rank_' = [page_rank_ EXCEPT ![node] = Ranks!RankOf(sums[node])]
             /\ temp_rank_' = temp_rank_
        ELSE /\ temp_rank_' = [temp_rank_ EXCEPT ![node] = Ranks!RankOf(Ranks!SumOfShares(node))]
             /\ page_rank_' = page_rank_
    BY DEF Ranks!WriteRank, Ranks!Write
  <1>5. RanksInput' /\ PartsKnown' /\ \A R, x, n : Weighed(R, x, n)' = Weighed(R, x, n)
    BY <1>2, <1>3, RanksSame
  <1>6. RanksKnown
    BY <1>1, <1>2 DEF RanksKnown
  <1>7. page_rank_ \in [NodeId -> Nat] /\ temp_rank_ \in [NodeId -> Nat]
        /\ sums \in [NodeId -> Nat] /\ pending \subseteq NodeId
    BY <1>1 DEF RanksTypes
  <1>8. /\ Ranks!RankOf(sums[node]) \in Nat
        /\ Ranks!SumOfShares(node) = Weighed({}, page_rank_, node)
        /\ Ranks!RankOf(Ranks!SumOfShares(node)) \in Nat
    <2>1. Weighed({}, page_rank_, node) \in Nat /\ sums[node] \in Nat
      BY <1>6, <1>7, WeighedType
    <2>2. Ranks!SumOfShares(node) = Weighed({}, page_rank_, node)
      BY <1>6, WeighedShares
    <2> QED BY <2>1, <2>2, RankType
  <1>9. RanksTypes'
    <2>1. page_rank_' \in [NodeId -> Nat] /\ temp_rank_' \in [NodeId -> Nat]
      BY <1>4, <1>7, <1>8
    <2>2. sums' \in [NodeId -> Nat] /\ pending' \subseteq NodeId
      BY <1>2, <1>7
    <2> QED BY <1>1, <1>2, <1>3, <2>1, <2>2 DEF RanksTypes
  <1> DEFINE low == Lower(page_rank_, temp_rank_)
             high == Higher(page_rank_, temp_rank_)
  <1>10. RanksTasks'
    <2> SUFFICES ASSUME solver = "PageRank"
                 PROVE  /\ \A n \in pending' : TaskReads(n)'
                        /\ \A n \in NodeId \ pending' : TaskWrote(n)'
      BY <1>3 DEF RanksTasks
    <2>1. page_rank_' = [page_rank_ EXCEPT ![node] = Ranks!RankOf(sums[node])]
          /\ temp_rank_' = temp_rank_
      BY <1>4
    <2>2. (\A n \in pending : TaskReads(n)) /\ \A n \in NodeId \ pending : TaskWrote(n)
      BY <1>1, <1>2 DEF RanksTasks
    <2>3. low \in [NodeId -> Nat] /\ high \in [NodeId -> Nat]
          /\ low' \in [NodeId -> Nat] /\ high' \in [NodeId -> Nat]
      BY <1>7, <1>9, Between DEF RanksTypes
    <2>4. ASSUME NEW t \in NodeId PROVE low'[t] <= low[t] /\ high[t] <= high'[t]
      <3>1. CASE t = node
        <4>1. page_rank_[t] = temp_rank_[t]
          BY <1>2, <2>2, <3>1 DEF TaskReads
        <4>2. low[t] = temp_rank_[t] /\ high[t] = temp_rank_[t]
          BY <1>7, <4>1, Between
        <4>3. low'[t] <= temp_rank_'[t] /\ temp_rank_'[t] <= high'[t]
          BY <1>9, Between DEF RanksTypes
        <4> QED BY <2>1, <4>2, <4>3
      <3>2. CASE t # node
        <4>1. page_rank_'[t] = page_rank_[t] /\ temp_rank_'[t] = temp_rank_[t]
          BY <1>7, <2>1, <3>2
        <4>2. low'[t] = low[t] /\ high'[t] = high[t]
          BY <4>1 DEF Lower, Higher
        <4>3. low[t] \in Nat /\ high[t] \in Nat
          BY <2>3
        <4> QED BY <4>2, <4>3
      <3> QED BY <3>1, <3>2
    <2> DEFINE l == low'
               h == high'
    <2>5. /\ l \in [NodeId -> Nat] /\ h \in [NodeId -> Nat]
          /\ \A t \in NodeId : l[t] <= low[t] /\ high[t] <= h[t]
      BY <2>3, <2>4
    <2>6. l = Lower(page_rank_', temp_rank_') /\ h = Higher(page_rank_', temp_rank_')
      OBVIOUS
    <2> HIDE DEF l, h
    <2>7. ASSUME NEW R, NEW n \in NodeId
          PROVE  /\ Weighed(R, l, n) <= Weighed(R, low, n)
                 /\ Weighed(R, high, n) <= Weighed(R, h, n)
                 /\ Weighed(R, l, n) \in Nat /\ Weighed(R, low, n) \in Nat
                 /\ Weighed(R, high, n) \in Nat /\ Weighed(R, h, n) \in Nat
      BY <1>6, <2>3, <2>5, WeighedGrows, WeighedType
    <2> HIDE DEF low, high
    <2>8. ASSUME NEW n \in pending' PROVE TaskReads(n)'
      <3>1. TaskReads(n) /\ n # node /\ n \in NodeId
        BY <1>2, <1>7, <2>2
      <3>2. page_rank_'[n] = temp_rank_'[n] /\ reads'[n] = reads[n] /\ sums'[n] = sums[n]
        BY <1>2, <1>3, <1>7, <2>1, <3>1 DEF TaskReads
      <3>3. Weighed(reads[n], low, n) <= sums[n] /\ sums[n] <= Weighed(reads[n], high, n)
            /\ sums[n] \in Nat
        BY <1>7, <3>1 DEF TaskReads, low, high
      <3>4. Weighed(reads[n], l, n) <= sums[n] /\ sums[n] <= Weighed(reads[n], h, n)
        BY <2>7, <3>1, <3>3
      <3> QED BY <1>5, <2>6, <3>2, <3>4 DEF TaskReads
    <2>9. ASSUME NEW n \in NodeId \ pending' PROVE TaskWrote(n)'
      <3>1. /\ Ranks!RankOf(Weighed({}, low, n)) <= page_rank_'[n]
            /\ page_rank_'[n] <= Ranks!RankOf(Weighed({}, high, n))
        <4>1. CASE n = node
          <5>1. Weighed({}, low, n) <= sums[n] /\ sums[n] <= Weighed({}, high, n)
                /\ sums[n] \in Nat
            BY <1>2, <1>7, <2>2, <4>1 DEF TaskReads, low, high
          <5>2. page_rank_'[n] = Ranks!RankOf(sums[n])
            BY <1>7, <2>1, <4>1
          <5> QED BY <2>7, <5>1, <5>2, RankGrows
        <4>2. CASE n # node
          <5>1. TaskWrote(n) /\ page_rank_'[n] = page_rank_[n]
            BY <1>2, <1>7, <2>1, <2>2, <4>2
          <5> QED BY <5>1 DEF TaskWrote, low, high
        <4> QED BY <4>1, <4>2
      <3>2. /\ Ranks!RankOf(Weighed({}, l, n)) <= Ranks!RankOf(Weighed({}, low, n))
            /\ Ranks!RankOf(Weighed({}, high, n)) <= Ranks!RankOf(Weighed({}, h, n))
        BY <2>7, RankGrows
      <3>3. /\ Ranks!RankOf(Weighed({}, l, n)) \in Nat /\ Ranks!RankOf(Weighed({}, low, n)) \in Nat
            /\ Ranks!RankOf(Weighed({}, h, n)) \in Nat /\ Ranks!RankOf(Weighed({}, high, n)) \in Nat
            /\ page_rank_'[n] \in Nat
        <4>1. page_rank_' \in [NodeId -> Nat]
          BY <1>9 DEF RanksTypes
        <4> QED BY <2>7, <4>1, RankType
      <3>4. /\ Ranks!RankOf(Weighed({}, l, n)) <= page_rank_'[n]
            /\ page_rank_'[n] <= Ranks!RankOf(Weighed({}, h, n))
        BY <3>1, <3>2, <3>3
      <3>5. Ranks!RankOf(Weighed({}, l, n)) = Ranks!RankOf(Weighed({}, Lower(page_rank_, temp_rank_), n))'
            /\ Ranks!RankOf(Weighed({}, h, n)) = Ranks!RankOf(Weighed({}, Higher(page_rank_, temp_rank_), n))'
        BY <1>5, <2>6 DEF Ranks!RankOf
      <3> QED BY <3>4, <3>5 DEF TaskWrote
    <2> QED BY <2>8, <2>9
  <1>11. RanksSecond'
    <2> SUFFICES ASSUME solver = "WeightedPageRank", NEW n \in NodeId \ pending'
                 PROVE  (temp_rank_[n] = Ranks!RankOf(Weighed({}, page_rank_, n)))'
      BY <1>3 DEF RanksSecond
    <2>1. page_rank_' = page_rank_
          /\ temp_rank_' = [temp_rank_ EXCEPT ![node] = Ranks!RankOf(Ranks!SumOfShares(node))]
      BY <1>4
    <2>2. temp_rank_'[n] = Ranks!RankOf(Weighed({}, page_rank_, n))
      BY <1>1, <1>2, <1>7, <1>8, <2>1 DEF RanksSecond
    <2>3. Ranks!RankOf(Weighed({}, page_rank_, n))' = Ranks!RankOf(Weighed({}, page_rank_, n))
      BY <1>5, <2>1 DEF Ranks!RankOf
    <2> QED BY <2>2, <2>3
  <1>12. RanksPhases' /\ RanksSettled' /\ RanksResult'
    BY <1>1, <1>2, <1>3 DEF RanksPhases, RanksSettled, RanksResult
  <1> QED BY <1>5, <1>9, <1>10, <1>11, <1>12 DEF RanksInv

\* Ranks y that lie between those of two vectors that do not differ much from y.
LEMMA RanksSettle ==
    ASSUME RanksKnown, NEW x \in [NodeId -> Nat], NEW z \in [NodeId -> Nat],
           NEW y \in [NodeId -> Nat], NEW c \in Nat, NEW n \in NodeId,
           \A t \in NodeId : y[t] <= x[t] + c /\ z[t] <= y[t] + c,
           Ranks!RankOf(Weighed({}, x, n)) <= y[n], y[n] <= Ranks!RankOf(Weighed({}, z, n))
    PROVE  100 * One * Ranks!Distance(y[n], Ranks!RankOf(Weighed({}, y, n)))
               <= 85 * c * Ranks!Sensitivity(n) + 100 * One
  <1> DEFINE low == Weighed({}, x, n)
             high == Weighed({}, z, n)
             sum == Weighed({}, y, n)
             v == Ranks!Sensitivity(n)
             e == c * v
  <1>1. v \in Nat /\ sum <= low + e /\ high <= sum + e
    BY WeighedClose
  <1>2. low \in Nat /\ high \in Nat /\ sum \in Nat
    BY WeighedType
  <1>3. Ranks!RankOf(low) <= y[n] /\ y[n] <= Ranks!RankOf(high) /\ y[n] \in Nat
    OBVIOUS
  <1>4. e \in Nat
    BY <1>1, NaturalProducts
  <1> HIDE DEF e, low, high, sum
  <1>5. 100 * One * Ranks!Distance(y[n], Ranks!RankOf(sum)) <= 85 * e + 100 * One
    BY <1>1, <1>2, <1>3, <1>4, RankBetween
  <1> HIDE DEF v
  <1>6. 85 * e = 85 * c * v
    <2>1. \A a, b \in Int : 85 * (a * b) = 85 * a * b
      OBVIOUS
    <2> QED BY <1>1, <2>1 DEF e
  <1> QED BY <1>5, <1>6 DEF sum, v

\* A rank that has not moved is within the tolerance of the one before.
LEMMA NotMoved ==
    ASSUME RanksInput, RanksTypes, NEW n \in NodeId, ~Ranks!Moved(n)
    PROVE  /\ Ranks!Tolerance \in Nat
           /\ page_rank_[n] <= temp_rank_[n] + Ranks!Tolerance
           /\ temp_rank_[n] <= page_rank_[n] + Ranks!Tolerance
  <1>1. page_rank_[n] \in Nat /\ temp_rank_[n] \in Nat
    BY DEF RanksTypes
  <1>2. RankOne \in Nat \ {0} /\ Epsilon \in Nat
    BY ScoreAssumption
  <1> DEFINE d == IF page_rank_[n] < temp_rank_[n] THEN temp_rank_[n] - page_rank_[n]
                  ELSE page_rank_[n] - temp_rank_[n]
  <1>3. ~(IF abs_truncates THEN d >= RankOne ELSE d > Epsilon)
    BY DEF Ranks!Moved, Ranks!Distance
  <1>4. CASE abs_truncates
    <2>1. Ranks!Tolerance = RankOne - 1 /\ ~(d >= RankOne)
      BY <1>3, <1>4, Zenon DEF Ranks!Tolerance
    <2> QED BY <1>1, <1>2, <2>1
  <1>5. CASE ~abs_truncates
    <2>1. Ranks!Tolerance = Epsilon /\ ~(d > Epsilon)
      BY <1>3, <1>5, Zenon DEF Ranks!Tolerance
    <2> QED BY <1>1, <1>2, <2>1
  <1> QED BY <1>4, <1>5

\* The end of an iteration decides whether the ranks have settled.
LEMMA RanksIterationDone ==
    ASSUME RanksInv, RanksFrame, Ranks!IterationDone
    PROVE  RanksInv'
  <1>1. RanksInput /\ RanksTypes /\ PartsKnown /\ RanksPhases /\ RanksTasks /\ RanksSecond
        /\ RanksResult
    BY DEF RanksInv
  <1>2. /\ pc = "tasks" /\ pending = {}
        /\ iteration' = (IF iterations_ # 0 THEN iteration + 1 ELSE iteration)
        /\ page_rank_' = (IF solver = "PageRank" THEN page_rank_ ELSE temp_rank_)
        /\ pc' = (IF Ranks!RunsAgain THEN "iteration" ELSE "sort")
    BY DEF Ranks!IterationDone
  <1>3. /\ UNCHANGED <<graph_, k, solver, iterations_, abs_truncates>>
        /\ UNCHANGED probability_sum_
        /\ UNCHANGED <<temp_rank_, result, pending, reads, sums>>
        /\ weighted_degree_1_' = weighted_degree_1_
    BY DEF Ranks!IterationDone, Ranks!input, Ranks!tasks, RanksFrame
  <1>4. /\ RanksInput' /\ PartsKnown' /\ \A R, x, n : Weighed(R, x, n)' = Weighed(R, x, n)
        /\ \A n : Ranks!Sensitivity(n)' = Ranks!Sensitivity(n)
        /\ Ranks!Tolerance' = Ranks!Tolerance
    BY <1>2, <1>3, RanksSame
  <1>5. RanksKnown
    BY <1>1, <1>2 DEF RanksKnown
  <1>6. page_rank_ \in [NodeId -> Nat] /\ temp_rank_ \in [NodeId -> Nat]
    BY <1>1 DEF RanksTypes
  <1>7. pc' \in {"iteration", "sort"}
    BY <1>2
  <1>8. RanksTypes'
    <2>1. page_rank_' \in [NodeId -> Nat] /\ iteration' \in Nat
      BY <1>1, <1>2, <1>6 DEF RanksTypes
    <2> QED BY <1>1, <1>3, <1>7, <2>1 DEF RanksTypes
  <1>9. RanksSettled'
    <2> SUFFICES ASSUME pc' = "sort", iterations_ = 0, NEW n \in NodeId PROVE RankSettled(n)'
      BY <1>3, <1>7 DEF RanksSettled
    <2> DEFINE c == Ranks!Tolerance
               y == page_rank_'
    <2>1. \A t \in NodeId : ~Ranks!Moved(t)
      BY <1>2, RanksOperators DEF Ranks!RunsAgain, Ranks!SomeMoved
    <2>2. c \in Nat /\ \A t \in NodeId : /\ page_rank_[t] <= temp_rank_[t] + c
                                         /\ temp_rank_[t] <= page_rank_[t] + c
      BY <1>1, <2>1, NotMoved
    <2>3. y \in [NodeId -> Nat]
      BY <1>8 DEF RanksTypes
    <2>4. PICK x \in [NodeId -> Nat], z \in [NodeId -> Nat] :
             /\ \A t \in NodeId : y[t] <= x[t] + c /\ z[t] <= y[t] + c
             /\ Ranks!RankOf(Weighed({}, x, n)) <= y[n]
             /\ y[n] <= Ranks!RankOf(Weighed({}, z, n))
      <3>1. CASE solver = "PageRank"
        <4> DEFINE l == Lower(page_rank_, temp_rank_)
                   h == Higher(page_rank_, temp_rank_)
        <4>1. y = page_rank_
          BY <1>2, <3>1
        <4>2. l \in [NodeId -> Nat] /\ h \in [NodeId -> Nat]
          BY <1>6, Between
        <4>3. Ranks!RankOf(Weighed({}, l, n)) <= y[n] /\ y[n] <= Ranks!RankOf(Weighed({}, h, n))
          BY <1>1, <1>2, <3>1, <4>1 DEF RanksTasks, TaskWrote
        <4>4. ASSUME NEW t \in NodeId PROVE y[t] <= l[t] + c /\ h[t] <= y[t] + c
          <5>1. l[t] = (IF page_rank_[t] <= temp_rank_[t] THEN page_rank_[t] ELSE temp_rank_[t])
                /\ h[t] = (IF page_rank_[t] <= temp_rank_[t] THEN temp_rank_[t] ELSE page_rank_[t])
            BY DEF Lower, Higher
          <5>2. page_rank_[t] \in Nat /\ temp_rank_[t] \in Nat
                /\ page_rank_[t] <= temp_rank_[t] + c /\ temp_rank_[t] <= page_rank_[t] + c
                /\ c \in Nat
            BY <1>6, <2>2
          <5> HIDE DEF l, h, c, y
          <5> QED BY <4>1, <5>1, <5>2
        <4> HIDE DEF l, h, c, y
        <4> QED BY <4>2, <4>3, <4>4
      <3>2. CASE solver # "PageRank"
        <4>1. y = temp_rank_ /\ solver = "WeightedPageRank"
          BY <1>1, <1>2, <3>2, RanksConstants
        <4>2. y[n] = Ranks!RankOf(Weighed({}, page_rank_, n))
          BY <1>1, <1>2, <4>1 DEF RanksSecond
        <4> HIDE DEF y, c
        <4>3. \A t \in NodeId : y[t] <= page_rank_[t] + c /\ page_rank_[t] <= y[t] + c
          BY <2>2, <4>1
        <4>4. Ranks!RankOf(Weighed({}, page_rank_, n)) <= y[n]
              /\ y[n] <= Ranks!RankOf(Weighed({}, page_rank_, n))
          <5>1. y[n] \in Nat
            BY <2>3
          <5> QED BY <4>2, <5>1
        <4> QED BY <1>6, <4>3, <4>4
      <3> QED BY <3>1, <3>2
    <2> HIDE DEF c, y
    <2>5. 100 * One * Ranks!Distance(y[n], Ranks!RankOf(Weighed({}, y, n)))
             <= 85 * c * Ranks!Sensitivity(n) + 100 * One
      BY <1>5, <2>2, <2>3, <2>4, RanksSettle
    <2> QED BY <1>4, <2>5 DEF RankSettled, c, y, Ranks!RankOf, Ranks!Distance
  <1>10. RanksPhases' /\ RanksTasks' /\ RanksSecond' /\ RanksResult'
    BY <1>1, <1>2, <1>3, <1>7 DEF RanksPhases, RanksTasks, RanksSecond, RanksResult
  <1> QED BY <1>4, <1>8, <1>9, <1>10 DEF RanksInv

\* The result has at most k nodes.
LEMMA RanksSize ==
    ASSUME RanksInput
    PROVE  Ranks!Size \in 0..NumberOfNodes /\ Ranks!Size <= k
  <1>1. k \in Nat /\ NumberOfNodes \in Nat
    BY RanksConstants, GraphAssumption
  <1>2. Ranks!Size = Min({k, NumberOfNodes})
    BY RanksOperators DEF Ranks!Size
  <1> QED BY <1>1, <1>2, Smaller

LEMMA RanksSort ==
    ASSUME RanksInv, RanksFrame, Ranks!Sort
    PROVE  RanksInv'
  <1>1. RanksInput /\ RanksTypes /\ PartsKnown /\ RanksPhases /\ RanksSettled
    BY DEF RanksInv
  <1>2. pc = "sort" /\ pc' = "done" /\ result' \in Ranks!getKMaxNodes
    BY DEF Ranks!Sort
  <1>3. /\ UNCHANGED <<graph_, k, solver, iterations_, abs_truncates>>
        /\ UNCHANGED probability_sum_
        /\ UNCHANGED <<page_rank_, temp_rank_, iteration, pending, reads, sums>>
        /\ weighted_degree_1_' = weighted_degree_1_
    BY DEF Ranks!Sort, Ranks!input, Ranks!ranks, Ranks!tasks, RanksFrame
  <1>4. /\ RanksInput' /\ PartsKnown' /\ \A R, x, n : Weighed(R, x, n)' = Weighed(R, x, n)
        /\ \A n : Ranks!Sensitivity(n)' = Ranks!Sensitivity(n)
        /\ Ranks!Tolerance' = Ranks!Tolerance /\ Ranks!Size' = Ranks!Size
    BY <1>2, <1>3, RanksSame
  <1>5. RanksTypes'
    BY <1>1, <1>2, <1>3 DEF RanksTypes
  <1>6. PICK nodes : /\ nodes \in [1..NumberOfNodes -> NodeId] /\ IsInjective(nodes)
                     /\ \A i, j \in DOMAIN nodes :
                           i < j => page_rank_[nodes[i]] >= page_rank_[nodes[j]]
                     /\ result' = SubSeq(nodes, 1, Ranks!Size)
    BY <1>2, RanksOperators DEF Ranks!getKMaxNodes, Ranks!Orders
  <1>7. IsOrder(nodes) /\ SortedBy(page_rank_, nodes) /\ page_rank_ \in [NodeId -> Nat]
    BY <1>1, <1>6 DEF IsOrder, SortedBy, RanksTypes
  <1>8. IsTop(result', Ranks!Size, page_rank_)
    BY <1>1, <1>6, <1>7, RanksSize, TopOfOrder
  <1>9. RanksResult'
    <2>1. IsTop(result', Ranks!Size', page_rank_')
      BY <1>3, <1>4, <1>8
    <2> QED BY <1>2, <2>1 DEF RanksResult, IsTop
  <1>10. RanksSettled'
    <2>1. ASSUME NEW n \in NodeId, RankSettled(n) PROVE RankSettled(n)'
      BY <1>3, <1>4, <2>1 DEF RankSettled, Ranks!RankOf, Ranks!Distance
    <2> QED BY <1>1, <1>2, <1>3, <2>1 DEF RanksSettled
  <1>11. RanksPhases' /\ RanksTasks' /\ RanksSecond'
    BY <1>1, <1>2, <1>3 DEF RanksPhases, RanksTasks, RanksSecond
  <1> QED BY <1>4, <1>5, <1>9, <1>10, <1>11 DEF RanksInv

\* So every step keeps it.
LEMMA RanksSteps ==
    ASSUME RanksInv, RanksFrame, Ranks!Next
    PROVE  RanksInv'
  <1>1. ASSUME NEW node \in Ranks!NodeId, Ranks!ReadRank(node) \/ Ranks!WriteRank(node)
        PROVE  RanksInv'
    BY <1>1, RanksOperators, RanksReadRank, RanksWriteRank
  <1> QED BY <1>1, RanksPrecalculate, RanksBeginIteration, RanksIterationDone, RanksSort
          DEF Ranks!Next

\* What the invariant says of the properties.
LEMMA RanksShow ==
    ASSUME RanksInv
    PROVE  TypeOK /\ ReadScoresAreExact /\ ResultIsTheTop /\ SettledRanksSolveTheEquation
  <1>1. RanksInput /\ RanksTypes /\ PartsKnown /\ RanksPhases /\ RanksSecond /\ RanksSettled
        /\ RanksResult
    BY DEF RanksInv
  <1>2. /\ solver \in Ranks!RankSolvers /\ solver \notin Ranking!Solvers /\ solver # "EaSyIM"
        /\ solver # "Random" /\ k \in Nat
    BY <1>1, RanksConstants DEF RanksInput
  <1>3. pc # "sums" => \A n \in NodeId : Ranks!SumOfShares(n) = Weighed({}, page_rank_, n)
    BY <1>1, WeighedShares DEF RanksKnown
  <1>4. Ranks!TypeOK
    BY <1>1, RanksOperators DEF Ranks!TypeOK, RanksTypes
  <1>5. TypeOK
    <2>1. result \in Seq(NodeId) /\ Len(result) <= k
      <3>1. CASE pc = "done"
        <4>1. result \in Seq(NodeId) /\ Len(result) = Ranks!Size
          BY <1>1, <3>1 DEF RanksResult, IsTop
        <4> QED BY <1>1, <4>1, RanksSize
      <3>2. CASE pc # "done"
        <4>1. result = << >>
          BY <1>1, <3>2 DEF RanksResult
        <4> QED BY <1>2, <4>1
      <3> QED BY <3>1, <3>2
    <2> QED BY <1>1, <1>2, <1>4, <2>1 DEF TypeOK, RanksTypes
  <1>6. Ranks!RanksFollow
    BY <1>1, <1>3, RanksOperators DEF Ranks!RanksFollow, RanksSecond
  <1>7. Ranks!ResultIsTheTop
    BY <1>1, RanksOperators DEF Ranks!ResultIsTheTop, RanksResult, IsTop
  <1>8. Ranks!SettledRanksSolveTheEquation
    <2> SUFFICES ASSUME pc \in {"sort", "done"}, iterations_ = 0, NEW n \in NodeId
                 PROVE  100 * One * Ranks!Distance(page_rank_[n],
                                                   Ranks!RankOf(Ranks!SumOfShares(n)))
                            <= 85 * Ranks!Tolerance * Ranks!Sensitivity(n) + 100 * One
      BY RanksOperators DEF Ranks!SettledRanksSolveTheEquation
    <2>1. RankSettled(n) /\ Ranks!SumOfShares(n) = Weighed({}, page_rank_, n)
      BY <1>1, <1>3 DEF RanksSettled
    <2> QED BY <2>1 DEF RankSettled
  <1> QED BY <1>2, <1>5, <1>6, <1>7, <1>8
          DEF ReadScoresAreExact, ResultIsTheTop, SettledRanksSolveTheEquation

-----------------------------------------------------------------------------
(* One solver.                                                             *)

\* The state is one of a run of one solver.
SolverInv == RankingInv \/ EaSyIMInv \/ RanksInv \/ RandomInv

\* It is inductive: each solver begins, waits and steps within its own invariant.
LEMMA SolverBegins ==
    ASSUME Init
    PROVE  SolverInv
  <1>1. CASE Ranking!Init
    BY <1>1, RankingBegins DEF SolverInv
  <1>2. CASE /\ solver = "EaSyIM" /\ EaSyIM!Init
             /\ weighted_degree_1_ = EaSyIM!Zero /\ result = << >>
    BY <1>2, EaSyIMBegins DEF SolverInv
  <1>3. CASE Ranks!Init /\ NoDegrees
    <2>1. weighted_degree_1_ \in [NodeId -> Nat]
      BY <1>3, RankingOperators DEF NoDegrees, Ranking!Zero
    <2> QED BY <1>3, <2>1, RanksBegin DEF SolverInv
  <1>4. CASE solver = "Random" /\ RandomSolver!Init /\ NoDegrees
    BY <1>4, RandomBegins DEF SolverInv
  <1> QED BY <1>1, <1>2, <1>3, <1>4 DEF Init

\* The name of the solver says which of the four it is.
LEMMA SolverIs ==
    ASSUME SolverInv
    PROVE  /\ solver \in Ranking!Solvers => RankingInv
           /\ solver = "EaSyIM" => EaSyIMInv
           /\ solver \in Ranks!RankSolvers => RanksInv
           /\ solver = "Random" => RandomInv
  <1>1. CASE RankingInv
    BY <1>1, RankingConstants DEF RankingInv
  <1>2. CASE EaSyIMInv
    BY <1>2, EaSyIMConstants DEF EaSyIMInv, EaSyIMInput
  <1>3. CASE RanksInv
    BY <1>3, RanksConstants DEF RanksInv
  <1>4. CASE RandomInv
    BY <1>4 DEF RandomInv, Ranking!Solvers, Ranks!RankSolvers
  <1> QED BY <1>1, <1>2, <1>3, <1>4 DEF SolverInv

LEMMA SolverWaits ==
    ASSUME SolverInv, UNCHANGED vars
    PROVE  SolverInv'
  <1>1. /\ UNCHANGED <<graph_, k, iterations_, solver>>
        /\ UNCHANGED <<weighted_degree_0_, weighted_degree_1_>>
        /\ UNCHANGED <<weighted_degree_even_, weighted_degree_odd_, selected_nodes_, seed_set>>
        /\ UNCHANGED <<page_rank_, temp_rank_, probability_sum_, abs_truncates, reads, sums>>
        /\ UNCHANGED <<result, pc, iteration, pending>>
    BY DEF vars, degree_vars, easyim_vars, rank_vars
  <1>2. ASSUME RankingInv PROVE RankingInv'
    <2>1. RankingInput /\ RankingTypes /\ RankingRead /\ RankingWritten /\ RankingResult
      BY <1>2 DEF RankingInv
    <2>2. RankingInput' /\ RankingTypes'
      BY <1>1, <2>1 DEF RankingInput, RankingTypes, Ranking!Solvers
    <2>3. \A i, n : RankingScore(i, n)' = RankingScore(i, n)
      BY <1>1 DEF RankingScore, getOutDegreeOf, getEdgesOf
    <2>4. /\ Ranking!Lookup' = Ranking!Lookup /\ RankingWrites' = RankingWrites
          /\ Ranking!Size' = Ranking!Size /\ Ranking!weighted_degree' = Ranking!weighted_degree
      BY <1>1 DEF Ranking!Lookup, RankingWrites, Ranking!Size, Ranking!weighted_degree
    <2>5. RankingRead' /\ RankingWritten'
      BY <1>1, <2>1, <2>3, <2>4 DEF RankingRead, RankingWritten
    <2>6. RankingResult'
      BY <1>1, <2>1, <2>4 DEF RankingResult, IsTop
    <2> QED BY <2>2, <2>5, <2>6 DEF RankingInv
  <1>3. ASSUME EaSyIMInv PROVE EaSyIMInv'
    <2>1. EaSyIMInput /\ EaSyIMTypes /\ EaSyIMSeeds /\ EaSyIMFirst /\ EaSyIMIterated
      BY <1>3 DEF EaSyIMInv
    <2>2. EaSyIMInput' /\ EaSyIMTypes' /\ EaSyIMSeeds'
      BY <1>1, <2>1 DEF EaSyIMInput, EaSyIMTypes, EaSyIMSeeds
    <2>3. \A i, n : EaSyIMScore(i, n)' = EaSyIMScore(i, n)
      BY <1>1 DEF EaSyIMScore
    <2>4. EaSyIM!Lookup' = EaSyIM!Lookup /\ EaSyIMWrites' = EaSyIMWrites
      BY <1>1 DEF EaSyIM!Lookup, EaSyIMWrites
    <2>5. EaSyIMFirst' /\ EaSyIMIterated'
      BY <1>1, <2>1, <2>3, <2>4 DEF EaSyIMFirst, EaSyIMIterated
    <2> QED BY <2>2, <2>5 DEF EaSyIMInv
  <1>4. ASSUME RanksInv PROVE RanksInv'
    <2>1. /\ RanksInput /\ RanksTypes /\ PartsKnown
          /\ RanksPhases /\ RanksTasks /\ RanksSecond /\ RanksSettled /\ RanksResult
      BY <1>4 DEF RanksInv
    <2>2. /\ RanksInput' /\ \A R, x, n : Weighed(R, x, n)' = Weighed(R, x, n)
          /\ \A n : Ranks!Sensitivity(n)' = Ranks!Sensitivity(n)
          /\ Ranks!Tolerance' = Ranks!Tolerance /\ Ranks!Size' = Ranks!Size
      BY <1>1, <1>4, RanksSame
    <2>3. RanksTypes' /\ RanksPhases'
      BY <1>1, <2>1 DEF RanksTypes, RanksPhases
    <2>4. PartsKnown'
      <3>1. \A n : Ranks!InWeight(graph_, n)' = Ranks!InWeight(graph_, n)
        BY <1>1 DEF Ranks!InWeight, Ranks!SumOver
      <3> QED BY <1>1, <2>1, <3>1 DEF PartsKnown
    <2>5. /\ Lower(page_rank_, temp_rank_)' = Lower(page_rank_, temp_rank_)
          /\ Higher(page_rank_, temp_rank_)' = Higher(page_rank_, temp_rank_)
      BY <1>1 DEF Lower, Higher
    <2>6. RanksTasks'
      <3>1. ASSUME NEW n PROVE TaskReads(n)' <=> TaskReads(n)
        BY <1>1, <2>2, <2>5 DEF TaskReads
      <3>2. ASSUME NEW n PROVE TaskWrote(n)' <=> TaskWrote(n)
        BY <1>1, <2>2, <2>5 DEF TaskWrote, Ranks!RankOf
      <3> QED BY <1>1, <2>1, <3>1, <3>2 DEF RanksTasks
    <2>7. RanksSecond'
      BY <1>1, <2>1, <2>2 DEF RanksSecond, Ranks!RankOf
    <2>8. RanksSettled'
      <3>1. ASSUME NEW n PROVE RankSettled(n)' <=> RankSettled(n)
        BY <1>1, <2>2 DEF RankSettled, Ranks!RankOf, Ranks!Distance
      <3> QED BY <1>1, <2>1, <3>1 DEF RanksSettled
    <2>9. RanksResult'
      BY <1>1, <2>1, <2>2 DEF RanksResult, IsTop
    <2> QED BY <2>2, <2>3, <2>4, <2>6, <2>7, <2>8, <2>9 DEF RanksInv
  <1>5. ASSUME RandomInv PROVE RandomInv'
    BY <1>1, <1>5 DEF RandomInv
  <1> QED BY <1>2, <1>3, <1>4, <1>5 DEF SolverInv

LEMMA SolverSteps ==
    ASSUME SolverInv, [Next]_vars
    PROVE  SolverInv'
  <1>1. CASE RankingStep
    BY <1>1, SolverIs, RankingSteps DEF RankingStep, SolverInv
  <1>2. CASE EaSyIMStep
    BY <1>2, SolverIs, EaSyIMSteps DEF EaSyIMStep, EaSyIMFrame, SolverInv
  <1>3. CASE PageRankStep
    <2>1. RanksFrame
      BY <1>3 DEF PageRankStep, degree_vars, RanksFrame
    <2> QED BY <1>3, <2>1, SolverIs, RanksSteps DEF PageRankStep, SolverInv
  <1>4. CASE RandomStep
    <2>1. UNCHANGED <<solver, weighted_degree_1_>>
      BY <1>4 DEF RandomStep, degree_vars
    <2> QED BY <1>4, <2>1, SolverIs, RandomSteps DEF RandomStep, SolverInv
  <1>5. CASE UNCHANGED vars
    BY <1>5, SolverWaits
  <1> QED BY <1>1, <1>2, <1>3, <1>4, <1>5 DEF Next

\* The invariant gives each of the properties.
LEMMA SolverShows ==
    ASSUME SolverInv
    PROVE  TypeOK /\ ReadScoresAreExact /\ ResultIsTheTop /\ SettledRanksSolveTheEquation
  BY RankingShows, EaSyIMShows, RanksShow, RandomShows DEF SolverInv

\* Every reachable state of every run satisfies the inductive invariant.
THEOREM SolverInvariant == Spec => []SolverInv
  <1>1. Init => SolverInv
    BY SolverBegins
  <1>2. SolverInv /\ [Next]_vars => SolverInv'
    BY SolverSteps
  <1> QED BY <1>1, <1>2, PTL DEF Spec

\* Every vector and counter has its type, and no result has more than k nodes.
THEOREM ScoreTypes == Spec => []TypeOK
  <1>1. SolverInv => TypeOK
    BY SolverShows
  <1> QED BY <1>1, SolverInvariant, PTL

\* The vector that the sort reads, or a pick of EaSyIM, holds every node's score, whatever
\* the order of the tasks.
THEOREM ReadScores == Spec => []ReadScoresAreExact
  <1>1. SolverInv => ReadScoresAreExact
    BY SolverShows
  <1> QED BY <1>1, SolverInvariant, PTL

\* The result of a ranking is the k best nodes, the best first; Random draws k different ones.
THEOREM TopResult == Spec => []ResultIsTheTop
  <1>1. SolverInv => ResultIsTheTop
    BY SolverShows
  <1> QED BY <1>1, SolverInvariant, PTL

\* Ranks that have converged solve the rank equation, up to the bound on their last move,
\* although tasks of PageRankSolver read ranks that others have overwritten.
THEOREM SettledRanks == Spec => []SettledRanksSolveTheEquation
  <1>1. SolverInv => SettledRanksSolveTheEquation
    BY SolverShows
  <1> QED BY <1>1, SolverInvariant, PTL

\* EaSyIM selects a node of the highest score, and a new one while some score is positive.
THEOREM BestPicks == Spec => PicksTheBest
  <1>1. SolverInv /\ [Next]_vars =>
           [seed_set' # seed_set =>
              \A n \in EaSyIM!NodeId :
                 /\ EaSyIM!WalkScore(n) <= EaSyIM!WalkScore(EaSyIM!Last(seed_set'))
                 /\ EaSyIM!WalkScore(n) > 0 => EaSyIM!Last(seed_set') \notin selected_nodes_]_EaSyIM!vars
    <2> SUFFICES ASSUME SolverInv, [Next]_vars, seed_set' # seed_set, NEW n \in EaSyIM!NodeId
                 PROVE  /\ EaSyIM!WalkScore(n) <= EaSyIM!WalkScore(EaSyIM!Last(seed_set'))
                        /\ EaSyIM!WalkScore(n) > 0 => EaSyIM!Last(seed_set') \notin selected_nodes_
      OBVIOUS
    <2>1. EaSyIMStep
      BY DEF Next, RankingStep, PageRankStep, RandomStep, vars, easyim_vars
    <2>2. EaSyIMInv /\ EaSyIM!Next
      BY <2>1, SolverIs DEF EaSyIMStep
    <2> QED BY <2>2, EaSyIMPicks
  <1> QED BY <1>1, SolverInvariant, PTL DEF Spec, PicksTheBest, EaSyIM!PicksTheBest

-----------------------------------------------------------------------------
(*************************************************************************)
(* Then the degree discount solver.  It is the greedy one it claims to   *)
(* be, on every graph whose two views agree and for every k.  The        *)
(* inductive invariant relates the counter of a node to the edges that   *)
(* its definition counts; while the inner loop runs, the in-edges still  *)
(* to be discounted make up the difference (Pending).                    *)
(*************************************************************************)

\* The inductive invariant of the degree discount solver.
DiscountInv == /\ DiscountTypeOK
               /\ ViewsMirror(graph)
               /\ discount_pc = "init" => seeds = <<>>
               /\ discount_pc = "discount" => current \in Selected
               /\ DegreeIsUncovered

\* The spans of the graph.
LEMMA GraphType ==
    ASSUME graph \in Graph, NEW n \in NodeId
    PROVE  /\ graph.forward[n] \in Seq(Edge)
           /\ graph.backward[n] \in Seq(Edge)
           /\ Len(graph.forward[n]) \in Nat
           /\ Len(graph.backward[n]) \in Nat
           /\ \A i \in 1..Len(graph.backward[n]) :
                 graph.backward[n][i].destination \in NodeId
  <1>1. /\ graph.forward[n] \in Seq(Edge)
        /\ graph.backward[n] \in Seq(Edge)
    BY DEF Graph, Adjacency
  <1>2. \A i \in 1..Len(graph.backward[n]) : graph.backward[n][i] \in Edge
    BY <1>1
  <1> QED BY <1>1, <1>2 DEF Edge

\* Sets of edge positions are finite, so that counting them gives a number.
LEMMA Positions ==
    ASSUME NEW l \in Nat, NEW T \in SUBSET (1..l)
    PROVE  IsFiniteSet(T) /\ Cardinality(T) \in Nat
  <1>1. IsFiniteSet(1..l)
    BY FS_Interval
  <1> QED BY <1>1, FS_Subset, FS_CardinalityType

\* The counts of the invariant are numbers.
LEMMA Counts ==
    ASSUME DiscountTypeOK, NEW n \in NodeId
    PROVE  /\ IsFiniteSet(Uncovered(n)) /\ Cardinality(Uncovered(n)) \in Nat
           /\ IsFiniteSet(Pending(n)) /\ Cardinality(Pending(n)) \in Nat
  <1>1. graph \in Graph /\ current \in NodeId
    BY DEF DiscountTypeOK
  <1>2. Uncovered(n) \in SUBSET (1..Len(graph.forward[n]))
    BY DEF Uncovered, getOutDegreeOf, getEdgesOf
  <1>3. Pending(n) \in SUBSET (1..Len(graph.backward[current]))
    BY DEF Pending, BackEdgesTo
  <1>4. Len(graph.forward[n]) \in Nat /\ Len(graph.backward[current]) \in Nat
    BY <1>1, GraphType
  <1> QED BY <1>2, <1>3, <1>4, Positions

\* A maximum is an unselected node whenever there is one.
LEMMA MaximumIsNew ==
    ASSUME DiscountInv, discount_pc = "pick", NEW n \in NodeId, IsMaximum(n),
           NEW m \in NodeId \ Selected
    PROVE  /\ n \notin Selected
           /\ degree_[m] <= degree_[n]
  <1>1. degree_[m] >= 0
    <2>1. degree_[m] = Cardinality(Uncovered(m)) + Cardinality(Pending(m))
      BY DEF DiscountInv, DegreeIsUncovered
    <2> QED BY <2>1, Counts DEF DiscountInv
  <1>2. degree_[m] \in Int /\ degree_[n] \in Int
    BY DEF DiscountInv, DiscountTypeOK
  <1>3. degree_[m] <= degree_[n]
    BY <1>2 DEF IsMaximum
  <1>4. n \in Selected => degree_[n] < 0
    BY DEF DiscountInv, DegreeIsUncovered
  <1> QED BY <1>1, <1>2, <1>3, <1>4

-----------------------------------------------------------------------------

\* The initial states satisfy it.
LEMMA DiscountBegins == DiscountInit => DiscountInv
  <1> SUFFICES ASSUME DiscountInit PROVE DiscountInv
    OBVIOUS
  <1>1. graph \in Graph /\ ViewsMirror(graph)
    BY DegreeDiscountAssumption, MirrorAssumption DEF DiscountInit
  <1>2. 0 \in NodeId
    BY GraphAssumption DEF NodeId
  <1>3. DiscountTypeOK
    BY <1>1, <1>2 DEF DiscountInit, DiscountTypeOK
  <1> QED BY <1>1, <1>3 DEF DiscountInit, DiscountInv, DegreeIsUncovered

\* Every step keeps the types.
LEMMA DiscountTypeStep == DiscountTypeOK /\ [DiscountNext]_discount_vars => DiscountTypeOK'
  <1> SUFFICES ASSUME DiscountTypeOK, [DiscountNext]_discount_vars PROVE DiscountTypeOK'
    OBVIOUS
  <1>1. CASE CountDegrees
    <2>1. \A n \in NodeId : getOutDegreeOf(graph, n) \in Int
      BY GraphType DEF DiscountTypeOK, getOutDegreeOf, getEdgesOf
    <2> QED BY <1>1, <2>1 DEF CountDegrees, DiscountTypeOK
  <1>2. CASE Pick
    <2>1. PICK n \in NodeId : /\ seeds' = Append(seeds, n)
                              /\ degree_' = [degree_ EXCEPT ![n] = -1]
                              /\ current' = n
      BY <1>2 DEF Pick, Marked
    <2>2. seeds' \in Seq(NodeId) /\ Len(seeds') = Len(seeds) + 1
      BY <2>1, PushRange DEF DiscountTypeOK
    <2>3. Len(seeds') <= discount_k
      BY <1>2, <2>2 DEF Pick, MoreSeeds, DiscountTypeOK
    <2>4. degree_' \in [NodeId -> Int]
      BY <2>1 DEF DiscountTypeOK
    <2> QED BY <1>2, <2>1, <2>2, <2>3, <2>4 DEF Pick, DiscountTypeOK
  <1>3. CASE Discount
    <2>1. InEdges[position].destination \in NodeId
      BY <1>3, GraphType DEF Discount, InEdges, getInverseEdgesOf, DiscountTypeOK
    <2>2. degree_' \in [NodeId -> Int]
      BY <1>3, <2>1 DEF Discount, Discounted, DiscountTypeOK
    <2> QED BY <1>3, <2>2 DEF Discount, DiscountTypeOK
  <1>4. CASE DiscountDone
    BY <1>4 DEF DiscountDone, DiscountTypeOK
  <1>5. CASE Return
    BY <1>5 DEF Return, DiscountTypeOK
  <1>6. CASE UNCHANGED discount_vars
    BY <1>6 DEF discount_vars, DiscountTypeOK
  <1> QED BY <1>1, <1>2, <1>3, <1>4, <1>5, <1>6 DEF DiscountNext

\* Before anything is selected every edge is uncovered.
LEMMA CountStep ==
    ASSUME DiscountInv, CountDegrees
    PROVE  DegreeIsUncovered'
  <1>1. seeds' = <<>> /\ graph' = graph /\ discount_pc' = "pick"
    BY DEF DiscountInv, CountDegrees
  <1>2. Selected' = {}
    BY <1>1 DEF Selected, Range
  <1>3. ASSUME NEW n \in NodeId
        PROVE  degree_'[n] = Cardinality(Uncovered(n)') + Cardinality(Pending(n)')
    <2>1. Uncovered(n)' = 1..Len(graph.forward[n])
      BY <1>1, <1>2 DEF Uncovered, getOutDegreeOf, getEdgesOf
    <2>2. Len(graph.forward[n]) \in Nat
      BY GraphType DEF DiscountInv, DiscountTypeOK
    <2>3. Cardinality(Uncovered(n)') = Len(graph.forward[n])
      BY <2>1, <2>2, FS_Interval
    <2>4. Pending(n)' = {}
      BY <1>1 DEF Pending
    <2>5. Cardinality(Pending(n)') = 0
      BY <2>4, FS_EmptySet
    <2>6. degree_'[n] = Len(graph.forward[n])
      BY DEF CountDegrees, getOutDegreeOf, getEdgesOf
    <2> QED BY <2>2, <2>3, <2>5, <2>6
  <1> QED BY <1>2, <1>3 DEF DegreeIsUncovered

\* The edges to the picked node leave Uncovered and enter Pending, one for one.
LEMMA PickStep ==
    ASSUME DiscountInv, Pick
    PROVE  DegreeIsUncovered'
  <1>1. PICK c \in NodeId : /\ IsMaximum(c)
                            /\ seeds' = Append(seeds, c)
                            /\ degree_' = [degree_ EXCEPT ![c] = -1]
                            /\ current' = c
    BY DEF Pick, Marked
  <1>2. /\ graph' = graph /\ position' = 1
        /\ discount_pc = "pick" /\ discount_pc' = "discount"
        /\ DiscountTypeOK /\ graph \in Graph
    BY DEF Pick, DiscountInv, DiscountTypeOK
  <1>3. Selected' = Selected \cup {c}
    BY <1>1, <1>2, PushRange DEF Selected, DiscountTypeOK
  <1>4. ASSUME NEW n \in NodeId \ Selected'
        PROVE  degree_'[n] = Cardinality(Uncovered(n)') + Cardinality(Pending(n)')
    <2> DEFINE toC == EdgesTo(graph, n, c)
    <2>1. n \in NodeId \ Selected /\ n # c
      BY <1>3
    <2>2. c \notin Selected
      BY <1>1, <1>2, <2>1, MaximumIsNew
    <2>3. degree_'[n] = Cardinality(Uncovered(n)) + Cardinality(Pending(n))
      BY <1>1, <1>2, <2>1 DEF DiscountInv, DiscountTypeOK, DegreeIsUncovered
    <2>4. Cardinality(Pending(n)) = 0
      <3>1. Pending(n) = {}
        BY <1>2 DEF Pending
      <3> QED BY <3>1, FS_EmptySet
    <2>5. /\ Uncovered(n) = Uncovered(n)' \cup toC
          /\ Uncovered(n)' \cap toC = {}
      BY <1>2, <1>3, <2>2 DEF Uncovered, EdgesTo, getOutDegreeOf, getEdgesOf
    <2>6. /\ IsFiniteSet(Uncovered(n)') /\ Cardinality(Uncovered(n)') \in Nat
          /\ IsFiniteSet(toC) /\ Cardinality(toC) \in Nat
      <3>1. /\ Uncovered(n)' \in SUBSET (1..Len(graph.forward[n]))
            /\ toC \in SUBSET (1..Len(graph.forward[n]))
        BY <1>2 DEF Uncovered, EdgesTo, getOutDegreeOf, getEdgesOf
      <3> QED BY <1>2, <3>1, GraphType, Positions
    <2>7. Cardinality(Uncovered(n)) = Cardinality(Uncovered(n)') + Cardinality(toC)
      <3>1. Cardinality(Uncovered(n)' \cup toC)
              = Cardinality(Uncovered(n)') + Cardinality(toC)
                - Cardinality(Uncovered(n)' \cap toC)
        BY <2>6, FS_Union
      <3>2. Cardinality(Uncovered(n)' \cap toC) = 0
        BY <2>5, FS_EmptySet
      <3> HIDE DEF toC
      <3> QED BY <2>5, <2>6, <3>1, <3>2
    <2>8. Pending(n)' = BackEdgesTo(graph, n, c)
      BY <1>1, <1>2 DEF Pending, BackEdgesTo
    <2>9. Cardinality(Pending(n)') = Cardinality(toC)
      BY <2>8 DEF DiscountInv, ViewsMirror
    <2> HIDE DEF toC
    <2> QED BY <2>3, <2>4, <2>6, <2>7, <2>9
  <1>5. ASSUME NEW n \in Selected' PROVE degree_'[n] < 0
    <2>1. n \in NodeId
      <3>1. Selected \subseteq NodeId
        BY <1>2 DEF Selected, DiscountTypeOK, Range
      <3> QED BY <1>3, <3>1
    <2>2. n # c => degree_'[n] = degree_[n] /\ n \in Selected
      BY <1>1, <1>2, <1>3, <2>1 DEF DiscountTypeOK
    <2>3. n = c => degree_'[n] = -1
      BY <1>1, <1>2 DEF DiscountTypeOK
    <2> QED BY <1>2, <2>2, <2>3 DEF DiscountInv, DegreeIsUncovered
  <1> QED BY <1>4, <1>5 DEF DegreeIsUncovered

\* An in-edge of the picked node leaves Pending and its tail's degree.
LEMMA DiscountStep ==
    ASSUME DiscountInv, Discount
    PROVE  DegreeIsUncovered'
  <1> DEFINE d == InEdges[position].destination
  <1>1. /\ UNCHANGED <<graph, seeds, discount_pc, current>>
        /\ position' = position + 1
        /\ degree_' = [degree_ EXCEPT ![d] = @ - 1]
        /\ discount_pc = "discount"
        /\ DiscountTypeOK /\ graph \in Graph /\ position \in Nat \ {0}
    BY DEF Discount, Discounted, DiscountInv, DiscountTypeOK
  <1>2. /\ position \in 1..Len(graph.backward[current])
        /\ d = graph.backward[current][position].destination
        /\ d \in NodeId
    BY <1>1, GraphType DEF Discount, InEdges, getInverseEdgesOf, DiscountTypeOK
  <1> HIDE DEF d
  <1>3. Selected' = Selected
    BY <1>1 DEF Selected
  <1>4. ASSUME NEW n \in NodeId \ Selected
        PROVE  degree_'[n] = Cardinality(Uncovered(n)') + Cardinality(Pending(n)')
    <2>1. Uncovered(n)' = Uncovered(n)
      BY <1>1, <1>3 DEF Uncovered
    <2>2. degree_[n] = Cardinality(Uncovered(n)) + Cardinality(Pending(n))
      BY <1>1 DEF DiscountInv, DegreeIsUncovered
    <2>3. /\ Cardinality(Uncovered(n)) \in Nat
          /\ IsFiniteSet(Pending(n)) /\ Cardinality(Pending(n)) \in Nat
      BY <1>1, Counts
    <2>4. CASE n = d
      <3>1. position \in Pending(n)
        BY <1>1, <1>2, <2>4 DEF Pending, BackEdgesTo
      <3>2. Pending(n)' = Pending(n) \ {position}
        <4>1. \A j \in Nat : j >= position + 1 <=> j >= position /\ j # position
          BY <1>1
        <4>2. BackEdgesTo(graph, n, current) \subseteq Nat
          BY DEF BackEdgesTo
        <4> QED BY <1>1, <4>1, <4>2 DEF Pending
      <3>3. Cardinality(Pending(n)') = Cardinality(Pending(n)) - 1
        BY <2>3, <3>1, <3>2, FS_RemoveElement
      <3>4. degree_'[n] = degree_[n] - 1
        BY <1>1, <2>4 DEF DiscountTypeOK
      <3> QED BY <2>1, <2>2, <2>3, <3>3, <3>4
    <2>5. CASE n # d
      <3>1. position \notin Pending(n)
        BY <1>2, <2>5 DEF Pending, BackEdgesTo
      <3>2. Pending(n)' = Pending(n)
        <4>1. \A j \in Nat : j >= position + 1 <=> j >= position /\ j # position
          BY <1>1
        <4>2. BackEdgesTo(graph, n, current) \subseteq Nat
          BY DEF BackEdgesTo
        <4>3. Pending(n)' = {j \in BackEdgesTo(graph, n, current) : j >= position + 1}
          BY <1>1 DEF Pending
        <4>4. Pending(n) = {j \in BackEdgesTo(graph, n, current) : j >= position}
          BY <1>1 DEF Pending
        <4> QED BY <3>1, <4>1, <4>2, <4>3, <4>4
      <3>3. degree_'[n] = degree_[n]
        BY <1>1, <2>5 DEF DiscountTypeOK
      <3> QED BY <2>1, <2>2, <3>2, <3>3
    <2> QED BY <2>4, <2>5
  <1>5. ASSUME NEW n \in Selected PROVE degree_'[n] < 0
    <2>1. n \in NodeId
      BY <1>1 DEF Selected, DiscountTypeOK, Range
    <2>2. degree_'[n] = degree_[n] \/ degree_'[n] = degree_[n] - 1
      BY <1>1, <2>1 DEF DiscountTypeOK
    <2>3. degree_[n] \in Int /\ degree_[n] < 0
      BY <1>1, <2>1 DEF DiscountInv, DiscountTypeOK, DegreeIsUncovered
    <2> QED BY <2>2, <2>3
  <1> QED BY <1>3, <1>4, <1>5 DEF DegreeIsUncovered

\* When the inner loop is over nothing is pending.
LEMMA DoneStep ==
    ASSUME DiscountInv, DiscountDone
    PROVE  DegreeIsUncovered'
  <1>1. /\ UNCHANGED <<graph, seeds, current, degree_, position>>
        /\ discount_pc = "discount" /\ discount_pc' = "pick"
        /\ DiscountTypeOK /\ graph \in Graph /\ current \in NodeId /\ position \in Nat
    BY DEF DiscountDone, DiscountInv, DiscountTypeOK
  <1>2. position > Len(graph.backward[current])
    BY DEF DiscountDone, InEdges, getInverseEdgesOf
  <1>3. ASSUME NEW n \in NodeId
        PROVE  Uncovered(n)' = Uncovered(n) /\ Pending(n) = {} /\ Pending(n)' = {}
    <2>1. Uncovered(n)' = Uncovered(n) /\ Pending(n)' = {}
      BY <1>1 DEF Uncovered, Selected, Pending
    <2>2. \A j \in 1..Len(graph.backward[current]) : ~(j >= position)
      BY <1>1, <1>2, GraphType
    <2> QED BY <2>1, <2>2 DEF Pending, BackEdgesTo
  <1> QED BY <1>1, <1>3 DEF DiscountInv, DegreeIsUncovered, Selected

\* Every step keeps the invariant.
LEMMA DiscountSteps == DiscountInv /\ [DiscountNext]_discount_vars => DiscountInv'
  <1> SUFFICES ASSUME DiscountInv, [DiscountNext]_discount_vars PROVE DiscountInv'
    OBVIOUS
  <1>1. DiscountTypeOK'
    BY DiscountTypeStep DEF DiscountInv
  <1>2. ViewsMirror(graph)'
    <2>1. graph' = graph
      BY DEF DiscountNext, CountDegrees, Pick, Discount, DiscountDone, Return, discount_vars
    <2> QED BY <2>1 DEF DiscountInv, ViewsMirror, EdgesTo, BackEdgesTo
  <1>3. (discount_pc = "init" => seeds = <<>>)'
    BY DEF DiscountInv, DiscountNext, CountDegrees, Pick, Discount, DiscountDone, Return, discount_vars
  <1>4. (discount_pc = "discount" => current \in Selected)'
    <2>1. CASE Pick
      BY <2>1, PushRange DEF Pick, Selected, DiscountInv, DiscountTypeOK
    <2>2. CASE ~Pick
      BY <2>2 DEF DiscountInv, DiscountNext, CountDegrees, Discount, DiscountDone, Return, discount_vars, Selected
    <2> QED BY <2>1, <2>2
  <1>5. DegreeIsUncovered'
    <2>1. CASE Return
      BY <2>1 DEF Return, DiscountInv, DegreeIsUncovered, Uncovered, Pending, Selected
    <2>2. CASE UNCHANGED discount_vars
      BY <2>2 DEF discount_vars, DiscountInv, DegreeIsUncovered, Uncovered, Pending, Selected
    <2> QED BY <2>1, <2>2, CountStep, PickStep, DiscountStep, DoneStep DEF DiscountNext
  <1> QED BY <1>1, <1>2, <1>3, <1>4, <1>5 DEF DiscountInv

-----------------------------------------------------------------------------

LEMMA DiscountInvariant == DiscountSpec => []DiscountInv
  BY DiscountBegins, DiscountSteps, PTL DEF DiscountSpec

\* Every variable of the solver keeps its type.
THEOREM DiscountTypes == DiscountSpec => []DiscountTypeOK
  <1>1. DiscountInv => DiscountTypeOK
    BY DEF DiscountInv
  <1> QED BY <1>1, DiscountInvariant, PTL

\* The counters are right at every step of the solver, for every graph.
THEOREM DegreesCorrect == DiscountSpec => []DegreeIsUncovered
  <1>1. DiscountInv => DegreeIsUncovered
    BY DEF DiscountInv
  <1> QED BY <1>1, DiscountInvariant, PTL

\* While nodes are left, somebody is unselected.
LEMMA NodesAreLeft ==
    ASSUME DiscountTypeOK, Len(seeds) < NumberOfNodes
    PROVE  \E m \in NodeId : m \notin Selected
  <1>1. seeds \in Seq(NodeId) /\ Len(seeds) \in Nat
    BY DEF DiscountTypeOK
  <1>2. Cardinality(NodeId) = NumberOfNodes
    BY GraphAssumption, FS_Interval DEF NodeId
  <1>3. Cardinality(Selected) <= Len(seeds)
    BY <1>1, RangeCardinality DEF Selected
  <1>4. Selected \subseteq NodeId
    BY <1>1 DEF Selected, Range
  <1>5. Selected # NodeId
    BY <1>1, <1>2, <1>3, GraphAssumption
  <1> QED BY <1>4, <1>5

\* The solver returns a set: it selects no node twice, unless discount_k exceeds the
\* number of nodes.
THEOREM SeedsDistinct == DiscountSpec => []SeedsAreDistinct
<1> DEFINE Distinct == Len(seeds) <= NumberOfNodes => IsInjective(seeds)
<1>1. DiscountInit => Distinct
  BY DEF DiscountInit, IsInjective
<1>2. DiscountInv /\ Distinct /\ [DiscountNext]_discount_vars => Distinct'
  <2> SUFFICES ASSUME DiscountInv, Distinct, [DiscountNext]_discount_vars, Len(seeds') <= NumberOfNodes
               PROVE  IsInjective(seeds')
    OBVIOUS
  <2>1. CASE Pick
    <3>1. PICK c \in NodeId : IsMaximum(c) /\ seeds' = Append(seeds, c)
      BY <2>1 DEF Pick
    <3>2. seeds \in Seq(NodeId) /\ Len(seeds) \in Nat /\ discount_pc = "pick"
      BY <2>1 DEF Pick, DiscountInv, DiscountTypeOK
    <3>3. Len(seeds) < NumberOfNodes
      BY <3>1, <3>2, GraphAssumption
    <3>4. c \notin Selected
      BY <3>1, <3>2, <3>3, NodesAreLeft, MaximumIsNew DEF DiscountInv
    <3>5. IsInjective(seeds)
      BY <3>2, <3>3, GraphAssumption
    <3> QED BY <3>1, <3>2, <3>4, <3>5, PushInjective DEF Selected
  <2>2. CASE ~Pick
    <3>1. seeds' = seeds
      BY <2>2 DEF DiscountNext, CountDegrees, Discount, DiscountDone, Return, discount_vars
    <3> QED BY <3>1
  <2> QED BY <2>1, <2>2
<1>3. DiscountInv /\ Distinct => SeedsAreDistinct
  BY DEF DiscountInv, SeedsAreDistinct
<1> HIDE DEF Distinct
<1> QED BY <1>1, <1>2, <1>3, DiscountInvariant, PTL DEF DiscountSpec

\* Every pick is a greedy pick.
THEOREM PicksAreGreedy == DiscountSpec => PicksTheMostUncovered
  <1>1. ASSUME DiscountInv, [DiscountNext]_discount_vars, discount_pc = "pick", discount_pc' = "discount", Selected # NodeId
        PROVE  /\ current' \notin Selected
               /\ \A m \in NodeId \ Selected :
                     Cardinality(Uncovered(m)) <= Cardinality(Uncovered(current'))
    <2>1. Pick
      BY <1>1 DEF DiscountNext, CountDegrees, Discount, DiscountDone, Return, discount_vars
    <2>2. PICK c \in NodeId : IsMaximum(c) /\ current' = c
      BY <2>1 DEF Pick
    <2>3. \A m \in NodeId : Pending(m) = {}
      BY <1>1 DEF Pending
    <2>4. \A m \in NodeId \ Selected : degree_[m] = Cardinality(Uncovered(m))
      <3>1. \A m \in NodeId : Cardinality(Uncovered(m)) \in Nat
        BY <1>1, Counts DEF DiscountInv
      <3>2. \A m \in NodeId : Cardinality(Pending(m)) = 0
        BY <2>3, FS_EmptySet
      <3> QED BY <1>1, <3>1, <3>2 DEF DiscountInv, DegreeIsUncovered
    <2>5. Selected \subseteq NodeId
      BY <1>1 DEF DiscountInv, DiscountTypeOK, Selected, Range
    <2>6. PICK u \in NodeId : u \notin Selected
      BY <1>1, <2>5
    <2>7. c \notin Selected
      BY <1>1, <2>2, <2>6, MaximumIsNew
    <2>8. \A m \in NodeId \ Selected : degree_[m] <= degree_[c]
      BY <1>1, <2>2, MaximumIsNew
    <2> QED BY <2>2, <2>4, <2>7, <2>8
  <1> QED BY <1>1, DiscountInvariant, PTL DEF DiscountSpec, PicksTheMostUncovered

===========================================================================
