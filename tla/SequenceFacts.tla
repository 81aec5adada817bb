--------------------------- MODULE SequenceFacts ----------------------------
(***************************************************************************)
(* Facts about the two uses that the program makes of std::vector as a     *)
(* stack and as a growing list: emplace_back is Append, back is Last and   *)
(* pop_back is Front.  And induction in a form that needs no operator:     *)
(* over sets, and for functions that a recursion defines.                  *)
(***************************************************************************)
EXTENDS Integers, Sums, SequencesExt, FiniteSetTheorems, WellFoundedInduction, TLAPS

\* An appended list holds its elements and the new one (emplace_back).
LEMMA PushRange ==
    ASSUME NEW S, NEW s \in Seq(S), NEW e \in S
    PROVE  /\ Append(s, e) \in Seq(S)
           /\ Range(Append(s, e)) = Range(s) \cup {e}
  <1>1. /\ Append(s, e) \in Seq(S)
        /\ Len(Append(s, e)) = Len(s) + 1
        /\ \A i \in 1..Len(s) : Append(s, e)[i] = s[i]
        /\ Append(s, e)[Len(s) + 1] = e
    OBVIOUS
  <1>2. /\ DOMAIN s = 1..Len(s)
        /\ DOMAIN Append(s, e) = 1..(Len(s) + 1)
        /\ Len(s) \in Nat
    BY <1>1
  <1>3. Range(Append(s, e)) \subseteq Range(s) \cup {e}
    BY <1>1, <1>2 DEF Range
  <1>4. Range(s) \cup {e} \subseteq Range(Append(s, e))
    BY <1>1, <1>2 DEF Range
  <1> QED BY <1>1, <1>3, <1>4

\* Appending an element that is not there keeps a list free of repetitions.
LEMMA PushInjective ==
    ASSUME NEW S, NEW s \in Seq(S), NEW e \in S, IsInjective(s), e \notin Range(s)
    PROVE  IsInjective(Append(s, e))
  <1>1. /\ \A i \in 1..Len(s) : Append(s, e)[i] = s[i]
        /\ Append(s, e)[Len(s) + 1] = e
        /\ DOMAIN s = 1..Len(s)
        /\ DOMAIN Append(s, e) = 1..(Len(s) + 1)
        /\ Len(s) \in Nat
    OBVIOUS
  <1>2. \A i \in 1..Len(s) : s[i] # e
    BY <1>1 DEF Range
  <1>3. \A i, j \in 1..Len(s) : s[i] = s[j] => i = j
    BY <1>1 DEF IsInjective
  <1>4. ASSUME NEW i \in 1..(Len(s) + 1), NEW j \in 1..(Len(s) + 1),
               Append(s, e)[i] = Append(s, e)[j]
        PROVE  i = j
    <2>1. CASE i \in 1..Len(s) /\ j \in 1..Len(s)
      BY <2>1, <1>1, <1>3, <1>4
    <2>2. CASE i = Len(s) + 1 /\ j \in 1..Len(s)
      BY <2>2, <1>1, <1>2, <1>4
    <2>3. CASE i \in 1..Len(s) /\ j = Len(s) + 1
      BY <2>3, <1>1, <1>2, <1>4
    <2>4. CASE i = Len(s) + 1 /\ j = Len(s) + 1
      BY <2>4
    <2> QED BY <1>1, <2>1, <2>2, <2>3, <2>4
  <1>5. \A i, j \in DOMAIN Append(s, e) : Append(s, e)[i] = Append(s, e)[j] => i = j
    BY <1>1, <1>4, Zenon
  <1> QED BY <1>5 DEF IsInjective

\* pop_back keeps all but the last element, in place.
LEMMA FrontIsPrefix ==
    ASSUME NEW S, NEW s \in Seq(S), s # <<>>
    PROVE  /\ Len(s) \in Nat \ {0}
           /\ DOMAIN s = 1..Len(s)
           /\ Front(s) \in Seq(S)
           /\ Len(Front(s)) = Len(s) - 1
           /\ DOMAIN Front(s) = 1..(Len(s) - 1)
           /\ \A i \in 1..(Len(s) - 1) : Front(s)[i] = s[i]
  <1>1. /\ Len(s) \in Nat \ {0}
        /\ Len(s) - 1 \in Nat
        /\ DOMAIN s = 1..Len(s)
    OBVIOUS
  <1>2. PICK n \in Nat : n = Len(s) - 1
    BY <1>1
  <1>3. /\ SubSeq(s, 1, n) \in Seq(S)
        /\ Len(SubSeq(s, 1, n)) = n
        /\ \A i \in 1..n : SubSeq(s, 1, n)[i] = s[i]
    BY <1>2
  <1>4. \A t \in Seq(S) : Len(t) = n => DOMAIN t = 1..n
    OBVIOUS
  <1>5. Front(s) = SubSeq(s, 1, n)
    BY <1>2 DEF Front
  <1> QED BY <1>1, <1>2, <1>3, <1>4, <1>5

\* A non-empty stack is its top and what is below it (back, pop_back).
LEMMA PopRange ==
    ASSUME NEW S, NEW s \in Seq(S), s # <<>>
    PROVE  /\ Last(s) \in S
           /\ Front(s) \in Seq(S)
           /\ Range(s) = Range(Front(s)) \cup {Last(s)}
  <1>1. /\ Len(s) \in Nat \ {0}
        /\ DOMAIN s = 1..Len(s)
    BY FrontIsPrefix
  <1>2. /\ Front(s) \in Seq(S)
        /\ DOMAIN Front(s) = 1..(Len(s) - 1)
        /\ \A i \in 1..(Len(s) - 1) : Front(s)[i] = s[i]
    BY FrontIsPrefix
  <1>4. Last(s) \in S
    BY <1>1 DEF Last
  <1>5. Range(s) \subseteq Range(Front(s)) \cup {Last(s)}
    <2>1. ASSUME NEW i \in 1..Len(s) PROVE s[i] \in Range(Front(s)) \cup {Last(s)}
      <3>1. CASE i = Len(s)
        BY <3>1 DEF Last
      <3>2. CASE i \in 1..(Len(s) - 1)
        BY <3>2, <1>2 DEF Range
      <3>3. i = Len(s) \/ i \in 1..(Len(s) - 1)
        <4>1. \A n \in Nat \ {0} : \A j \in 1..n : j = n \/ j \in 1..(n - 1)
          OBVIOUS
        <4> QED BY <4>1, <1>1, Zenon
      <3> QED BY <3>1, <3>2, <3>3
    <2> QED BY <2>1, <1>1 DEF Range
  <1>6. Range(Front(s)) \cup {Last(s)} \subseteq Range(s)
    BY <1>1, <1>2 DEF Range, Last
  <1> QED BY <1>2, <1>4, <1>5, <1>6

\* Without repetitions, the top does not occur below itself.
LEMMA PopInjective ==
    ASSUME NEW S, NEW s \in Seq(S), s # <<>>, IsInjective(s)
    PROVE  /\ IsInjective(Front(s))
           /\ Last(s) \notin Range(Front(s))
  <1>1. /\ Len(s) \in Nat \ {0}
        /\ Len(Front(s)) = Len(s) - 1
        /\ \A i \in 1..(Len(s) - 1) : Front(s)[i] = s[i]
        /\ DOMAIN s = 1..Len(s)
        /\ DOMAIN Front(s) = 1..(Len(s) - 1)
    BY FrontIsPrefix
  <1>2. IsInjective(Front(s))
    BY <1>1 DEF IsInjective
  <1>3. \A i \in 1..(Len(s) - 1) : Front(s)[i] # s[Len(s)]
    BY <1>1 DEF IsInjective
  <1> QED BY <1>1, <1>2, <1>3 DEF Range, Last

\* A list has at least as many entries as different elements.
LEMMA RangeCardinality ==
    ASSUME NEW S, NEW s \in Seq(S)
    PROVE  Cardinality(Range(s)) <= Len(s)
  <1>1. Len(s) \in Nat /\ DOMAIN s = 1..Len(s)
    OBVIOUS
  <1>2. s \in [1..Len(s) -> Range(s)]
    BY <1>1 DEF Range
  <1>3. \A e \in Range(s) : \E i \in 1..Len(s) : s[i] = e
    BY <1>1 DEF Range
  <1>4. ExistsSurjection(1..Len(s), Range(s))
    BY <1>2, <1>3 DEF ExistsSurjection, Surjection
  <1> QED BY <1>1, <1>4, FS_SurjCardinalityBound

-----------------------------------------------------------------------------

\* Induction on the natural numbers, for a set of them.
LEMMA Induction ==
    ASSUME NEW S, 0 \in S, \A n \in Nat \cap S : n + 1 \in S
    PROVE  Nat \subseteq S
  <1> DEFINE Less == {ss \in Nat \X Nat : ss[1] < ss[2]}
             Rest == Nat \ S
  <1>1. IsWellFoundedOn(Less, Nat)
    BY NatLessThanWellFounded DEF OpToRel
  <1>2. ASSUME Rest # {} PROVE FALSE
    <2>1. PICK x \in Rest : \A y \in Rest : ~(<<y, x>> \in Less)
      <3> HIDE DEF Less
      <3>1. Rest \subseteq Nat
        OBVIOUS
      <3> HIDE DEF Rest
      <3> QED BY <1>1, <1>2, <3>1, WFMin, Zenon
    <2>2. x \in Nat /\ x # 0 /\ x - 1 \in Nat
      BY <2>1
    <2>3. x - 1 \in Rest
      <3>1. x - 1 \in S => (x - 1) + 1 \in S
        BY <2>2
      <3> QED BY <3>1, <2>2
    <2>4. <<x - 1, x>> \in Less
      BY <2>2
    <2> QED BY <2>1, <2>3, <2>4
  <1> QED BY <1>2

\* A value for 0 and a step from each value to the next define a function.
LEMMA RecursionExists ==
    ASSUME NEW V, NEW base \in V, NEW step \in [Nat -> [V -> V]]
    PROVE  \E f \in [Nat -> V] :
              f = [n \in Nat |-> IF n = 0 THEN base ELSE step[n][f[n - 1]]]
  <1> DEFINE Follows(g, i) == g[i] = IF i = 0 THEN base ELSE step[i][g[i - 1]]
             Part(n) == {g \in [0..n -> V] : \A i \in 0..n : Follows(g, i)}
             Defined == {n \in Nat : Part(n) # {}}
             Agreed == {n \in Nat : \A a, b \in Nat : \A g \in Part(a), h \in Part(b) :
                                       n <= a /\ n <= b => g[n] = h[n]}
  <1>1. Nat \subseteq Defined
    <2>1. 0 \in Defined
      <3>1. [i \in 0..0 |-> base] \in Part(0)
        OBVIOUS
      <3> QED BY <3>1
    <2>2. ASSUME NEW n \in Nat \cap Defined PROVE n + 1 \in Defined
      <3>1. PICK g \in [0..n -> V] : \A i \in 0..n : Follows(g, i)
        BY <2>2
      <3> DEFINE h == [i \in 0..(n + 1) |-> IF i = n + 1 THEN step[n + 1][g[n]] ELSE g[i]]
      <3>2. h \in [0..(n + 1) -> V]
        <4>1. n \in 0..n /\ g[n] \in V /\ n + 1 \in Nat
          BY <3>1
        <4>2. step[n + 1][g[n]] \in V
          BY <4>1
        <4> QED BY <3>1, <4>2
      <3>3. ASSUME NEW i \in 0..(n + 1) PROVE Follows(h, i)
        <4>1. CASE i = n + 1
          BY <4>1
        <4>2. CASE i \in 0..n
          <5>1. Follows(g, i)
            BY <3>1, <4>2
          <5>2. h[i] = g[i]
            BY <4>2
          <5>3. i # 0 => h[i - 1] = g[i - 1]
            BY <4>2
          <5> QED BY <5>1, <5>2, <5>3
        <4> QED BY <4>1, <4>2
      <3>4. h \in Part(n + 1)
        <4> HIDE DEF h
        <4> QED BY <3>2, <3>3
      <3> HIDE DEF Part, h
      <3> QED BY <3>4
    <2> HIDE DEF Defined
    <2> QED BY <2>1, <2>2, Induction
  <1>2. Nat \subseteq Agreed
    <2>1. 0 \in Agreed
      OBVIOUS
    <2>2. ASSUME NEW n \in Nat \cap Agreed PROVE n + 1 \in Agreed
      <3>1. ASSUME NEW a \in Nat, NEW b \in Nat, NEW g \in Part(a), NEW h \in Part(b),
                   n + 1 <= a, n + 1 <= b
            PROVE  g[n + 1] = h[n + 1]
        <4>1. g[n] = h[n]
          <5>1. n <= a /\ n <= b
            BY <3>1
          <5> HIDE DEF Part
          <5> QED BY <2>2, <5>1
        <4>2. n + 1 \in 0..a /\ n + 1 \in 0..b /\ n + 1 # 0 /\ (n + 1) - 1 = n
          BY <3>1
        <4>3. Follows(g, n + 1) /\ Follows(h, n + 1)
          BY <4>2
        <4> QED BY <4>1, <4>2, <4>3
      <3> HIDE DEF Part
      <3> QED BY <3>1
    <2> HIDE DEF Agreed
    <2> QED BY <2>1, <2>2, Induction
  <1> DEFINE part(n) == CHOOSE g \in Part(n) : TRUE
             f == [n \in Nat |-> part(n)[n]]
  <1>3. ASSUME NEW n \in Nat PROVE part(n) \in Part(n)
    <2>1. Part(n) # {}
      BY <1>1
    <2> HIDE DEF Part
    <2> QED BY <2>1
  <1>4. ASSUME NEW n \in Nat PROVE f[n] \in V
    <2>1. part(n) \in [0..n -> V] /\ n \in 0..n
      <3>1. part(n) \in Part(n)
        BY <1>3
      <3> HIDE DEF part
      <3> QED BY <3>1
    <2> HIDE DEF part
    <2> QED BY <2>1
  <1>5. ASSUME NEW n \in Nat
        PROVE  f[n] = IF n = 0 THEN base ELSE step[n][f[n - 1]]
    <2>1. Follows(part(n), n)
      <3>1. n \in 0..n
        OBVIOUS
      <3>2. part(n) \in Part(n)
        BY <1>3
      <3> HIDE DEF part
      <3> QED BY <3>1, <3>2
    <2>2. CASE n = 0
      <3> HIDE DEF part
      <3> QED BY <2>1, <2>2
    <2>3. CASE n # 0
      <3>1. n - 1 \in Nat /\ n - 1 <= n /\ n - 1 <= n - 1
        BY <2>3
      <3>2. part(n) \in Part(n) /\ part(n - 1) \in Part(n - 1)
        BY <1>3, <3>1
      <3>3. part(n)[n - 1] = part(n - 1)[n - 1]
        <4>1. n - 1 \in Agreed
          BY <1>2, <3>1
        <4> HIDE DEF part, Part
        <4> QED BY <3>1, <3>2, <4>1
      <3>4. f[n - 1] = part(n - 1)[n - 1]
        <4> HIDE DEF part
        <4> QED BY <3>1
      <3> HIDE DEF part
      <3> QED BY <2>1, <2>3, <3>3, <3>4
    <2> QED BY <2>2, <2>3
  <1>6. f \in [Nat -> V]
    <2> HIDE DEF part
    <2> QED BY <1>4
  <1>7. f = [n \in Nat |-> IF n = 0 THEN base ELSE step[n][f[n - 1]]]
    <2> HIDE DEF f
    <2> QED BY <1>5, <1>6
  <1> HIDE DEF f
  <1> QED BY <1>6, <1>7

\* The same for a function on a beginning of the natural numbers.
Recurs(f, l, base, step) ==
    \A n \in 0..l : f[n] = IF n = 0 THEN base ELSE step[n][f[n - 1]]

LEMMA BoundedRecursionExists ==
    ASSUME NEW V, NEW l \in Nat, NEW base \in V, NEW step \in [1..l -> [V -> V]]
    PROVE  \E f \in [0..l -> V] : Recurs(f, l, base, step)
  <1> DEFINE Follows(g, i) == g[i] = IF i = 0 THEN base ELSE step[i][g[i - 1]]
             Part(n) == {g \in [0..n -> V] : \A i \in 0..n : Follows(g, i)}
             Defined == {n \in Nat : n <= l => Part(n) # {}}
  <1>1. 0 \in Defined
    <2>1. [i \in 0..0 |-> base] \in Part(0)
      OBVIOUS
    <2> QED BY <2>1
  <1>2. ASSUME NEW n \in Nat \cap Defined PROVE n + 1 \in Defined
    <2> SUFFICES ASSUME n + 1 <= l PROVE Part(n + 1) # {}
      <3>1. n + 1 \in Nat
        OBVIOUS
      <3> HIDE DEF Part
      <3> QED BY <3>1
    <2>1. PICK g \in [0..n -> V] : \A i \in 0..n : Follows(g, i)
      BY <1>2
    <2> DEFINE h == [i \in 0..(n + 1) |-> IF i = n + 1 THEN step[n + 1][g[n]] ELSE g[i]]
    <2>2. h \in [0..(n + 1) -> V]
      <3>1. n \in 0..n /\ g[n] \in V /\ n + 1 \in 1..l
        BY <2>1
      <3>2. step[n + 1][g[n]] \in V
        BY <3>1
      <3> QED BY <2>1, <3>2
    <2>3. ASSUME NEW i \in 0..(n + 1) PROVE Follows(h, i)
      <3>1. CASE i = n + 1
        BY <3>1
      <3>2. CASE i \in 0..n
        <4>1. Follows(g, i)
          BY <2>1, <3>2
        <4>2. h[i] = g[i]
          BY <3>2
        <4>3. i # 0 => h[i - 1] = g[i - 1]
          BY <3>2
        <4> QED BY <4>1, <4>2, <4>3
      <3> QED BY <3>1, <3>2
    <2>4. h \in Part(n + 1)
      <3> HIDE DEF h
      <3> QED BY <2>2, <2>3
    <2> HIDE DEF Part, h
    <2> QED BY <2>4
  <1>3. l \in Defined
    <2> HIDE DEF Defined
    <2> QED BY <1>1, <1>2, Induction
  <1>4. PICK f \in [0..l -> V] : \A i \in 0..l : Follows(f, i)
    BY <1>3
  <1> QED BY <1>4 DEF Recurs

-----------------------------------------------------------------------------
(* Sums of lists, by the sums of their beginnings.                         *)

AddsUp(s, total) ==
    \E f \in [Nat -> Int] : /\ f[0] = 0 /\ f[Len(s)] = total
                            /\ \A i \in 1..Len(s) : f[i] = f[i - 1] + s[i]

\* The order of three summands does not matter.
LEMMA SummandsSwap == \A a, b, c \in Int : (a + b) + c = (a + c) + b
  OBVIOUS

LEMMA SummandsGroup == \A a, b, c \in Int : (a + b) + c = a + (b + c)
  OBVIOUS

LEMMA SummandsOrder == \A a, b, c, d \in Int : a <= b /\ c <= d => a + c <= b + d
  OBVIOUS

\* The elements of a list.
LEMMA Elements ==
    ASSUME NEW S, NEW s \in Seq(S)
    PROVE  Len(s) \in Nat /\ \A k \in 1..Len(s) : s[k] \in S
  OBVIOUS

\* Zeros add up to zero.
LEMMA AddsUpZeros ==
    ASSUME NEW s \in Seq(Int), \A i \in 1..Len(s) : s[i] = 0
    PROVE  AddsUp(s, 0)
  <1> DEFINE f == [i \in Nat |-> 0]
  <1>1. f \in [Nat -> Int] /\ f[0] = 0 /\ f[Len(s)] = 0
    OBVIOUS
  <1>2. \A i \in 1..Len(s) : f[i] = f[i - 1] + s[i]
    OBVIOUS
  <1> QED BY <1>1, <1>2 DEF AddsUp

\* An element that grows lets the sum grow.
Grown(t, s, i, d) ==
    /\ Len(t) = Len(s)
    /\ \A k \in 1..Len(s) : t[k] = IF k = i THEN s[k] + d ELSE s[k]

LEMMA AddsUpMore ==
    ASSUME NEW s \in Seq(Int), NEW total \in Int, AddsUp(s, total),
           NEW i \in 1..Len(s), NEW d \in Int, NEW t \in Seq(Int), Grown(t, s, i, d)
    PROVE  AddsUp(t, total + d)
  <1> SUFFICES ASSUME Len(t) = Len(s),
                      \A k \in 1..Len(s) : t[k] = IF k = i THEN s[k] + d ELSE s[k]
               PROVE  AddsUp(t, total + d)
    BY DEF Grown
  <1>1. PICK f \in [Nat -> Int] :
           /\ f[0] = 0 /\ f[Len(s)] = total
           /\ \A k \in 1..Len(s) : f[k] = f[k - 1] + s[k]
    BY DEF AddsUp
  <1> DEFINE g == [k \in Nat |-> IF k < i THEN f[k] ELSE f[k] + d]
  <1>2. /\ g \in [Nat -> Int]
        /\ \A k \in Nat : g[k] = IF k < i THEN f[k] ELSE f[k] + d
    <2>1. \A k \in Nat : (IF k < i THEN f[k] ELSE f[k] + d) \in Int
      OBVIOUS
    <2> QED BY <2>1
  <1> HIDE DEF g
  <1>3. g[0] = 0 /\ g[Len(t)] = total + d
    BY <1>1, <1>2
  <1>4. ASSUME NEW k \in 1..Len(t) PROVE g[k] = g[k - 1] + t[k]
    <2>1. k \in Nat /\ k - 1 \in Nat /\ s[k] \in Int
      OBVIOUS
    <2>2. f[k] = f[k - 1] + s[k] /\ f[k] \in Int /\ f[k - 1] \in Int
      BY <1>1, <2>1
    <2>3. t[k] = IF k = i THEN s[k] + d ELSE s[k]
      OBVIOUS
    <2>4. /\ g[k] = IF k < i THEN f[k] ELSE f[k] + d
          /\ g[k - 1] = IF k - 1 < i THEN f[k - 1] ELSE f[k - 1] + d
      BY <1>2, <2>1
    <2>5. CASE k < i
      BY <2>2, <2>3, <2>4, <2>5
    <2>6. CASE k = i
      <3>1. ~(k < i) /\ k - 1 < i
        BY <2>1, <2>6
      <3>2. g[k] = f[k] + d /\ g[k - 1] = f[k - 1] /\ t[k] = s[k] + d
        BY <2>3, <2>4, <2>6, <3>1
      <3>3. (f[k - 1] + s[k]) + d = f[k - 1] + (s[k] + d)
        <4>1. f[k - 1] \in Int /\ s[k] \in Int /\ d \in Int
          BY <2>1, <2>2
        <4> QED BY <4>1, SummandsGroup, Zenon
      <3> QED BY <2>2, <3>2, <3>3
    <2>7. CASE k > i
      <3>1. ~(k < i) /\ ~(k - 1 < i) /\ k # i
        BY <2>1, <2>7
      <3>2. g[k] = f[k] + d /\ g[k - 1] = f[k - 1] + d /\ t[k] = s[k]
        BY <2>3, <2>4, <3>1
      <3>3. (f[k - 1] + s[k]) + d = (f[k - 1] + d) + s[k]
        <4>1. f[k - 1] \in Int /\ s[k] \in Int /\ d \in Int
          BY <2>1, <2>2
        <4> QED BY <4>1, SummandsSwap, Zenon
      <3> QED BY <2>2, <3>2, <3>3
    <2> QED BY <2>5, <2>6, <2>7
  <1> QED BY <1>2, <1>3, <1>4 DEF AddsUp

\* A list has one sum.
LEMMA AddsUpOnce ==
    ASSUME NEW s \in Seq(Int), NEW a, NEW b, AddsUp(s, a), AddsUp(s, b)
    PROVE  a = b
  <1>1. PICK f \in [Nat -> Int] : /\ f[0] = 0 /\ f[Len(s)] = a
                                  /\ \A i \in 1..Len(s) : f[i] = f[i - 1] + s[i]
    BY DEF AddsUp
  <1>2. PICK g \in [Nat -> Int] : /\ g[0] = 0 /\ g[Len(s)] = b
                                  /\ \A i \in 1..Len(s) : g[i] = g[i - 1] + s[i]
    BY DEF AddsUp
  <1> DEFINE Same == {i \in Nat : i <= Len(s) => f[i] = g[i]}
  <1>3. 0 \in Same
    BY <1>1, <1>2
  <1>4. ASSUME NEW i \in Nat \cap Same PROVE i + 1 \in Same
    <2>1. i + 1 <= Len(s) => i + 1 \in 1..Len(s) /\ (i + 1) - 1 = i /\ f[i] = g[i]
      BY <1>4
    <2> QED BY <1>1, <1>2, <2>1
  <1>5. Nat \subseteq Same
    <2> HIDE DEF Same
    <2> QED BY <1>3, <1>4, Induction
  <1>6. Len(s) \in Nat
    OBVIOUS
  <1> QED BY <1>1, <1>2, <1>5, <1>6

\* SumOfSeq is the sum of a list.
LEMMA SumAddsUp ==
    ASSUME NEW s \in Seq(Int)
    PROVE  SumOfSeq(s) \in Int /\ AddsUp(s, SumOfSeq(s))
  <1> DEFINE l == Len(s)
             step == [i \in 1..l |-> [v \in Int |-> v + s[i]]]
             Sum(h) == h = [i \in 0..l |-> IF i = 0 THEN 0 ELSE h[i - 1] + s[i]]
  <1>1. l \in Nat /\ step \in [1..l -> [Int -> Int]] /\ 0 \in Int
    OBVIOUS
  <1>2. PICK f \in [0..l -> Int] : Recurs(f, l, 0, step)
    <2> HIDE DEF step, l
    <2> QED BY <1>1, BoundedRecursionExists
  <1>3. ASSUME NEW i \in 0..l PROVE f[i] = IF i = 0 THEN 0 ELSE f[i - 1] + s[i]
    <2>1. CASE i = 0
      BY <1>2, <2>1 DEF Recurs
    <2>2. CASE i # 0
      <3>1. i \in 1..l /\ f[i - 1] \in Int
        BY <2>2
      <3>2. f[i] = step[i][f[i - 1]]
        <4> HIDE DEF step
        <4> QED BY <1>2, <2>2 DEF Recurs
      <3> QED BY <2>2, <3>1, <3>2
    <2> QED BY <2>1, <2>2
  <1>4. Sum(f)
    <2> HIDE DEF l
    <2> QED BY <1>3
  <1> DEFINE sum == CHOOSE h : Sum(h)
  <1>5. Sum(sum)
    <2> HIDE DEF Sum
    <2> QED BY <1>4
  <1>6. SumOfSeq(s) = sum[l]
    BY DEF SumOfSeq
  <1> HIDE DEF sum
  <1>7. \A i \in 0..l : sum[i] = IF i = 0 THEN 0 ELSE sum[i - 1] + s[i]
    BY <1>5
  <1> HIDE DEF l
  <1> DEFINE Same == {i \in Nat : i <= l => sum[i] = f[i]}
  <1>8. 0 \in Same
    BY <1>1, <1>3, <1>7
  <1>9. ASSUME NEW i \in Nat \cap Same PROVE i + 1 \in Same
    <2>1. i + 1 <= l => i + 1 \in 0..l /\ i + 1 # 0 /\ (i + 1) - 1 = i /\ sum[i] = f[i]
      BY <1>1, <1>9
    <2> QED BY <1>3, <1>7, <2>1
  <1>10. Nat \subseteq Same
    <2> HIDE DEF Same
    <2> QED BY <1>8, <1>9, Induction
  <1> DEFINE g == [i \in Nat |-> IF i <= l THEN f[i] ELSE 0]
  <1>11. g \in [Nat -> Int] /\ g[0] = 0 /\ g[l] = sum[l] /\ sum[l] \in Int
    <2>1. sum[l] = f[l] /\ f[0] = 0
      BY <1>1, <1>3, <1>10
    <2> QED BY <1>1, <2>1
  <1>12. ASSUME NEW i \in 1..l PROVE g[i] = g[i - 1] + s[i]
    <2>1. f[i] = f[i - 1] + s[i]
      BY <1>1, <1>3
    <2> QED BY <1>1, <2>1
  <1> HIDE DEF g
  <1> QED BY <1>6, <1>11, <1>12 DEF AddsUp, l

\* Zeros, an element that grows, two lists added up, a longer list.
LEMMA SumOfZeros ==
    ASSUME NEW s \in Seq(Int), \A i \in 1..Len(s) : s[i] = 0
    PROVE  SumOfSeq(s) = 0
  <1>1. AddsUp(s, 0)
    BY AddsUpZeros
  <1> QED BY <1>1, SumAddsUp, AddsUpOnce

LEMMA SumGrows ==
    ASSUME NEW s \in Seq(Int), NEW t \in Seq(Int), NEW i \in 1..Len(s), NEW d \in Int,
           Grown(t, s, i, d)
    PROVE  SumOfSeq(t) = SumOfSeq(s) + d
  <1>1. SumOfSeq(s) \in Int /\ AddsUp(s, SumOfSeq(s)) /\ AddsUp(t, SumOfSeq(t))
    BY SumAddsUp
  <1>2. AddsUp(t, SumOfSeq(s) + d)
    BY <1>1, AddsUpMore
  <1> QED BY <1>1, <1>2, AddsUpOnce

Extended(t, s, d) ==
    /\ Len(t) = Len(s) + 1 /\ t[Len(t)] = d
    /\ \A i \in 1..Len(s) : t[i] = s[i]

LEMMA SumExtends ==
    ASSUME NEW s \in Seq(Int), NEW t \in Seq(Int), NEW d \in Int, Extended(t, s, d)
    PROVE  SumOfSeq(t) = SumOfSeq(s) + d
  <1>1. PICK f \in [Nat -> Int] : /\ f[0] = 0 /\ f[Len(s)] = SumOfSeq(s)
                                  /\ \A i \in 1..Len(s) : f[i] = f[i - 1] + s[i]
    BY SumAddsUp DEF AddsUp
  <1> DEFINE g == [f EXCEPT ![Len(t)] = f[Len(s)] + d]
  <1>2. Len(t) \in Nat /\ Len(s) \in Nat /\ Len(t) = Len(s) + 1 /\ Len(t) # 0
    BY DEF Extended
  <1>3. /\ g \in [Nat -> Int] /\ g[Len(t)] = f[Len(s)] + d
        /\ \A i \in 0..Len(s) : g[i] = f[i]
    BY <1>2
  <1> HIDE DEF g
  <1>4. ASSUME NEW i \in 1..Len(t) PROVE g[i] = g[i - 1] + t[i]
    <2>1. CASE i = Len(t)
      <3>1. i - 1 = Len(s) /\ g[i - 1] = f[Len(s)] /\ t[i] = d
        BY <1>2, <1>3, <2>1 DEF Extended
      <3> QED BY <1>3, <2>1, <3>1
    <2>2. CASE i # Len(t)
      <3>1. i \in 1..Len(s) /\ i \in 0..Len(s) /\ i - 1 \in 0..Len(s)
        BY <1>2, <2>2
      <3>2. t[i] = s[i]
        BY <3>1 DEF Extended
      <3> QED BY <1>1, <1>3, <3>1, <3>2
    <2> QED BY <2>1, <2>2
  <1>5. g[0] = 0 /\ f[Len(s)] \in Int
    BY <1>1, <1>2, <1>3
  <1>6. AddsUp(t, SumOfSeq(s) + d)
    BY <1>1, <1>3, <1>4, <1>5 DEF AddsUp
  <1>7. AddsUp(t, SumOfSeq(t))
    BY SumAddsUp
  <1> QED BY <1>6, <1>7, AddsUpOnce

Together(u, s, t) ==
    /\ Len(s) = Len(u) /\ Len(t) = Len(u)
    /\ \A i \in 1..Len(u) : u[i] = s[i] + t[i]

LEMMA SumOfBoth ==
    ASSUME NEW s \in Seq(Int), NEW t \in Seq(Int), NEW u \in Seq(Int), Together(u, s, t)
    PROVE  SumOfSeq(u) = SumOfSeq(s) + SumOfSeq(t)
  <1>1. PICK f \in [Nat -> Int] : /\ f[0] = 0 /\ f[Len(s)] = SumOfSeq(s)
                                  /\ \A i \in 1..Len(s) : f[i] = f[i - 1] + s[i]
    BY SumAddsUp DEF AddsUp
  <1>2. PICK g \in [Nat -> Int] : /\ g[0] = 0 /\ g[Len(t)] = SumOfSeq(t)
                                  /\ \A i \in 1..Len(t) : g[i] = g[i - 1] + t[i]
    BY SumAddsUp DEF AddsUp
  <1> DEFINE h == [i \in Nat |-> f[i] + g[i]]
  <1>3. h \in [Nat -> Int] /\ \A i \in Nat : h[i] = f[i] + g[i]
    OBVIOUS
  <1> HIDE DEF h
  <1>4. Len(u) \in Nat /\ Len(s) = Len(u) /\ Len(t) = Len(u)
    BY DEF Together
  <1>5. h[0] = 0 /\ h[Len(u)] = SumOfSeq(s) + SumOfSeq(t)
    BY <1>1, <1>2, <1>3, <1>4
  <1>6. ASSUME NEW i \in 1..Len(u) PROVE h[i] = h[i - 1] + u[i]
    <2>1. i \in Nat /\ i - 1 \in Nat
      BY <1>4
    <2>2. f[i] = f[i - 1] + s[i] /\ g[i] = g[i - 1] + t[i] /\ u[i] = s[i] + t[i]
      BY <1>1, <1>2, <1>4 DEF Together
    <2>3. h[i] = f[i] + g[i] /\ h[i - 1] = f[i - 1] + g[i - 1]
      BY <1>3, <2>1
    <2>4. f[i - 1] \in Int /\ g[i - 1] \in Int /\ s[i] \in Int /\ t[i] \in Int
      <3>1. f[i - 1] \in Int /\ g[i - 1] \in Int
        BY <2>1
      <3>2. i \in 1..Len(s) /\ i \in 1..Len(t)
        BY <1>4
      <3> QED BY <3>1, <3>2, Elements
    <2>5. (f[i - 1] + s[i]) + (g[i - 1] + t[i]) = (f[i - 1] + g[i - 1]) + (s[i] + t[i])
      <3> DEFINE a == f[i - 1]
                 b == s[i]
                 c == g[i - 1]
                 d == t[i]
      <3>1. a \in Int /\ b \in Int /\ c \in Int /\ d \in Int
        BY <2>4
      <3> HIDE DEF a, b, c, d
      <3>2. (a + b) + (c + d) = (a + c) + (b + d)
        BY <3>1
      <3> QED BY <3>2 DEF a, b, c, d
    <2> QED BY <2>2, <2>3, <2>5
  <1>7. AddsUp(u, SumOfSeq(s) + SumOfSeq(t))
    BY <1>3, <1>5, <1>6 DEF AddsUp
  <1>8. AddsUp(u, SumOfSeq(u))
    BY SumAddsUp
  <1> QED BY <1>7, <1>8, AddsUpOnce

\* Smaller elements have a smaller sum.
AtMost(s, t) == Len(s) = Len(t) /\ \A i \in 1..Len(s) : s[i] <= t[i]

LEMMA SumIsMonotone ==
    ASSUME NEW s \in Seq(Int), NEW t \in Seq(Int), AtMost(s, t)
    PROVE  SumOfSeq(s) <= SumOfSeq(t)
  <1>1. PICK f \in [Nat -> Int] : /\ f[0] = 0 /\ f[Len(s)] = SumOfSeq(s)
                                  /\ \A i \in 1..Len(s) : f[i] = f[i - 1] + s[i]
    BY SumAddsUp DEF AddsUp
  <1>2. PICK g \in [Nat -> Int] : /\ g[0] = 0 /\ g[Len(t)] = SumOfSeq(t)
                                  /\ \A i \in 1..Len(t) : g[i] = g[i - 1] + t[i]
    BY SumAddsUp DEF AddsUp
  <1>3. Len(s) \in Nat /\ Len(t) = Len(s) /\ \A i \in 1..Len(s) : s[i] <= t[i]
    BY DEF AtMost
  <1> DEFINE Below == {i \in Nat : i <= Len(s) => f[i] <= g[i]}
  <1>4. 0 \in Below
    BY <1>1, <1>2
  <1>5. ASSUME NEW i \in Nat \cap Below PROVE i + 1 \in Below
    <2> SUFFICES ASSUME i + 1 <= Len(s) PROVE f[i + 1] <= g[i + 1]
      OBVIOUS
    <2>1. i + 1 \in 1..Len(s) /\ (i + 1) - 1 = i /\ f[i] <= g[i]
      BY <1>3, <1>5
    <2>2. f[i + 1] = f[i] + s[i + 1] /\ g[i + 1] = g[i] + t[i + 1]
      BY <1>1, <1>2, <1>3, <2>1
    <2>3. /\ f[i] \in Int /\ g[i] \in Int /\ s[i + 1] \in Int /\ t[i + 1] \in Int
          /\ s[i + 1] <= t[i + 1]
      BY <1>3, <2>1
    <2>4. f[i] + s[i + 1] <= g[i] + t[i + 1]
      BY <2>1, <2>3, SummandsOrder, Zenon
    <2> QED BY <2>2, <2>4
  <1>6. Nat \subseteq Below
    <2> HIDE DEF Below
    <2> QED BY <1>4, <1>5, Induction
  <1> QED BY <1>1, <1>2, <1>3, <1>6

\* A sum of numbers that are not negative is not negative.
LEMMA SumIsNatural ==
    ASSUME NEW s \in Seq(Int), \A i \in 1..Len(s) : s[i] >= 0
    PROVE  SumOfSeq(s) \in Nat
  <1> DEFINE z == [i \in 1..Len(s) |-> 0]
  <1>1. z \in Seq(Int) /\ Len(z) = Len(s) /\ \A i \in 1..Len(z) : z[i] = 0
    OBVIOUS
  <1> HIDE DEF z
  <1>2. AtMost(z, s)
    BY <1>1 DEF AtMost
  <1>3. SumOfSeq(z) = 0 /\ SumOfSeq(z) <= SumOfSeq(s) /\ SumOfSeq(s) \in Int
    BY <1>1, <1>2, SumOfZeros, SumIsMonotone, SumAddsUp
  <1> QED BY <1>3

=============================================================================
