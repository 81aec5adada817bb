------------------------- MODULE LazySolvers_proofs -------------------------
(***************************************************************************)
(* Theorems about the two lazy solvers: for every graph, every number of   *)
(* nodes and every outcome of the estimates, no node is lost or taken      *)
(* twice, and what is known of a node is never out of date.                *)
(***************************************************************************)
EXTENDS LazySolvers, SequenceFacts, TLAPS

\* No seed before the first one, and nothing updated before the loop.
Fresh == /\ pc \in {"deltas", "first", "loop", "done"}
         /\ pc \in {"deltas", "first"} => /\ seed_set = <<>>
                                          /\ updated_with_total_spread = Celf!Empty
                                          /\ updated_ = {}

Shape == /\ solver \in {"CelfGreedy", "IPA"}
         /\ solver = "IPA" => updated_with_total_spread = Celf!Empty
         /\ solver = "CelfGreedy" => updated_ = {}
         /\ seed_set \in Seq(NodeId)
         /\ DOMAIN spread_ = NodeId

IInv == Fresh /\ Shape /\ QueueAndSeedsPartitionTheNodes

\* A node that moves from the queue to the seeds leaves the partition as it was.
LEMMA Moving ==
    ASSUME IInv, pc # "deltas", NEW n \in priority_queue,
           priority_queue' = priority_queue \ {n}, seed_set' = Append(seed_set, n)
    PROVE  /\ seed_set' \in Seq(NodeId)
           /\ priority_queue' = NodeId \ Seeds'
           /\ IsInjective(seed_set')
  <1>1. /\ seed_set \in Seq(NodeId) /\ IsInjective(seed_set)
        /\ n \in NodeId /\ n \notin Range(seed_set)
    BY DEF IInv, Shape, QueueAndSeedsPartitionTheNodes, Seeds
  <1>2. /\ seed_set' \in Seq(NodeId)
        /\ Range(seed_set') = Range(seed_set) \cup {n}
    BY <1>1, PushRange
  <1>3. IsInjective(seed_set')
    BY <1>1, PushInjective
  <1> QED BY <1>2, <1>3 DEF IInv, QueueAndSeedsPartitionTheNodes, Seeds

LEMMA InitInvariant == Init => IInv
  <1> SUFFICES ASSUME Init PROVE IInv
    OBVIOUS
  <1>1. /\ seed_set = <<>> /\ pc = "deltas" /\ updated_ = {}
        /\ updated_with_total_spread = Celf!Empty
        /\ solver \in {"CelfGreedy", "IPA"}
    BY DEF Init, Celf!Init, IPA!Init, NoCelf, NoIPA
  <1>2. DOMAIN spread_ = NodeId
    BY DEF Init, NoIPA, IPA!Init, IPA!ZeroSpread, IPA!NodeId, NodeId
  <1> QED BY <1>1, <1>2 DEF IInv, Fresh, Shape, QueueAndSeedsPartitionTheNodes

\* The steps of CelfGreedy.
LEMMA CelfInvariant == IInv /\ CelfStep => IInv'
  <1> SUFFICES ASSUME IInv, CelfStep PROVE IInv'
    OBVIOUS
  <1> USE DEF CelfStep, ipa_vars
  <1>1. CASE Celf!EvaluateAll
    <2>1. seed_set = <<>> /\ seed_set' = seed_set
      BY <1>1 DEF Celf!EvaluateAll, IInv, Fresh
    <2>2. Seeds' = {} /\ IsInjective(seed_set')
      BY <2>1 DEF Seeds, Range, IsInjective
    <2> QED BY <1>1, <2>1, <2>2 DEF Celf!EvaluateAll, IInv, Fresh, Shape, QueueAndSeedsPartitionTheNodes
  <1>2. CASE Celf!TakeFirst
    <2>1. PICK n \in priority_queue : /\ priority_queue' = priority_queue \ {n}
                                      /\ seed_set' = Append(seed_set, n)
      BY <1>2 DEF Celf!TakeFirst, Celf!IsTop, Celf!Popped
    <2>2. pc # "deltas" /\ pc' = "loop"
      BY <1>2 DEF Celf!TakeFirst
    <2> QED BY <1>2, <2>1, <2>2, Moving DEF Celf!TakeFirst, IInv, Fresh, Shape, QueueAndSeedsPartitionTheNodes
  <1>3. CASE Celf!AddUpToDate
    <2>1. PICK n \in priority_queue : /\ priority_queue' = priority_queue \ {n}
                                      /\ seed_set' = Append(seed_set, n)
      BY <1>3 DEF Celf!AddUpToDate, Celf!IsTop, Celf!Popped
    <2>2. pc = "loop" /\ pc' = "loop"
      BY <1>3 DEF Celf!AddUpToDate, Celf!Looping
    <2> QED BY <1>3, <2>1, <2>2, Moving DEF Celf!AddUpToDate, IInv, Fresh, Shape, QueueAndSeedsPartitionTheNodes
  <1>4. CASE Celf!Refresh
    <2>1. pc = "loop" /\ pc' = "loop"
      BY <1>4 DEF Celf!Refresh, Celf!Looping
    <2>2. CASE UNCHANGED <<priority_queue, seed_set>>
      BY <1>4, <2>1, <2>2 DEF Celf!Refresh, IInv, Fresh, Shape, QueueAndSeedsPartitionTheNodes, Seeds
    <2>3. CASE ~UNCHANGED <<priority_queue, seed_set>>
      <3>1. PICK n \in priority_queue : /\ priority_queue' = priority_queue \ {n}
                                        /\ seed_set' = Append(seed_set, n)
        BY <1>4, <2>3 DEF Celf!Refresh, Celf!IsTop, Celf!Popped
      <3> QED BY <1>4, <2>1, <3>1, Moving DEF Celf!Refresh, IInv, Fresh, Shape, QueueAndSeedsPartitionTheNodes
    <2> QED BY <2>2, <2>3
  <1>5. CASE Celf!Return
    BY <1>5 DEF Celf!Return, IInv, Fresh, Shape, QueueAndSeedsPartitionTheNodes, Seeds
  <1> QED BY <1>1, <1>2, <1>3, <1>4, <1>5 DEF Celf!Next

\* The steps of IPASolver.
LEMMA IPAInvariant == IInv /\ IPAStep => IInv'
  <1> SUFFICES ASSUME IInv, IPAStep PROVE IInv'
    OBVIOUS
  <1> USE DEF IPAStep, celf_vars
  <1>1. CASE IPA!EvaluateAll
    <2>1. seed_set = <<>> /\ seed_set' = seed_set
      BY <1>1 DEF IPA!EvaluateAll, IInv, Fresh
    <2>2. Seeds' = {} /\ IsInjective(seed_set')
      BY <2>1 DEF Seeds, Range, IsInjective
    <2>3. DOMAIN spread_' = NodeId /\ priority_queue' = NodeId
      BY <1>1 DEF IPA!EvaluateAll, IPA!NodeId, NodeId
    <2>4. pc' = "first" /\ updated_' = updated_
      BY <1>1 DEF IPA!EvaluateAll
    <2> QED BY <1>1, <2>1, <2>2, <2>3, <2>4
            DEF IPA!EvaluateAll, IInv, Fresh, Shape, QueueAndSeedsPartitionTheNodes
  <1>2. CASE IPA!TakeFirst
    <2>1. PICK n \in priority_queue : /\ priority_queue' = priority_queue \ {n}
                                      /\ seed_set' = Append(seed_set, n)
      BY <1>2 DEF IPA!TakeFirst, IPA!IsTop, IPA!Popped
    <2>2. pc # "deltas" /\ pc' = "loop"
      BY <1>2 DEF IPA!TakeFirst
    <2> QED BY <1>2, <2>1, <2>2, Moving DEF IPA!TakeFirst, IInv, Fresh, Shape, QueueAndSeedsPartitionTheNodes
  <1>3. CASE IPA!AddUpToDate
    <2>1. PICK n \in priority_queue : /\ priority_queue' = priority_queue \ {n}
                                      /\ seed_set' = Append(seed_set, n)
      BY <1>3 DEF IPA!AddUpToDate, IPA!IsTop, IPA!Popped
    <2>2. pc = "loop" /\ pc' = "loop"
      BY <1>3 DEF IPA!AddUpToDate, IPA!Looping
    <2> QED BY <1>3, <2>1, <2>2, Moving DEF IPA!AddUpToDate, IInv, Fresh, Shape, QueueAndSeedsPartitionTheNodes
  <1>4. CASE IPA!Refresh
    <2>1. pc = "loop" /\ pc' = "loop" /\ DOMAIN spread_' = NodeId
      BY <1>4 DEF IPA!Refresh, IPA!Looping, IInv, Shape
    <2>2. CASE UNCHANGED <<priority_queue, seed_set>>
      BY <1>4, <2>1, <2>2 DEF IPA!Refresh, IInv, Fresh, Shape, QueueAndSeedsPartitionTheNodes, Seeds
    <2>3. CASE ~UNCHANGED <<priority_queue, seed_set>>
      <3>1. PICK n \in priority_queue : /\ priority_queue' = priority_queue \ {n}
                                        /\ seed_set' = Append(seed_set, n)
        BY <1>4, <2>3 DEF IPA!Refresh, IPA!IsTop, IPA!Popped
      <3> QED BY <1>4, <2>1, <3>1, Moving DEF IPA!Refresh, IInv, Fresh, Shape, QueueAndSeedsPartitionTheNodes
    <2> QED BY <2>2, <2>3
  <1>5. CASE IPA!Return
    BY <1>5 DEF IPA!Return, IInv, Fresh, Shape, QueueAndSeedsPartitionTheNodes, Seeds
  <1> QED BY <1>1, <1>2, <1>3, <1>4, <1>5 DEF IPA!Next

LEMMA NextInvariant == IInv /\ [Next]_vars => IInv'
  <1>1. IInv /\ UNCHANGED vars => IInv'
    BY DEF vars, celf_vars, ipa_vars, IInv, Fresh, Shape, QueueAndSeedsPartitionTheNodes, Seeds
  <1> QED BY <1>1, CelfInvariant, IPAInvariant DEF Next

LEMMA Invariant == Spec => []IInv
  BY InitInvariant, NextInvariant, PTL DEF Spec

\* Whatever the estimates are, a node is a seed or queued, and a seed once.
THEOREM Partition == Spec => []QueueAndSeedsPartitionTheNodes
  <1>1. IInv => QueueAndSeedsPartitionTheNodes
    BY DEF IInv
  <1> QED BY <1>1, Invariant, PTL

-----------------------------------------------------------------------------

\* What is on record of a node is of the current seeds: the records are cleared with every new
\* seed, and made anew for a node only when it is evaluated.
THEOREM Current == Spec => []RecordedSpreadsAreCurrent
  <1>1. Init => RecordedSpreadsAreCurrent
    BY DEF Init, Celf!Init, IPA!Init, NoCelf, NoIPA, Celf!Empty, RecordedSpreadsAreCurrent,
           Celf!RecordedSpreadsAreCurrent, IPA!UpdatedSpreadsAreCurrent
  <1>2. ASSUME IInv, RecordedSpreadsAreCurrent, CelfStep PROVE RecordedSpreadsAreCurrent'
    <2> USE <1>2 DEF CelfStep, ipa_vars
    <2>1. CASE updated_with_total_spread' = Celf!Empty
      BY <2>1 DEF IInv, Shape, RecordedSpreadsAreCurrent, Celf!RecordedSpreadsAreCurrent, Celf!Empty
    <2>2. CASE Celf!EvaluateAll \/ Celf!TakeFirst \/ Celf!AddUpToDate
      BY <2>1, <2>2 DEF Celf!EvaluateAll, Celf!TakeFirst, Celf!AddUpToDate, Celf!Cleared, IInv, Fresh
    <2>3. CASE Celf!Refresh
      <3>1. PICK n \in NodeId : \E spread \in Celf!evaluateSpread(n, seed_set) :
                /\ n \in priority_queue
                /\ \/ updated_with_total_spread' = Celf!Empty
                   \/ /\ updated_with_total_spread' = Celf!WithSpread(updated_with_total_spread, n, spread)
                      /\ UNCHANGED <<priority_queue, seed_set>>
        BY <2>3 DEF Celf!Refresh, Celf!IsTop, Celf!Cleared
      <3>2. PICK spread \in Celf!evaluateSpread(n, seed_set) :
                \/ updated_with_total_spread' = Celf!Empty
                \/ /\ updated_with_total_spread' = Celf!WithSpread(updated_with_total_spread, n, spread)
                   /\ UNCHANGED <<priority_queue, seed_set>>
        BY <3>1
      <3>3. CASE /\ updated_with_total_spread' = Celf!WithSpread(updated_with_total_spread, n, spread)
                 /\ UNCHANGED <<priority_queue, seed_set>>
        <4>1. /\ DOMAIN updated_with_total_spread' = DOMAIN updated_with_total_spread \cup {n}
              /\ updated_with_total_spread'[n] = spread
              /\ \A m \in DOMAIN updated_with_total_spread :
                    m # n => updated_with_total_spread'[m] = updated_with_total_spread[m]
          BY <3>3 DEF Celf!WithSpread
        <4>2. \A m : Celf!evaluateSpread(m, seed_set)' = Celf!evaluateSpread(m, seed_set)
          BY <2>3, <3>3 DEF Celf!Refresh, Celf!evaluateSpread, Celf!Spread
        <4> QED BY <2>3, <3>1, <3>3, <4>1, <4>2
                DEF IInv, Shape, RecordedSpreadsAreCurrent, Celf!RecordedSpreadsAreCurrent
      <3> QED BY <2>1, <3>2, <3>3
    <2>4. CASE Celf!Return
      <3>1. \A m : Celf!evaluateSpread(m, seed_set)' = Celf!evaluateSpread(m, seed_set)
        BY <2>4 DEF Celf!Return, Celf!evaluateSpread, Celf!Spread
      <3> QED BY <2>4, <3>1 DEF Celf!Return, IInv, Shape, RecordedSpreadsAreCurrent,
                                Celf!RecordedSpreadsAreCurrent
    <2> QED BY <2>2, <2>3, <2>4 DEF Celf!Next
  <1>3. ASSUME IInv, RecordedSpreadsAreCurrent, IPAStep PROVE RecordedSpreadsAreCurrent'
    <2> USE <1>3 DEF IPAStep, celf_vars
    <2>1. CASE updated_' = {}
      BY <2>1 DEF IInv, Shape, RecordedSpreadsAreCurrent, IPA!UpdatedSpreadsAreCurrent
    <2>2. CASE IPA!EvaluateAll \/ IPA!TakeFirst \/ IPA!AddUpToDate
      BY <2>1, <2>2 DEF IPA!EvaluateAll, IPA!TakeFirst, IPA!AddUpToDate, IPA!Cleared, IInv, Fresh
    <2>3. CASE IPA!Refresh
      <3>1. PICK n \in priority_queue :
                /\ spread_' = [spread_ EXCEPT ![n] = IPA!Increment(n)]
                /\ \/ updated_' = {}
                   \/ updated_' = updated_ \cup {n} /\ UNCHANGED <<priority_queue, seed_set>>
        BY <2>3 DEF IPA!Refresh, IPA!IsTop, IPA!Cleared
      <3>2. CASE updated_' = updated_ \cup {n} /\ UNCHANGED <<priority_queue, seed_set>>
        <4>1. n \in DOMAIN spread_
          BY <3>1, <2>3 DEF IInv, Shape, IPA!Refresh, IPA!NodeId, NodeId,
                            QueueAndSeedsPartitionTheNodes, IPA!Looping
        <4>2. /\ spread_'[n] = IPA!Gain(n)
              /\ \A m \in updated_ \ {n} : spread_'[m] = spread_[m]
          BY <3>1, <4>1 DEF IPA!Increment, IPA!Gain
        <4>3. \A m : IPA!Gain(m)' = IPA!Gain(m)
          BY <2>3, <3>2 DEF IPA!Refresh, IPA!Gain, IPA!Influence, IPA!selected_seeds_
        <4> QED BY <3>2, <4>2, <4>3
                DEF IInv, Shape, RecordedSpreadsAreCurrent, IPA!UpdatedSpreadsAreCurrent
      <3> QED BY <2>1, <3>1, <3>2
    <2>4. CASE IPA!Return
      <3>1. \A m : IPA!Gain(m)' = IPA!Gain(m)
        BY <2>4 DEF IPA!Return, IPA!Gain, IPA!Influence, IPA!selected_seeds_
      <3> QED BY <2>4, <3>1 DEF IPA!Return, IInv, Shape, RecordedSpreadsAreCurrent,
                                IPA!UpdatedSpreadsAreCurrent
    <2> QED BY <2>2, <2>3, <2>4 DEF IPA!Next
  <1>4. ASSUME RecordedSpreadsAreCurrent, UNCHANGED vars PROVE RecordedSpreadsAreCurrent'
    <2>1. \A m : Celf!evaluateSpread(m, seed_set)' = Celf!evaluateSpread(m, seed_set)
      BY <1>4 DEF vars, celf_vars, Celf!evaluateSpread, Celf!Spread
    <2>2. \A m : IPA!Gain(m)' = IPA!Gain(m)
      BY <1>4 DEF vars, ipa_vars, IPA!Gain, IPA!Influence, IPA!selected_seeds_
    <2> QED BY <1>4, <2>1, <2>2 DEF vars, celf_vars, ipa_vars, RecordedSpreadsAreCurrent,
               Celf!RecordedSpreadsAreCurrent, IPA!UpdatedSpreadsAreCurrent
  <1> QED BY <1>1, <1>2, <1>3, <1>4, Invariant, PTL DEF Spec, Next

-----------------------------------------------------------------------------
(* CelfGreedy with exact spreads.  The number of nodes reached is          *)
(* submodular: what a node adds to more seeds is not more than what it     *)
(* adds to fewer, so that an outdated delta still bounds the gain.         *)

Covered(S) == UNION {reach[s] : s \in S}

LEMMA SameCardinality == ASSUME NEW S PROVE Celf!Cardinality(S) = Cardinality(S)
  BY DEF Celf!Cardinality, Cardinality

LEMMA DisjointUnion ==
    ASSUME NEW S, NEW T, IsFiniteSet(S), IsFiniteSet(T), S \cap T = {}
    PROVE  Cardinality(S \cup T) = Cardinality(S) + Cardinality(T)
  <1>1. Cardinality(S \cup T) = Cardinality(S) + Cardinality(T) - Cardinality(S \cap T)
    BY FS_Union
  <1>2. Cardinality(S \cap T) = 0
    BY FS_EmptySet
  <1>3. Cardinality(S) \in Nat /\ Cardinality(T) \in Nat
    BY FS_CardinalityType
  <1> QED BY <1>1, <1>2, <1>3

LEMMA InCovered == ASSUME NEW S, NEW x
                   PROVE  x \in Covered(S) <=> \E s \in S : x \in reach[s]
  BY Zenon DEF Covered

\* What a node adds to some seeds is what it reaches and they do not.
LEMMA SpreadGrows ==
    ASSUME reach \in [NodeId -> SUBSET NodeId], NEW S \in SUBSET NodeId, NEW n \in NodeId
    PROVE  /\ Celf!Spread(S) \in Nat
           /\ IsFiniteSet(reach[n] \ Covered(S))
           /\ Cardinality(reach[n] \ Covered(S)) \in Nat
           /\ Celf!Spread(S \cup {n}) = Celf!Spread(S) + Cardinality(reach[n] \ Covered(S))
  <1>1. IsFiniteSet(NodeId)
    BY GraphAssumption, FS_Interval DEF NodeId
  <1>2. Covered(S) \subseteq NodeId /\ reach[n] \subseteq NodeId
    BY DEF Covered
  <1>3. IsFiniteSet(Covered(S)) /\ IsFiniteSet(reach[n] \ Covered(S))
    BY <1>1, <1>2, FS_Subset
  <1>4. Cardinality(Covered(S)) \in Nat /\ Cardinality(reach[n] \ Covered(S)) \in Nat
    BY <1>3, FS_CardinalityType
  <1>5. Covered(S) \cap (reach[n] \ Covered(S)) = {}
    OBVIOUS
  <1>6. Cardinality(Covered(S) \cup (reach[n] \ Covered(S)))
            = Cardinality(Covered(S)) + Cardinality(reach[n] \ Covered(S))
    BY <1>3, <1>5, DisjointUnion
  <1>7. Covered(S \cup {n}) = Covered(S) \cup (reach[n] \ Covered(S))
    <2>1. \A x : x \in Covered(S \cup {n}) <=> x \in Covered(S) \/ x \in reach[n]
      BY InCovered
    <2> QED BY <2>1
  <1>8. Celf!Spread(S) = Cardinality(Covered(S)) /\ Celf!Spread(S \cup {n}) = Cardinality(Covered(S \cup {n}))
    BY Zenon, SameCardinality DEF Celf!Spread, Covered
  <1> QED BY <1>3, <1>4, <1>6, <1>7, <1>8

LEMMA Submodular ==
    ASSUME reach \in [NodeId -> SUBSET NodeId], NEW T \in SUBSET NodeId, NEW S \in SUBSET T,
           NEW n \in NodeId
    PROVE  Celf!Spread(T \cup {n}) - Celf!Spread(T) <= Celf!Spread(S \cup {n}) - Celf!Spread(S)
  <1>1. reach[n] \ Covered(T) \subseteq reach[n] \ Covered(S)
    <2>1. \A x \in Covered(S) : x \in Covered(T)
      BY InCovered
    <2> QED BY <2>1
  <1>2. Cardinality(reach[n] \ Covered(T)) <= Cardinality(reach[n] \ Covered(S))
    BY <1>1, SpreadGrows, FS_Subset
  <1>3. S \in SUBSET NodeId
    OBVIOUS
  <1>4. /\ Celf!Spread(T) \in Nat /\ Celf!Spread(S) \in Nat
        /\ Cardinality(reach[n] \ Covered(T)) \in Nat /\ Cardinality(reach[n] \ Covered(S)) \in Nat
        /\ Celf!Spread(T \cup {n}) = Celf!Spread(T) + Cardinality(reach[n] \ Covered(T))
        /\ Celf!Spread(S \cup {n}) = Celf!Spread(S) + Cardinality(reach[n] \ Covered(S))
    BY <1>3, SpreadGrows
  <1> QED BY <1>2, <1>4

\* In the loop the seeds' spread is the right one, but for the first seed, which
\* is taken without it.
CInv == solver = "CelfGreedy" /\ certain =>
    /\ reach \in [NodeId -> SUBSET NodeId]
    /\ spread_delta_ \in [NodeId -> Int]
    /\ Celf!DeltasBoundGains
    /\ pc = "first" => \A n \in NodeId : spread_delta_[n] = Celf!Spread({n})
    /\ pc \in {"deltas", "first"} => seed_set_spread = 0
    /\ pc = "loop" => \/ seed_set_spread = Celf!Spread(Seeds)
                      \/ seed_set_spread = 0 /\ Len(seed_set) = 1
    /\ \A n \in DOMAIN updated_with_total_spread :
          spread_delta_[n] = updated_with_total_spread[n] - seed_set_spread

Inv == IInv /\ RecordedSpreadsAreCurrent /\ CInv

LEMMA NothingSpreads == Celf!Spread({}) = 0
  <1>1. Covered({}) = {}
    BY InCovered
  <1>2. Celf!Spread({}) = Cardinality(Covered({}))
    BY Zenon, SameCardinality DEF Celf!Spread, Covered
  <1> QED BY <1>1, <1>2, FS_EmptySet

\* Deltas that bound the gains still do when there is one seed more.
LEMMA MoreSeedsLessGain ==
    ASSUME reach \in [NodeId -> SUBSET NodeId], seed_set \in Seq(NodeId), NEW n \in NodeId,
           reach' = reach, seed_set' = Append(seed_set, n), NEW m \in NodeId
    PROVE  /\ Celf!Gain(m)' <= Celf!Gain(m)
           /\ Celf!Gain(m)' \in Int /\ Celf!Gain(m) \in Int
           /\ Celf!Spread(Seeds)' = Celf!Spread(Seeds \cup {n})
           /\ Seeds' = Seeds \cup {n}
  <1>1. Seeds' = Seeds \cup {n} /\ Seeds \in SUBSET NodeId
    <2>1. Seeds \in SUBSET NodeId
      BY DEF Seeds, Range
    <2> QED BY <2>1, PushRange DEF Seeds
  <1>2. \A S : Celf!Spread(S)' = Celf!Spread(S)
    BY DEF Celf!Spread
  <1>3. /\ Celf!Gain(m) = Celf!Spread(Seeds \cup {m}) - Celf!Spread(Seeds)
        /\ Celf!Gain(m)' = Celf!Spread((Seeds \cup {n}) \cup {m}) - Celf!Spread(Seeds \cup {n})
    <2>1. Celf!Seeds = Seeds /\ Celf!Seeds' = Seeds \cup {n}
      BY <1>1 DEF Celf!Seeds, Celf!Range, Seeds, Range
    <2>2. Celf!Gain(m) = Celf!Spread(Seeds \cup {m}) - Celf!Spread(Seeds)
      BY <2>1 DEF Celf!Gain
    <2>3. Celf!Gain(m)' = Celf!Spread(Celf!Seeds' \cup {m}) - Celf!Spread(Celf!Seeds')
      BY <1>2 DEF Celf!Gain
    <2> QED BY <2>1, <2>2, <2>3
  <1>4. Celf!Gain(m)' <= Celf!Gain(m)
    BY <1>1, <1>3, Submodular
  <1>5. \A S \in SUBSET NodeId : Celf!Spread(S) \in Nat
    BY SpreadGrows
  <1>6. Seeds \cup {n} \in SUBSET NodeId
    BY <1>1
  <1>7. /\ Celf!Spread(Seeds \cup {m}) \in Nat /\ Celf!Spread(Seeds) \in Nat
        /\ Celf!Spread((Seeds \cup {n}) \cup {m}) \in Nat /\ Celf!Spread(Seeds \cup {n}) \in Nat
    BY <1>1, <1>5, <1>6
  <1>8. Celf!Spread(Seeds)' = Celf!Spread(Seeds \cup {n})
    BY <1>1, <1>2
  <1> QED BY <1>1, <1>3, <1>4, <1>7, <1>8

LEMMA SpreadIsGain ==
    ASSUME reach \in [NodeId -> SUBSET NodeId], Seeds \in SUBSET NodeId, NEW n \in NodeId
    PROVE  /\ Celf!Spread(Seeds \cup {n}) \in Nat /\ Celf!Spread(Seeds) \in Nat
           /\ Celf!Gain(n) = Celf!Spread(Seeds \cup {n}) - Celf!Spread(Seeds)
  <1>1. Celf!Seeds = Seeds
    BY DEF Celf!Seeds, Celf!Range, Seeds, Range
  <1>2. Celf!Gain(n) = Celf!Spread(Seeds \cup {n}) - Celf!Spread(Seeds)
    BY <1>1 DEF Celf!Gain
  <1>3. \A S \in SUBSET NodeId : Celf!Spread(S) \in Nat
    BY SpreadGrows
  <1>4. Seeds \cup {n} \in SUBSET NodeId
    OBVIOUS
  <1> QED BY <1>2, <1>3, <1>4

LEMMA ExactStart == Init => CInv
  <1> SUFFICES ASSUME Init, solver = "CelfGreedy", certain PROVE CInv
    BY DEF CInv
  <1>1. Celf!Init
    BY DEF Init, IPA!Init
  <1>2. reach \in [NodeId -> SUBSET NodeId]
    BY <1>1, CelfAssumption DEF Celf!Init
  <1>3. /\ spread_delta_ \in [NodeId -> Int] /\ seed_set_spread = 0 /\ pc = "deltas"
        /\ updated_with_total_spread = Celf!Empty
    BY <1>1 DEF Celf!Init
  <1> QED BY <1>2, <1>3 DEF CInv, Celf!DeltasBoundGains, Celf!Empty

\* An exact spread is the one of the seeds and the node.
LEMMA ExactSpread ==
    ASSUME certain, NEW n, NEW spread \in Celf!evaluateSpread(n, seed_set)
    PROVE  spread = Celf!Spread(Seeds \cup {n})
  BY DEF Celf!evaluateSpread, Celf!Range, Seeds, Range

\* Deltas that bound the gains of the queued nodes bound them for one seed more.
LEMMA SeedKeepsBounds ==
    ASSUME reach \in [NodeId -> SUBSET NodeId], seed_set \in Seq(NodeId), NEW n \in NodeId,
           reach' = reach, seed_set' = Append(seed_set, n),
           priority_queue \subseteq NodeId, priority_queue' \subseteq priority_queue,
           spread_delta_' \in [NodeId -> Int],
           \A m \in priority_queue' : Celf!Gain(m) <= spread_delta_'[m]
    PROVE  Celf!DeltasBoundGains'
  <1>1. ASSUME NEW m \in priority_queue' PROVE Celf!Gain(m)' <= spread_delta_'[m]
    <2>1. m \in NodeId /\ spread_delta_'[m] \in Int
      BY <1>1
    <2>2. /\ Celf!Gain(m)' <= Celf!Gain(m)
          /\ Celf!Gain(m)' \in Int /\ Celf!Gain(m) \in Int
      BY <2>1, MoreSeedsLessGain
    <2> QED BY <1>1, <2>1, <2>2
  <1> QED BY <1>1 DEF Celf!DeltasBoundGains


LEMMA ExactStep == ASSUME Inv, CelfStep PROVE CInv'
  <1> SUFFICES ASSUME solver = "CelfGreedy", certain PROVE CInv'
    <2>1. solver' = solver /\ certain' = certain
      BY DEF CelfStep, Celf!Next, Celf!EvaluateAll, Celf!TakeFirst, Celf!AddUpToDate, Celf!Refresh,
             Celf!Return
    <2> QED BY <2>1 DEF CInv
  <1>1. /\ reach \in [NodeId -> SUBSET NodeId] /\ spread_delta_ \in [NodeId -> Int]
        /\ seed_set \in Seq(NodeId) /\ Seeds \in SUBSET NodeId
        /\ pc # "deltas" => priority_queue \subseteq NodeId
        /\ pc \in {"deltas", "first", "loop", "done"}
    BY DEF Inv, CInv, IInv, Shape, Fresh, QueueAndSeedsPartitionTheNodes, Seeds, Range
  <1>2. CASE Celf!EvaluateAll
    <2>1. /\ pc = "deltas" /\ pc' = "first" /\ seed_set' = seed_set /\ reach' = reach
          /\ priority_queue' = NodeId
          /\ seed_set_spread' = seed_set_spread
          /\ updated_with_total_spread' = updated_with_total_spread
          /\ spread_delta_' \in [NodeId -> Int]
          /\ \A n \in NodeId : spread_delta_'[n] \in Celf!evaluateSpread(n, seed_set)
      BY <1>2 DEF Celf!EvaluateAll
    <2>2. /\ seed_set = <<>> /\ updated_with_total_spread = Celf!Empty /\ seed_set_spread = 0
      BY <2>1 DEF Inv, IInv, Fresh, CInv
    <2>3. Seeds = {} /\ Celf!Seeds' = {}
      BY <2>1, <2>2 DEF Seeds, Range, Celf!Seeds, Celf!Range
    <2>4. \A S : Celf!Spread(S)' = Celf!Spread(S)
      BY <2>1 DEF Celf!Spread
    <2>5. ASSUME NEW n \in NodeId
          PROVE  /\ spread_delta_'[n] = Celf!Spread({n})
                 /\ Celf!Gain(n)' <= spread_delta_'[n]
      <3>1. Seeds \cup {n} = {n}
        BY <2>3
      <3>2. spread_delta_'[n] = Celf!Spread({n})
        BY <2>1, <3>1, ExactSpread
      <3>3. Celf!Gain(n)' = Celf!Spread({n}) - Celf!Spread({})
        BY <2>3, <2>4 DEF Celf!Gain
      <3>4. Celf!Spread({n}) \in Int
        BY <2>1, <3>2
      <3> QED BY <3>2, <3>3, <3>4, NothingSpreads
    <2>6. Celf!DeltasBoundGains'
      BY <2>1, <2>5 DEF Celf!DeltasBoundGains
    <2> QED BY <1>1, <2>1, <2>2, <2>4, <2>5, <2>6 DEF CInv, Celf!Empty
  <1>3. CASE Celf!TakeFirst
    <2>1. PICK n \in NodeId : /\ n \in priority_queue
                              /\ priority_queue' = priority_queue \ {n}
                              /\ seed_set' = Append(seed_set, n)
      BY <1>3 DEF Celf!TakeFirst, Celf!IsTop, Celf!Popped
    <2>2. /\ pc = "first" /\ pc' = "loop" /\ reach' = reach /\ spread_delta_' = spread_delta_
          /\ seed_set_spread' = seed_set_spread
          /\ updated_with_total_spread' = updated_with_total_spread
      BY <1>3 DEF Celf!TakeFirst
    <2>3. /\ seed_set = <<>> /\ updated_with_total_spread = Celf!Empty /\ seed_set_spread = 0
      BY <2>2 DEF Inv, IInv, Fresh, CInv
    <2>4. Len(seed_set') = 1
      BY <1>1, <2>1, <2>3
    <2>5. \A m \in priority_queue' : Celf!Gain(m) <= spread_delta_'[m]
      BY <2>1, <2>2 DEF Inv, CInv, Celf!DeltasBoundGains
    <2>6. Celf!DeltasBoundGains'
      BY <1>1, <2>1, <2>2, <2>5, SeedKeepsBounds
    <2> QED BY <1>1, <2>2, <2>3, <2>4, <2>6 DEF CInv, Celf!Empty
  <1>4. CASE Celf!AddUpToDate
    <2>1. PICK n \in NodeId : /\ n \in priority_queue
                              /\ n \in DOMAIN updated_with_total_spread
                              /\ priority_queue' = priority_queue \ {n}
                              /\ seed_set' = Append(seed_set, n)
                              /\ seed_set_spread' = updated_with_total_spread[n]
      BY <1>4 DEF Celf!AddUpToDate, Celf!IsTop, Celf!Popped, Celf!IsUpdated
    <2>2. /\ pc = "loop" /\ pc' = "loop" /\ reach' = reach /\ spread_delta_' = spread_delta_
          /\ updated_with_total_spread' = Celf!Empty
      BY <1>4 DEF Celf!AddUpToDate, Celf!Looping, Celf!Cleared
    <2>3. seed_set_spread' = Celf!Spread(Seeds \cup {n})
      BY <2>1, ExactSpread DEF Inv, RecordedSpreadsAreCurrent, Celf!RecordedSpreadsAreCurrent
    <2>4. seed_set_spread' = Celf!Spread(Seeds)'
      BY <1>1, <2>1, <2>2, <2>3, MoreSeedsLessGain
    <2>5. \A m \in priority_queue' : Celf!Gain(m) <= spread_delta_'[m]
      BY <2>1, <2>2 DEF Inv, CInv, Celf!DeltasBoundGains
    <2>6. Celf!DeltasBoundGains'
      BY <1>1, <2>1, <2>2, <2>5, SeedKeepsBounds
    <2> QED BY <1>1, <2>2, <2>4, <2>6 DEF CInv, Celf!Empty
  <1>5. CASE Celf!Refresh
    <2>1. PICK n \in NodeId : \E spread \in Celf!evaluateSpread(n, seed_set) :
              /\ n \in priority_queue
              /\ spread_delta_' = [spread_delta_ EXCEPT ![n] = spread - seed_set_spread]
              /\ \/ /\ priority_queue' = priority_queue \ {n}
                    /\ seed_set' = Append(seed_set, n)
                    /\ seed_set_spread' = spread
                    /\ updated_with_total_spread' = Celf!Empty
                 \/ /\ updated_with_total_spread' = Celf!WithSpread(updated_with_total_spread, n, spread)
                    /\ UNCHANGED <<priority_queue, seed_set, seed_set_spread>>
      BY <1>5 DEF Celf!Refresh, Celf!IsTop, Celf!Popped, Celf!Cleared
    <2> DEFINE spread == Celf!Spread(Seeds \cup {n})
    <2>2. /\ n \in priority_queue
          /\ spread_delta_' = [spread_delta_ EXCEPT ![n] = spread - seed_set_spread]
          /\ \/ /\ priority_queue' = priority_queue \ {n}
                /\ seed_set' = Append(seed_set, n)
                /\ seed_set_spread' = spread
                /\ updated_with_total_spread' = Celf!Empty
             \/ /\ updated_with_total_spread' = Celf!WithSpread(updated_with_total_spread, n, spread)
                /\ UNCHANGED <<priority_queue, seed_set, seed_set_spread>>
      BY <2>1, ExactSpread
    <2>3. pc = "loop" /\ pc' = "loop" /\ reach' = reach
      BY <1>5 DEF Celf!Refresh, Celf!Looping
    <2>4. /\ spread \in Nat /\ Celf!Spread(Seeds) \in Nat
          /\ Celf!Gain(n) = spread - Celf!Spread(Seeds)
      BY <1>1, SpreadIsGain
    <2>5. seed_set_spread \in Nat /\ seed_set_spread <= Celf!Spread(Seeds)
      BY <2>3, <2>4 DEF Inv, CInv
    <2>6. spread_delta_' \in [NodeId -> Int] /\ spread_delta_'[n] = spread - seed_set_spread
      BY <1>1, <2>2, <2>4, <2>5
    <2>7. Celf!Gain(n) <= spread_delta_'[n]
      BY <2>4, <2>5, <2>6
    <2>8. \A m \in priority_queue : Celf!Gain(m) <= spread_delta_'[m]
      <3> SUFFICES ASSUME NEW m \in priority_queue, m # n PROVE Celf!Gain(m) <= spread_delta_'[m]
        BY <2>7
      <3>1. spread_delta_'[m] = spread_delta_[m]
        BY <1>1, <2>2, <2>3
      <3> QED BY <2>3, <3>1 DEF Inv, CInv, Celf!DeltasBoundGains
    <2>9. CASE /\ priority_queue' = priority_queue \ {n}
               /\ seed_set' = Append(seed_set, n)
               /\ seed_set_spread' = spread
               /\ updated_with_total_spread' = Celf!Empty
      <3>1. Celf!DeltasBoundGains'
        BY <1>1, <2>3, <2>6, <2>8, <2>9, SeedKeepsBounds
      <3>2. seed_set_spread' = Celf!Spread(Seeds)'
        BY <1>1, <2>3, <2>9, MoreSeedsLessGain
      <3> QED BY <1>1, <2>3, <2>6, <2>9, <3>1, <3>2 DEF CInv, Celf!Empty
    <2>10. CASE /\ updated_with_total_spread' = Celf!WithSpread(updated_with_total_spread, n, spread)
                /\ UNCHANGED <<priority_queue, seed_set, seed_set_spread>>
      <3>1. \A S : Celf!Spread(S)' = Celf!Spread(S)
        BY <2>3 DEF Celf!Spread
      <3>2. \A m : Celf!Gain(m)' = Celf!Gain(m)
        BY <2>3, <2>10 DEF Celf!Gain, Celf!Spread, Celf!Seeds
      <3>3. Celf!DeltasBoundGains'
        BY <2>8, <2>10, <3>2 DEF Celf!DeltasBoundGains
      <3>4. Celf!Spread(Seeds)' = Celf!Spread(Seeds)
        BY <2>10, <3>1 DEF Seeds
      <3>5. /\ DOMAIN updated_with_total_spread' = DOMAIN updated_with_total_spread \cup {n}
            /\ updated_with_total_spread'[n] = spread
            /\ \A m \in DOMAIN updated_with_total_spread :
                  m # n => updated_with_total_spread'[m] = updated_with_total_spread[m]
        BY <2>10 DEF Celf!WithSpread
      <3>6. ASSUME NEW m \in DOMAIN updated_with_total_spread'
            PROVE  spread_delta_'[m] = updated_with_total_spread'[m] - seed_set_spread'
        <4>1. CASE m = n
          BY <2>6, <2>10, <3>5, <4>1
        <4>2. CASE m # n
          <5>1. m \in DOMAIN updated_with_total_spread /\ m \in NodeId
            BY <1>1, <2>3, <3>5, <3>6, <4>2
               DEF Inv, RecordedSpreadsAreCurrent, Celf!RecordedSpreadsAreCurrent
          <5>2. spread_delta_'[m] = spread_delta_[m]
            BY <1>1, <2>2, <4>2, <5>1
          <5> QED BY <2>10, <3>5, <4>2, <5>1, <5>2 DEF Inv, CInv
        <4> QED BY <4>1, <4>2
      <3> QED BY <1>1, <2>3, <2>6, <2>10, <3>3, <3>4, <3>6 DEF Inv, CInv
    <2> QED BY <2>2, <2>9, <2>10
  <1>6. CASE Celf!Return
    <2>1. /\ pc' = "done" /\ reach' = reach /\ spread_delta_' = spread_delta_
          /\ seed_set_spread' = seed_set_spread
          /\ updated_with_total_spread' = updated_with_total_spread
      BY <1>6 DEF Celf!Return
    <2> QED BY <1>1, <2>1 DEF Inv, CInv, Celf!DeltasBoundGains
  <1> QED BY <1>2, <1>3, <1>4, <1>5, <1>6 DEF CelfStep, Celf!Next


LEMMA ExactInvariant == Spec => []Inv
  <1>1. ASSUME Inv, [Next]_vars PROVE CInv'
    <2>1. CASE IPAStep
      BY <2>1 DEF IPAStep, CInv
    <2>2. CASE UNCHANGED vars
      <3>1. \A S : Celf!Spread(S)' = Celf!Spread(S)
        BY <2>2 DEF vars, celf_vars, Celf!Spread
      <3>2. Celf!DeltasBoundGains' <=> Celf!DeltasBoundGains
        BY <2>2 DEF vars, celf_vars, Celf!DeltasBoundGains, Celf!Gain, Celf!Spread, Celf!Seeds
      <3>3. Celf!Spread(Seeds)' = Celf!Spread(Seeds)
        BY <2>2, <3>1 DEF vars, Seeds
      <3> QED BY <1>1, <2>2, <3>1, <3>2, <3>3 DEF vars, celf_vars, Inv, CInv
    <2> QED BY <1>1, <2>1, <2>2, ExactStep DEF Next
  <1> QED BY <1>1, ExactStart, Invariant, Current, PTL DEF Inv, Spec

\* On certain graphs an outdated delta of CelfGreedy is never below the gain.
THEOREM Bounds == Spec => [](solver = "CelfGreedy" => Celf!DeltasBoundGains)
  <1>1. Inv => (solver = "CelfGreedy" => Celf!DeltasBoundGains)
    BY DEF Inv, CInv, Celf!DeltasBoundGains
  <1> QED BY <1>1, ExactInvariant, PTL

LEMMA SameAppended ==
    ASSUME seed_set \in Seq(NodeId), NEW a \in NodeId, NEW b \in NodeId,
           Append(seed_set, a) = Append(seed_set, b)
    PROVE  a = b
  <1>1. /\ Append(seed_set, a)[Len(seed_set) + 1] = a
        /\ Append(seed_set, b)[Len(seed_set) + 1] = b
    OBVIOUS
  <1> QED BY <1>1

LEMMA NotAppended ==
    ASSUME seed_set \in Seq(NodeId), NEW a \in NodeId
    PROVE  Append(seed_set, a) # seed_set
  <1>1. Len(Append(seed_set, a)) = Len(seed_set) + 1 /\ Len(seed_set) \in Nat
    OBVIOUS
  <1> QED BY <1>1


\* A node whose gain is not below the deltas of the others is a best one.
LEMMA BestOfBounds ==
    ASSUME Inv, certain, solver = "CelfGreedy", pc \in {"first", "loop"}, NEW n \in priority_queue,
           \A m \in priority_queue \ {n} : spread_delta_[m] <= Celf!Gain(n)
    PROVE  Celf!IsBest(n)
  <1>1. /\ reach \in [NodeId -> SUBSET NodeId] /\ spread_delta_ \in [NodeId -> Int]
        /\ Seeds \in SUBSET NodeId /\ Celf!Seeds = Seeds
        /\ priority_queue = NodeId \ Seeds
        /\ \A m \in priority_queue : Celf!Gain(m) <= spread_delta_[m]
    BY DEF Inv, CInv, IInv, Shape, QueueAndSeedsPartitionTheNodes, Seeds, Range, Celf!Seeds,
           Celf!Range, Celf!DeltasBoundGains
  <1>2. ASSUME NEW m \in NodeId PROVE Celf!Gain(m) \in Int
    <2>1. /\ Celf!Spread(Seeds \cup {m}) \in Nat /\ Celf!Spread(Seeds) \in Nat
          /\ Celf!Gain(m) = Celf!Spread(Seeds \cup {m}) - Celf!Spread(Seeds)
      BY <1>1, SpreadIsGain
    <2> QED BY <2>1
  <1>3. ASSUME NEW m \in NodeId \ Seeds PROVE Celf!Gain(m) <= Celf!Gain(n)
    <2>1. CASE m = n
      BY <2>1, <1>1, <1>2
    <2>2. CASE m # n
      BY <2>2, <1>1, <1>2
    <2> QED BY <2>1, <2>2
  <1> QED BY <1>1, <1>3 DEF Celf!IsBest

LEMMA CelfPick ==
    ASSUME Inv, CelfStep, certain, Len(seed_set) # 1, NEW n \in NodeId, Adds(n)
    PROVE  Celf!IsBest(n)
  <1>1. /\ solver = "CelfGreedy" /\ seed_set \in Seq(NodeId) /\ Seeds \in SUBSET NodeId
        /\ seed_set' = Append(seed_set, n) /\ seed_set' # seed_set
        /\ reach \in [NodeId -> SUBSET NodeId] /\ spread_delta_ \in [NodeId -> Int]
    BY NotAppended DEF CelfStep, Inv, IInv, Shape, CInv, Seeds, Range, Adds
  <1>2. \A m \in NodeId : seed_set' = Append(seed_set, m) => m = n
    BY <1>1, SameAppended
  <1>3. CASE Celf!TakeFirst
    <2>1. pc = "first" /\ Celf!IsTop(n, priority_queue)
      BY <1>2, <1>3 DEF Celf!TakeFirst
    <2>2. n \in priority_queue /\ \A m \in priority_queue : spread_delta_[m] <= spread_delta_[n]
      BY <2>1 DEF Celf!IsTop
    <2>3. seed_set = <<>> /\ spread_delta_[n] = Celf!Spread({n})
      BY <1>1, <2>1 DEF Inv, IInv, Fresh, CInv
    <2>4. Seeds = {} /\ Seeds \cup {n} = {n}
      BY <2>3 DEF Seeds, Range
    <2>5. spread_delta_[n] = Celf!Gain(n)
      BY <1>1, <2>3, <2>4, SpreadIsGain, NothingSpreads
    <2> QED BY <1>1, <2>1, <2>2, <2>5, BestOfBounds
  <1>4. CASE Celf!AddUpToDate \/ Celf!Refresh
    <2>1. pc = "loop" /\ seed_set_spread = Celf!Spread(Seeds)
      BY <1>1, <1>4 DEF Celf!AddUpToDate, Celf!Refresh, Celf!Looping, Inv, CInv
    <2>2. Celf!Gain(n) = Celf!Spread(Seeds \cup {n}) - seed_set_spread /\ Celf!Gain(n) \in Int
      <3>1. /\ Celf!Spread(Seeds \cup {n}) \in Nat /\ Celf!Spread(Seeds) \in Nat
            /\ Celf!Gain(n) = Celf!Spread(Seeds \cup {n}) - Celf!Spread(Seeds)
        BY <1>1, SpreadIsGain
      <3> QED BY <2>1, <3>1
    <2>3. CASE Celf!AddUpToDate
      <3>1. n \in DOMAIN updated_with_total_spread /\ Celf!IsTop(n, priority_queue)
        BY <1>2, <2>3 DEF Celf!AddUpToDate, Celf!IsUpdated
      <3>2. updated_with_total_spread[n] = Celf!Spread(Seeds \cup {n})
        BY <1>1, <3>1, ExactSpread DEF Inv, RecordedSpreadsAreCurrent, Celf!RecordedSpreadsAreCurrent
      <3>3. spread_delta_[n] = Celf!Gain(n)
        BY <1>1, <2>2, <3>1, <3>2 DEF Inv, CInv
      <3>4. n \in priority_queue /\ \A m \in priority_queue : spread_delta_[m] <= spread_delta_[n]
        BY <3>1 DEF Celf!IsTop
      <3> QED BY <1>1, <2>1, <3>3, <3>4, BestOfBounds
    <2>4. CASE Celf!Refresh
      <3>1. PICK a \in NodeId : \E spread \in Celf!evaluateSpread(a, seed_set) :
                /\ Celf!IsTop(a, priority_queue)
                /\ spread_delta_' = [spread_delta_ EXCEPT ![a] = spread - seed_set_spread]
                /\ \/ /\ Celf!StaysOnTop(spread - seed_set_spread, priority_queue \ {a})
                      /\ seed_set' = Append(seed_set, a)
                   \/ seed_set' = seed_set
        BY <2>4 DEF Celf!Refresh, Celf!Popped
      <3>2. a = n
        BY <1>1, <1>2, <3>1
      <3>3. /\ n \in priority_queue
            /\ Celf!StaysOnTop(Celf!Gain(n), priority_queue \ {n})
        BY <1>1, <2>2, <3>1, <3>2, ExactSpread DEF Celf!IsTop
      <3>4. priority_queue \subseteq NodeId
        BY <2>1 DEF Inv, IInv, QueueAndSeedsPartitionTheNodes
      <3>5. \A m \in priority_queue \ {n} : spread_delta_[m] <= Celf!Gain(n)
        <4>1. CASE priority_queue \ {n} = {}
          BY <4>1
        <4>2. CASE \E m \in NodeId : /\ Celf!IsTop(m, priority_queue \ {n})
                                     /\ Celf!Gain(n) >= spread_delta_[m]
          BY <1>1, <2>2, <3>4, <4>2 DEF Celf!IsTop
        <4> QED BY <3>3, <4>1, <4>2 DEF Celf!StaysOnTop
      <3> QED BY <1>1, <2>1, <3>3, <3>5, BestOfBounds
    <2> QED BY <1>4, <2>3, <2>4
  <1>5. ~Celf!EvaluateAll /\ ~Celf!Return
    BY <1>1 DEF Celf!EvaluateAll, Celf!Return
  <1> QED BY <1>3, <1>4, <1>5 DEF CelfStep, Celf!Next

\* The step of IPASolver that takes a seed, where the spreads bound the gains.
LEMMA IPAPick ==
    ASSUME IInv, RecordedSpreadsAreCurrent, DeltasBoundGains, IPAStep, NEW n \in NodeId, Adds(n)
    PROVE  IPA!IsBest(n)
  <1>1. /\ solver = "IPA" /\ seed_set \in Seq(NodeId) /\ IPA!selected_seeds_ = Seeds
        /\ seed_set' = Append(seed_set, n) /\ seed_set' # seed_set
        /\ spread_ \in [NodeId -> Int]
    BY NotAppended DEF IPAStep, IInv, Shape, DeltasBoundGains, TypeOK, IPA!TypeOK, Adds, NodeId,
                       IPA!NodeId, IPA!selected_seeds_, IPA!Range, Seeds, Range
  <1>2. \A m \in NodeId : seed_set' = Append(seed_set, m) => m = n
    BY <1>1, SameAppended
  <1>3. ~IPA!EvaluateAll /\ ~IPA!Return
    BY <1>1 DEF IPA!EvaluateAll, IPA!Return
  <1>4. pc \in {"first", "loop"}
    BY <1>3 DEF IPAStep, IPA!Next, IPA!TakeFirst, IPA!AddUpToDate, IPA!Refresh, IPA!Looping
  <1>5. priority_queue = NodeId \ Seeds
    BY <1>4 DEF IInv, QueueAndSeedsPartitionTheNodes
  <1>6. /\ \A m \in priority_queue : IPA!Gain(m) \in Int /\ IPA!Gain(m) <= spread_[m]
        /\ pc = "first" => \A m \in priority_queue : IPA!Gain(m) = spread_[m]
    BY <1>1, <1>4 DEF DeltasBoundGains, IPA!SpreadsBoundGains
  <1>7. /\ n \in priority_queue
        /\ \A m \in priority_queue \ {n} : spread_[m] <= IPA!Gain(n)
    <2>1. CASE IPA!TakeFirst
      <3>1. pc = "first" /\ IPA!IsTop(n, priority_queue)
        BY <1>2, <2>1 DEF IPA!TakeFirst, IPA!NodeId, NodeId
      <3> QED BY <1>1, <1>5, <1>6, <3>1 DEF IPA!IsTop
    <2>2. CASE IPA!AddUpToDate
      <3>1. n \in updated_ /\ IPA!IsTop(n, priority_queue)
        BY <1>1, <1>2, <1>5, <2>2 DEF IPA!AddUpToDate, IPA!IsTop
      <3>2. spread_[n] = IPA!Gain(n)
        BY <1>1, <3>1 DEF RecordedSpreadsAreCurrent, IPA!UpdatedSpreadsAreCurrent
      <3> QED BY <1>1, <1>5, <3>1, <3>2 DEF IPA!IsTop
    <2>3. CASE IPA!Refresh
      <3>1. PICK a \in NodeId :
                /\ IPA!IsTop(a, priority_queue)
                /\ \/ /\ IPA!StaysOnTop(IPA!Increment(a), priority_queue \ {a})
                      /\ seed_set' = Append(seed_set, a)
                   \/ seed_set' = seed_set
        BY <2>3 DEF IPA!Refresh, IPA!Popped, IPA!NodeId, NodeId
      <3>2. a = n
        BY <1>1, <1>2, <3>1
      <3>3. /\ n \in priority_queue
            /\ IPA!StaysOnTop(IPA!Gain(n), priority_queue \ {n})
        BY <1>1, <3>1, <3>2 DEF IPA!IsTop, IPA!Increment, IPA!Gain
      <3>4. IPA!Gain(n) \in Int
        BY <1>6, <3>3
      <3> QED BY <1>1, <1>5, <3>3, <3>4 DEF IPA!StaysOnTop, IPA!IsTop
    <2> QED BY <1>3, <2>1, <2>2, <2>3 DEF IPAStep, IPA!Next
  <1>8. ASSUME NEW m \in NodeId \ Seeds PROVE IPA!Gain(m) <= IPA!Gain(n)
    <2>1. CASE m = n
      BY <2>1, <1>5, <1>6
    <2>2. CASE m # n
      BY <2>2, <1>1, <1>5, <1>6, <1>7
    <2> QED BY <2>1, <2>2
  <1> QED BY <1>1, <1>8 DEF IPA!IsBest, IPA!NodeId, NodeId

\* Both solvers take a node of the largest gain: CelfGreedy on every certain graph, but for its
\* second seed, and IPASolver wherever the spreads of the path trees bound the gains.
THEOREM Greedily ==
    Spec /\ [](solver = "IPA" => DeltasBoundGains) => LaterPicksAreGreedy
  <1>1. ASSUME Inv, solver = "IPA" => DeltasBoundGains, [Next]_vars
        PROVE  [\A n \in NodeId : Adds(n) =>
                   /\ solver = "CelfGreedy" /\ certain /\ Len(seed_set) # 1 => Celf!IsBest(n)
                   /\ solver = "IPA" => IPA!IsBest(n)]_vars
    BY <1>1, CelfPick, IPAPick DEF Next, CelfStep, IPAStep, Inv
  <1> QED BY <1>1, ExactInvariant, PTL DEF Spec, LaterPicksAreGreedy


=============================================================================
