------------------------ MODULE Imm_proofs ------------------------
(***************************************************************************)
(* Theorems about IMM, for every graph, every number of RR sets and every  *)
(* k.  The selection on its own, over any sequence of RR sets, comes       *)
(* first: it is the greedy maximum coverage algorithm.  Its properties are *)
(* inductive once they are taken together: the counters tell which sets a  *)
(* pick covers, the flags which sets are left.  Then the walks that make   *)
(* the RR sets, and last solve: its parallel tasks lose no RR set, there   *)
(* are as many as the guarantee asks for, and the selection that is        *)
(* returned was made from all of them.                                     *)
(***************************************************************************)
EXTENDS ImmSelection, ImmSampling, SequenceFacts, SequenceTheorems

-----------------------------------------------------------------------------
(* The selection.                                                          *)

IInv == /\ TypeOK
        /\ pc = "fill" => result_set = <<>> /\ rr_set_already_covered = {}
        /\ CountersAreUncovered
        /\ CoverageIsExact

\* Sets of indices of RR sets can be counted.
LEMMA IndexSets ==
    ASSUME TypeOK, NEW T \in SUBSET (1..Len(rr_sets_))
    PROVE  IsFiniteSet(T) /\ Cardinality(T) \in Nat
  <1>1. Len(rr_sets_) \in Nat
    BY DEF TypeOK
  <1>2. IsFiniteSet(1..Len(rr_sets_))
    BY <1>1, FS_Interval
  <1> QED BY <1>2, FS_Subset, FS_CardinalityType

\* A set of nodes covers what it covers without one of them, and the RR sets
\* of that one.
LEMMA CoverageOfOneMore ==
    ASSUME TypeOK, NEW S \in SUBSET NodeId, NEW u \in NodeId
    PROVE  CoveredBy(S \cup {u}) = CoveredBy(S) \cup SetsOf(u)
  BY DEF CoveredBy, SetsOf

LEMMA InitInvariant == Init => IInv
  <1> SUFFICES ASSUME Init PROVE IInv
    OBVIOUS
  <1>1. TypeOK
    BY SelectionAssumption DEF Init, TypeOK
  <1>2. CoverageIsExact
    BY DEF Init, CoverageIsExact, CoveredBy, Selected, Range
  <1> QED BY <1>1, <1>2 DEF Init, IInv, CountersAreUncovered

\* The loop keeps the invariant.
LEMMA NextInvariant == IInv /\ [Next]_vars => IInv'
  <1> SUFFICES ASSUME IInv, [Next]_vars PROVE IInv'
    OBVIOUS
  <1> USE DEF IInv
  <1>1. CASE FillCounter
    <2>1. \A u \in NodeId : SetsOf(u) \in SUBSET (1..Len(rr_sets_))
      BY DEF SetsOf
    <2>2. TypeOK'
      BY <1>1, <2>1 DEF FillCounter, TypeOK
    <2>3. CountersAreUncovered'
      BY <1>1 DEF FillCounter, CountersAreUncovered, SetsOf
    <2>4. CoverageIsExact'
      BY <1>1 DEF FillCounter, CoverageIsExact, CoveredBy, Selected
    <2> QED BY <1>1, <2>2, <2>3, <2>4 DEF FillCounter
  <1>2. CASE Pick
    <2>1. PICK max_id \in NodeId :
             /\ IsMax(max_id)
             /\ rr_set_already_covered' = Covered(max_id)
             /\ counter' = CounterWithout(max_id)
             /\ result_set' = Append(result_set, max_id)
      BY <1>2 DEF Pick
    <2>2. counter[max_id] = SetsOf(max_id) \ rr_set_already_covered
      BY <1>2 DEF Pick, CountersAreUncovered
    <2>3. rr_set_already_covered' = rr_set_already_covered \cup SetsOf(max_id)
      BY <2>1, <2>2 DEF Covered
    <2>4. TypeOK'
      <3>1. rr_set_already_covered' \subseteq 1..Len(rr_sets_)
        BY <2>3 DEF TypeOK, SetsOf
      <3>2. counter' \in [NodeId -> SUBSET (1..Len(rr_sets_))]
        BY <2>1 DEF TypeOK, CounterWithout
      <3>3. result_set' \in Seq(NodeId) /\ Len(result_set') <= k
        BY <1>2, <2>1, SelectionAssumption DEF TypeOK, Pick, PicksLeft
      <3> QED BY <1>2, <3>1, <3>2, <3>3 DEF TypeOK, Pick
    <2>5. CountersAreUncovered'
      <3>1. ASSUME NEW u \in NodeId
            PROVE  counter'[u] = SetsOf(u) \ rr_set_already_covered'
        <4>1. CASE u = max_id
          BY <2>1, <2>3, <4>1 DEF CounterWithout
        <4>2. CASE u # max_id
          <5>1. counter'[u] = counter[u] \ {i \in counter[max_id] : u \in rr_sets_[i]}
            BY <2>1, <4>2 DEF CounterWithout
          <5>2. counter[u] = SetsOf(u) \ rr_set_already_covered
            BY <1>2 DEF Pick, CountersAreUncovered
          <5> QED BY <2>2, <2>3, <5>1, <5>2 DEF SetsOf
        <4> QED BY <4>1, <4>2
      <3>2. rr_sets_' = rr_sets_ /\ pc' = "pick"
        BY <1>2 DEF Pick
      <3> QED BY <3>1, <3>2 DEF CountersAreUncovered, SetsOf
    <2>6. CoverageIsExact'
      <3>1. Selected' = Selected \cup {max_id}
        BY <2>1, PushRange DEF TypeOK, Selected
      <3>2. Selected \in SUBSET NodeId
        BY DEF TypeOK, Selected, Range
      <3>3. CoveredBy(Selected \cup {max_id}) = rr_set_already_covered'
        BY <2>3, <3>2, CoverageOfOneMore DEF CoverageIsExact
      <3>4. rr_sets_' = rr_sets_
        BY <1>2 DEF Pick
      <3> QED BY <3>1, <3>3, <3>4 DEF CoverageIsExact, CoveredBy
    <2> QED BY <1>2, <2>4, <2>5, <2>6 DEF Pick
  <1>3. CASE Return
    BY <1>3 DEF Return, TypeOK, CountersAreUncovered, CoverageIsExact, SetsOf,
                CoveredBy, Selected
  <1>4. CASE UNCHANGED vars
    BY <1>4 DEF vars, TypeOK, CountersAreUncovered, CoverageIsExact, SetsOf,
                CoveredBy, Selected
  <1> QED BY <1>1, <1>2, <1>3, <1>4 DEF Next

LEMMA Invariant == Spec => []IInv
  BY InitInvariant, NextInvariant, PTL DEF Spec

\* The variables keep their types; the result never gets longer than k.
THEOREM TypeCorrect == Spec => []TypeOK
  BY Invariant, PTL DEF IInv

\* No RR set is counted after it was covered, and none is lost before.
THEOREM CountersCorrect == Spec => []CountersAreUncovered
  BY Invariant, PTL DEF IInv

\* The share of the flags that solve works with is the coverage of its result.
THEOREM CoverageCorrect == Spec => []CoverageIsExact
  BY Invariant, PTL DEF IInv

\* What a step that lengthens the result does, for any other node.
LEMMA GreedyPick ==
    ASSUME IInv, Next, result_set' # result_set, NEW m \in NodeId
    PROVE  /\ Gain(m) <= Gain(Last(result_set'))
           /\ Gain(m) > 0 => Last(result_set') \notin Selected
  <1>1. Pick
    BY DEF Next, FillCounter, Return
  <1>2. PICK max_id \in NodeId : IsMax(max_id) /\ result_set' = Append(result_set, max_id)
    BY <1>1 DEF Pick
  <1>3. Last(result_set') = max_id
    BY <1>2 DEF IInv, TypeOK, Last
  <1>4. ASSUME NEW u \in NodeId PROVE Gain(u) = Size(u) /\ Size(u) \in Nat
    <2>1. counter[u] = SetsOf(u) \ CoveredBy(Selected)
      BY <1>1 DEF IInv, Pick, CountersAreUncovered, CoverageIsExact
    <2>2. Selected \in SUBSET NodeId
      BY DEF IInv, TypeOK, Selected, Range
    <2>3. CoveredBy(Selected \cup {u}) \ CoveredBy(Selected) = counter[u]
      BY <2>1, <2>2, CoverageOfOneMore DEF IInv
    <2>4. counter[u] \in SUBSET (1..Len(rr_sets_))
      BY DEF IInv, TypeOK
    <2> QED BY <2>3, <2>4, IndexSets DEF IInv, Gain, Size
  <1>5. Size(m) <= Size(max_id)
    BY <1>2, <1>4 DEF IsMax
  <1>6. ASSUME max_id \in Selected PROVE Gain(max_id) = 0
    <2>1. Selected \cup {max_id} = Selected
      BY <1>6
    <2>2. CoveredBy(Selected \cup {max_id}) \ CoveredBy(Selected) = {}
      BY <2>1
    <2> QED BY <2>2, FS_EmptySet DEF Gain
  <1> QED BY <1>3, <1>4, <1>5, <1>6

LEMMA NextPicksGreedily ==
    IInv /\ [Next]_vars =>
       [result_set' # result_set =>
          \A m \in NodeId :
             /\ Gain(m) <= Gain(Last(result_set'))
             /\ Gain(m) > 0 => Last(result_set') \notin Selected]_vars
  BY GreedyPick DEF vars

\* Each pick covers the most RR sets that one more node can, and is new as long
\* as a set can be covered.
THEOREM GreedyCorrect == Spec => PicksAreGreedy
  BY NextPicksGreedily, Invariant, PTL DEF Spec, PicksAreGreedy

-----------------------------------------------------------------------------
(* The walks and the selection together.                                   *)

\* What the variables of a walk hold.
WalkType == /\ graph_ \in Walk!Graph
            /\ walk_pc \in {"idle", "loop", "edges", "done"}
            /\ rr_set \in Seq(NodeId)
            /\ queue \in Seq(NodeId)
            /\ current_node \in NodeId
            /\ position \in Nat \ {0}

\* The source is the first to be visited.
SourceFirst == /\ walk_pc = "loop" /\ rr_set = <<>> => queue = <<source_node>>
               /\ walk_pc = "edges" => rr_set # <<>>

\* The selection begins when the last set is there, and no walk then.
Phases == /\ theta \in Nat
          /\ ~SetsMissing => walk_pc = "idle"
          /\ pc # "fill" => ~SetsMissing


\* The in-edges of a node.
LEMMA InEdges ==
    ASSUME graph_ \in Walk!Graph, NEW u \in NodeId
    PROVE  /\ Walk!EdgesOf(u) \in Seq(Walk!Edge)
           /\ Len(Walk!EdgesOf(u)) \in Nat
           /\ \A i \in 1..Len(Walk!EdgesOf(u)) :
                 /\ Walk!EdgesOf(u)[i].destination \in NodeId
                 /\ Walk!EdgesOf(u)[i].weight \in Walk!Weight
  <1>1. Walk!EdgesOf(u) \in Seq(Walk!Edge)
    BY DEF Walk!EdgesOf, Walk!Graph, Walk!Adjacency, Walk!getInverseEdgesOf, Walk!NodeId, NodeId
  <1>2. \A i \in 1..Len(Walk!EdgesOf(u)) : Walk!EdgesOf(u)[i] \in Walk!Edge
    BY <1>1
  <1> QED BY <1>1, <1>2 DEF Walk!Edge, Walk!NodeId, NodeId

-----------------------------------------------------------------------------
(* The steps of a walk.                                                    *)

\* The walk uses the list operators of its own module.
LEMMA SameLists ==
    ASSUME NEW s
    PROVE  /\ Walk!Range(s) = Range(s) /\ Walk!Last(s) = Last(s) /\ Walk!Front(s) = Front(s)
           /\ Walk!IsInjective(s) <=> IsInjective(s)
  BY DEF Walk!Range, Range, Walk!Last, Last, Walk!Front, Front, Walk!IsInjective, IsInjective

\* Each in-edge of a visited node had its draw, is yet to have it, or leads to a member.
EdgesSettled ==
    \A u \in visited : \A i \in 1..Len(Walk!EdgesOf(u)) :
        \/ walk_pc = "edges" /\ u = current_node /\ i >= position
        \/ Walk!EdgesOf(u)[i].destination \in visited \cup Range(queue)
        \/ <<u, i>> \in tried

\* No in-edge is tried twice: the tried ones are behind the position.
TriesAreBehind ==
    /\ walk_pc = "edges" => current_node \in visited
    /\ \A t \in tried : /\ t[1] \in visited /\ t[2] \in Nat
                        /\ walk_pc = "edges" /\ t[1] = current_node => t[2] < position

Members == /\ Range(rr_set) = visited
           /\ IsInjective(rr_set)
           /\ rr_set # <<>> => rr_set[1] = source_node

WalkInv == WalkType /\ Members /\ SourceFirst /\ (walk_pc # "idle" => EdgesSettled /\ TriesAreBehind)

LEMMA SameMembers == ASSUME WalkType PROVE Members <=> Walk!MembersAreDistinct
  BY SameLists DEF Members, WalkType, Walk!MembersAreDistinct

LEMMA CallInvariant == ASSUME WalkInv, Walk!Call PROVE WalkInv'
  <1>1. /\ walk_pc' = "loop" /\ visited' = {} /\ rr_set' = <<>> /\ tried' = {}
        /\ source_node' \in NodeId /\ queue' = <<source_node'>>
        /\ UNCHANGED <<graph_, current_node, position>>
    BY DEF Walk!Call, Walk!NodeId, NodeId
  <1>2. WalkType'
    BY <1>1 DEF WalkInv, WalkType
  <1>3. Members'
    BY <1>1 DEF Members, Range, IsInjective
  <1> QED BY <1>1, <1>2, <1>3 DEF WalkInv, SourceFirst, EdgesSettled, TriesAreBehind

LEMMA SkipInvariant == ASSUME WalkInv, Walk!SkipVisited PROVE WalkInv'
  <1>1. /\ walk_pc = "loop" /\ queue # <<>> /\ Last(queue) \in visited
        /\ queue' = Front(queue)
        /\ UNCHANGED <<graph_, walk_pc, visited, rr_set, current_node, position, source_node, tried>>
    BY SameLists DEF Walk!SkipVisited, Walk!AtNode, Walk!AlreadyVisited
  <1>2. /\ queue \in Seq(NodeId) /\ queue' \in Seq(NodeId)
        /\ Range(queue) = Range(queue') \cup {Last(queue)}
    BY <1>1, PopRange DEF WalkInv, WalkType
  <1>3. visited \cup Range(queue) = visited' \cup Range(queue')
    BY <1>1, <1>2
  <1>4. rr_set # <<>>
    BY <1>1 DEF WalkInv, Members, Range
  <1>5. EdgesSettled'
    BY <1>1, <1>3 DEF WalkInv, EdgesSettled, Walk!EdgesOf
  <1> QED BY <1>1, <1>2, <1>4, <1>5 DEF WalkInv, WalkType, Members, SourceFirst, TriesAreBehind

LEMMA VisitInvariant == ASSUME WalkInv, Walk!Visit PROVE WalkInv'
  <1>1. /\ walk_pc = "loop" /\ queue # <<>> /\ Last(queue) \notin visited
        /\ current_node' = Last(queue) /\ queue' = Front(queue)
        /\ visited' = visited \cup {Last(queue)} /\ rr_set' = Append(rr_set, Last(queue))
        /\ position' = 1 /\ walk_pc' = "edges"
        /\ UNCHANGED <<graph_, source_node, tried>>
    BY SameLists DEF Walk!Visit, Walk!AtNode, Walk!AlreadyVisited, Walk!Appended
  <1>2. /\ queue \in Seq(NodeId) /\ queue' \in Seq(NodeId) /\ Last(queue) \in NodeId
        /\ Range(queue) = Range(queue') \cup {Last(queue)}
    BY <1>1, PopRange DEF WalkInv, WalkType
  <1>3. visited' \cup Range(queue') = visited \cup Range(queue)
    BY <1>1, <1>2
  <1>4. /\ rr_set \in Seq(NodeId) /\ IsInjective(rr_set) /\ Range(rr_set) = visited
    BY DEF WalkInv, WalkType, Members
  <1>5. /\ rr_set' \in Seq(NodeId) /\ rr_set' # <<>>
        /\ Range(rr_set') = visited' /\ IsInjective(rr_set')
    <2> DEFINE node == Last(queue)
    <2>1. rr_set' = Append(rr_set, node) /\ visited' = visited \cup {node}
      BY <1>1
    <2>2. node \in NodeId /\ node \notin Range(rr_set)
      BY <1>1, <1>2, <1>4
    <2> HIDE DEF node
    <2>3. Append(rr_set, node) \in Seq(NodeId) /\ Range(Append(rr_set, node)) = Range(rr_set) \cup {node}
      BY <1>4, <2>2, PushRange
    <2>4. IsInjective(Append(rr_set, node))
      BY <1>4, <2>2, PushInjective
    <2>5. Append(rr_set, node) # <<>>
      <3>1. Len(Append(rr_set, node)) = Len(rr_set) + 1 /\ Len(rr_set) \in Nat
        BY <1>4, <2>2
      <3> QED BY <3>1
    <2> QED BY <1>4, <2>1, <2>3, <2>4, <2>5
  <1>6. rr_set'[1] = source_node
    <2>1. CASE rr_set = <<>>
      <3>1. queue = <<source_node>>
        BY <1>1, <2>1 DEF WalkInv, SourceFirst
      <3>2. Last(queue) = source_node
        BY <3>1 DEF Last
      <3> QED BY <1>1, <2>1, <3>2
    <2>2. CASE rr_set # <<>>
      <3>1. rr_set'[1] = rr_set[1]
        BY <1>1, <1>2, <1>4, <2>2
      <3> QED BY <2>2, <3>1 DEF WalkInv, Members
    <2> QED BY <2>1, <2>2
  <1>7. EdgesSettled'
    <2>1. ASSUME NEW u \in visited', NEW i \in 1..Len(Walk!EdgesOf(u))
          PROVE  \/ u = current_node' /\ i >= 1
                 \/ Walk!EdgesOf(u)[i].destination \in visited' \cup Range(queue')
                 \/ <<u, i>> \in tried
      <3>1. CASE u = Last(queue)
        BY <1>1, <3>1
      <3>2. CASE u \in visited
        BY <1>1, <1>3, <3>2 DEF WalkInv, EdgesSettled
      <3> QED BY <1>1, <3>1, <3>2
    <2> QED BY <1>1, <2>1 DEF EdgesSettled, Walk!EdgesOf
  <1>8. TriesAreBehind'
    BY <1>1 DEF WalkInv, TriesAreBehind
  <1> QED BY <1>1, <1>2, <1>5, <1>6, <1>7, <1>8 DEF WalkInv, WalkType, Members, SourceFirst

LEMMA DrawInvariant == ASSUME WalkInv, Walk!Draw PROVE WalkInv'
  <1> DEFINE dest == Walk!EdgesOf(current_node)[position].destination
  <1>1. /\ walk_pc = "edges" /\ position <= Len(Walk!EdgesOf(current_node))
        /\ queue' \in {Append(queue, dest), queue}
        /\ position' = position + 1
        /\ tried' = IF dest \in visited \cup Range(queue) THEN tried
                    ELSE tried \cup {<<current_node, position>>}
        /\ UNCHANGED <<graph_, walk_pc, visited, rr_set, current_node, source_node>>
    BY SameLists DEF Walk!Draw, Walk!AtEdge, Walk!Pushed, Walk!edge, Walk!Reached
  <1>2. /\ current_node \in NodeId /\ position \in Nat \ {0} /\ queue \in Seq(NodeId)
        /\ current_node \in visited /\ rr_set # <<>>
        /\ EdgesSettled /\ TriesAreBehind
    BY <1>1 DEF WalkInv, WalkType, TriesAreBehind, SourceFirst
  <1>3. dest \in NodeId
    BY <1>1, <1>2, InEdges DEF WalkInv, WalkType
  <1> HIDE DEF dest
  <1>4. queue' \in Seq(NodeId) /\ Range(queue) \subseteq Range(queue')
    <2>1. CASE queue' = queue
      BY <1>2, <2>1
    <2>2. CASE queue' = Append(queue, dest)
      <3>1. Append(queue, dest) \in Seq(NodeId)
        BY <1>2, <1>3
      <3>2. Range(Append(queue, dest)) = Range(queue) \cup {dest}
        BY <1>2, <1>3, PushRange
      <3> QED BY <2>2, <3>1, <3>2
    <2> QED BY <1>1, <2>1, <2>2
  <1>5. EdgesSettled'
    <2>1. ASSUME NEW u \in visited, NEW i \in 1..Len(Walk!EdgesOf(u))
          PROVE  \/ u = current_node /\ i >= position + 1
                 \/ Walk!EdgesOf(u)[i].destination \in visited \cup Range(queue')
                 \/ <<u, i>> \in tried'
      <3>1. CASE u = current_node /\ i = position
        BY <1>1, <1>4, <3>1 DEF dest
      <3>2. CASE ~(u = current_node /\ i = position)
        <4>1. i \in Int /\ position \in Int
          BY <1>2
        <4>2. \/ u = current_node /\ i >= position
              \/ Walk!EdgesOf(u)[i].destination \in visited \cup Range(queue)
              \/ <<u, i>> \in tried
          BY <1>2 DEF EdgesSettled
        <4> QED BY <1>1, <1>4, <3>2, <4>1, <4>2
      <3> QED BY <3>1, <3>2
    <2> QED BY <1>1, <2>1 DEF EdgesSettled, Walk!EdgesOf
  <1>6. TriesAreBehind'
    <2>1. ASSUME NEW t \in tried'
          PROVE  /\ t[1] \in visited /\ t[2] \in Nat
                 /\ t[1] = current_node => t[2] < position + 1
      <3>1. CASE t \in tried
        <4>1. /\ t[1] \in visited /\ t[2] \in Nat
              /\ t[1] = current_node => t[2] < position
          BY <1>1, <1>2, <3>1 DEF TriesAreBehind
        <4> QED BY <1>2, <4>1
      <3>2. CASE t = <<current_node, position>>
        BY <1>2, <3>2
      <3> QED BY <1>1, <2>1, <3>1, <3>2
    <2> QED BY <1>1, <1>2, <2>1 DEF TriesAreBehind
  <1> QED BY <1>1, <1>2, <1>4, <1>5, <1>6 DEF WalkInv, WalkType, Members, SourceFirst

LEMMA EdgesDoneInvariant == ASSUME WalkInv, Walk!EdgesDone PROVE WalkInv'
  <1>1. /\ walk_pc = "edges" /\ ~(position <= Len(Walk!EdgesOf(current_node)))
        /\ walk_pc' = "loop"
        /\ UNCHANGED <<graph_, visited, rr_set, queue, current_node, position, source_node, tried>>
    BY DEF Walk!EdgesDone, Walk!AtEdge
  <1>2. /\ position \in Nat /\ Len(Walk!EdgesOf(current_node)) \in Nat
        /\ rr_set # <<>> /\ EdgesSettled /\ TriesAreBehind
    BY <1>1, InEdges DEF WalkInv, WalkType, SourceFirst
  <1>3. ASSUME NEW u \in visited, NEW i \in 1..Len(Walk!EdgesOf(u))
        PROVE  \/ Walk!EdgesOf(u)[i].destination \in visited \cup Range(queue)
               \/ <<u, i>> \in tried
    <2>1. ~(u = current_node /\ i >= position)
      BY <1>1, <1>2
    <2> QED BY <1>2, <2>1 DEF EdgesSettled
  <1>4. EdgesSettled'
    BY <1>1, <1>3 DEF EdgesSettled, Walk!EdgesOf
  <1>5. TriesAreBehind'
    BY <1>1, <1>2 DEF TriesAreBehind
  <1>6. WalkType' /\ Members' /\ SourceFirst'
    BY <1>1, <1>2 DEF WalkInv, WalkType, Members, SourceFirst
  <1> QED BY <1>4, <1>5, <1>6 DEF WalkInv

LEMMA ReturnInvariant == ASSUME WalkInv, Walk!Return PROVE WalkInv'
  <1>1. /\ walk_pc = "loop" /\ walk_pc' = "done"
        /\ UNCHANGED <<graph_, visited, rr_set, queue, current_node, position, source_node, tried>>
    BY DEF Walk!Return
  <1>2. EdgesSettled' /\ TriesAreBehind'
    BY <1>1 DEF WalkInv, EdgesSettled, TriesAreBehind, Walk!EdgesOf
  <1> QED BY <1>1, <1>2 DEF WalkInv, WalkType, Members, SourceFirst

\* A step that is not the walk's leaves it as it is.
LEMMA WalkStays == ASSUME WalkInv, UNCHANGED walk_vars PROVE WalkInv'
  <1>1. UNCHANGED <<graph_, walk_pc, visited, rr_set, queue, current_node, position,
                    source_node, tried>>
    BY DEF walk_vars
  <1>2. EdgesSettled' <=> EdgesSettled
    BY <1>1 DEF EdgesSettled, Walk!EdgesOf
  <1>3. TriesAreBehind' <=> TriesAreBehind
    BY <1>1 DEF TriesAreBehind
  <1>4. WalkType' /\ Members' /\ SourceFirst'
    BY <1>1 DEF WalkInv, WalkType, Members, SourceFirst
  <1> QED BY <1>1, <1>2, <1>3, <1>4 DEF WalkInv

LEMMA WalkInvariant == ASSUME WalkInv, Walk!Next PROVE WalkInv'
  BY CallInvariant, SkipInvariant, VisitInvariant, DrawInvariant, EdgesDoneInvariant,
     ReturnInvariant DEF Walk!Next

-----------------------------------------------------------------------------
(* The walks and the selection together.                                   *)

ImmInv == IInv /\ WalkInv /\ Phases

LEMMA ImmInitInvariant == ImmInit => ImmInv
  <1> SUFFICES ASSUME ImmInit PROVE ImmInv
    OBVIOUS
  <1>1. PICK input \in Inputs : graph_ = input.graph /\ theta = input.theta
    BY DEF ImmInit
  <1>2. graph_ \in Walk!Graph /\ theta \in Nat
    BY <1>1, InputAssumption
  <1>3. /\ walk_pc = "idle" /\ rr_set = <<>> /\ queue = <<>> /\ visited = {}
        /\ current_node = 0 /\ position = 1
    BY DEF ImmInit, Walk!Init
  <1>4. 0 \in NodeId
    BY SelectionAssumption DEF NodeId
  <1>5. WalkType /\ SourceFirst
    BY <1>2, <1>3, <1>4 DEF WalkType, SourceFirst
  <1>6. Members
    BY <1>3 DEF Members, Range, IsInjective
  <1>7. pc = "fill"
    BY DEF ImmInit, Init
  <1> QED BY <1>2, <1>3, <1>5, <1>6, <1>7, InitInvariant DEF ImmInit, ImmInv, WalkInv, Phases

\* While sets are missing, the selection waits with empty hands.
LEMMA KeepSetInvariant == ASSUME ImmInv, KeepSet PROVE ImmInv'
  <1>1. /\ walk_pc = "done" /\ walk_pc' = "idle"
        /\ rr_sets_' = Append(rr_sets_, Range(rr_set))
        /\ UNCHANGED <<k, rr_set_already_covered, counter, result_set, pc, theta, graph_,
                       visited, rr_set, queue, current_node, position, source_node, tried>>
    BY DEF KeepSet
  <1>2. SetsMissing /\ pc = "fill"
    BY <1>1 DEF ImmInv, Phases
  <1>3. Range(rr_set) \in SUBSET NodeId
    BY DEF ImmInv, WalkInv, WalkType, Range
  <1>4. /\ rr_sets_ \in Seq(SUBSET NodeId) /\ rr_sets_' \in Seq(SUBSET NodeId)
        /\ Len(rr_sets_) \in Nat /\ Len(rr_sets_') = Len(rr_sets_) + 1
    BY <1>1, <1>3 DEF ImmInv, IInv, TypeOK
  <1>5. TypeOK'
    <2>1. 1..Len(rr_sets_) \subseteq 1..Len(rr_sets_')
      BY <1>4
    <2>2. /\ k \in 0..MaxK /\ rr_set_already_covered \subseteq 1..Len(rr_sets_)
          /\ counter \in [NodeId -> SUBSET (1..Len(rr_sets_))]
          /\ result_set \in Seq(NodeId) /\ Len(result_set) <= k
      BY DEF ImmInv, IInv, TypeOK
    <2>3. counter \in [NodeId -> SUBSET (1..Len(rr_sets_'))]
      BY <2>1, <2>2
    <2> QED BY <1>1, <1>2, <1>4, <2>1, <2>2, <2>3 DEF TypeOK
  <1>6. result_set = <<>> /\ rr_set_already_covered = {}
    BY <1>2 DEF ImmInv, IInv
  <1>7. CountersAreUncovered'
    BY <1>1, <1>2 DEF CountersAreUncovered
  <1>8. CoverageIsExact'
    BY <1>1, <1>6 DEF CoverageIsExact, CoveredBy, Selected, Range
  <1>9. WalkInv'
    BY <1>1 DEF ImmInv, WalkInv, WalkType, Members, SourceFirst
  <1>10. Phases'
    BY <1>1, <1>2 DEF ImmInv, Phases
  <1> QED BY <1>1, <1>5, <1>6, <1>7, <1>8, <1>9, <1>10 DEF ImmInv, IInv

LEMMA ImmNextInvariant == ImmInv /\ [ImmNext]_imm_vars => ImmInv'
  <1> SUFFICES ASSUME ImmInv, [ImmNext]_imm_vars PROVE ImmInv'
    OBVIOUS
  <1>1. CASE WalkStep
    <2>1. SetsMissing /\ Walk!Next /\ UNCHANGED vars /\ UNCHANGED theta
      BY <1>1 DEF WalkStep
    <2>2. WalkInv'
      BY <2>1, WalkInvariant DEF ImmInv
    <2>3. IInv'
      BY <2>1, NextInvariant DEF ImmInv
    <2>4. Phases'
      BY <2>1 DEF ImmInv, Phases, SetsMissing, vars
    <2> QED BY <2>2, <2>3, <2>4 DEF ImmInv
  <1>2. CASE KeepSet
    BY <1>2, KeepSetInvariant
  <1>3. CASE SelectionStep
    <2>1. ~SetsMissing /\ Next /\ UNCHANGED theta /\ UNCHANGED walk_vars
      BY <1>3 DEF SelectionStep
    <2>2. IInv'
      BY <2>1, NextInvariant DEF ImmInv
    <2>3. WalkInv'
      BY <2>1, WalkStays DEF ImmInv
    <2>4. rr_sets_' = rr_sets_
      BY <2>1 DEF Next, FillCounter, Pick, Return
    <2>5. Phases'
      BY <2>1, <2>4 DEF ImmInv, Phases, SetsMissing, walk_vars
    <2> QED BY <2>2, <2>3, <2>5 DEF ImmInv
  <1>4. CASE UNCHANGED imm_vars
    <2>1. UNCHANGED vars /\ UNCHANGED theta /\ UNCHANGED walk_vars
      BY <1>4 DEF imm_vars
    <2>2. IInv' /\ WalkInv'
      BY <2>1, NextInvariant, WalkStays DEF ImmInv
    <2>3. Phases'
      BY <2>1 DEF ImmInv, Phases, SetsMissing, vars, walk_vars
    <2> QED BY <2>2, <2>3 DEF ImmInv
  <1> QED BY <1>1, <1>2, <1>3, <1>4 DEF ImmNext

LEMMA ImmInvariant == ImmSpec => []ImmInv
  BY ImmInitInvariant, ImmNextInvariant, PTL DEF ImmSpec

\* Every RR set that solve keeps lists its nodes once, the source first.
THEOREM MembersDistinct == ImmSpec => []MembersAreDistinct
  <1>1. ImmInv => MembersAreDistinct
    BY SameMembers DEF ImmInv, IInv, WalkInv, MembersAreDistinct
  <1> QED BY <1>1, ImmInvariant, PTL

\* On the sets of the walks too, the counters hold the uncovered sets.
THEOREM ImmCountersCorrect == ImmSpec => []CountersAreUncovered
  BY ImmInvariant, PTL DEF ImmInv, IInv

\* On the sets of the walks too, the flags are the coverage of the result.
THEOREM ImmCoverageCorrect == ImmSpec => []CoverageIsExact
  BY ImmInvariant, PTL DEF ImmInv, IInv

\* Each seed that solve returns covers the most sets that one more node can.
THEOREM ImmGreedyCorrect == ImmSpec => PicksAreGreedy
  <1>1. ASSUME ImmInv, [ImmNext]_imm_vars
        PROVE  [Next]_vars \/ result_set' = result_set
    BY <1>1 DEF ImmNext, WalkStep, KeepSet, SelectionStep, imm_vars, vars
  <1>2. ImmInv /\ [ImmNext]_imm_vars =>
           [result_set' # result_set =>
              \A m \in NodeId :
                 /\ Gain(m) <= Gain(Last(result_set'))
                 /\ Gain(m) > 0 => Last(result_set') \notin Selected]_vars
    BY <1>1, NextPicksGreedily DEF ImmInv
  <1> QED BY <1>2, ImmInvariant, PTL DEF ImmSpec, PicksAreGreedy

-----------------------------------------------------------------------------
(* The refinement of CascadeProcess.                                       *)

\* While the graph stays, so do its arcs.
LEMMA SameArcs ==
    ASSUME graph_' = graph_
    PROVE  /\ \A u, i : Walk!ArcOf(u, i)' = Walk!ArcOf(u, i)
           /\ Walk!Arcs' = Walk!Arcs
  BY DEF Walk!ArcOf, Walk!Arcs, Walk!getInverseEdgesOf, Walk!getInDegreeOf

LEMMA ReachedSet == Walk!Reached = visited \cup Range(queue)
  BY SameLists DEF Walk!Reached

\* What leaves the reached nodes, the tries and the end alone is a stutter.
LEMMA Stutter ==
    ASSUME graph_' = graph_, Walk!Reached' = Walk!Reached, tried' = tried,
           walk_pc \in {"idle", "done"} <=> walk_pc' \in {"idle", "done"}
    PROVE  UNCHANGED Walk!Process!vars
  <1>1. Walk!Arcs' = Walk!Arcs
    BY SameArcs
  <1>2. Walk!TriedArcs' = Walk!TriedArcs
    BY DEF Walk!TriedArcs, Walk!ArcOf, Walk!getInverseEdgesOf
  <1>3. (walk_pc \in {"idle", "done"})' = (walk_pc \in {"idle", "done"})
    OBVIOUS
  <1> QED BY <1>1, <1>2, <1>3 DEF Walk!Process!vars

\* A draw is recorded under the arc it is for.
LEMMA DrawnArcs ==
    ASSUME graph_' = graph_, tried' = tried \cup {<<current_node, position>>}
    PROVE  Walk!TriedArcs' = Walk!TriedArcs \cup {Walk!ArcOf(current_node, position)}
  <1> DEFINE arcOf(t) == Walk!ArcOf(t[1], t[2])
  <1>1. Walk!TriedArcs' = {arcOf(t) : t \in tried \cup {<<current_node, position>>}}
    BY DEF Walk!TriedArcs, Walk!ArcOf, Walk!getInverseEdgesOf
  <1>2. Walk!TriedArcs = {arcOf(t) : t \in tried}
    BY DEF Walk!TriedArcs
  <1>3. arcOf(<<current_node, position>>) = Walk!ArcOf(current_node, position)
    OBVIOUS
  <1> HIDE DEF arcOf
  <1> QED BY <1>1, <1>2, <1>3

\* A draw for an edge to a node that is not reached is a first try of an open arc.
LEMMA DrawIsTry ==
    ASSUME WalkInv, walk_pc = "edges", position <= Len(Walk!EdgesOf(current_node)),
           Walk!edge.destination \notin Walk!Reached
    PROVE  /\ Walk!ArcOf(current_node, position) \in Walk!Process!Open
           /\ Walk!ArcOf(current_node, position).to = Walk!edge.destination
           /\ Walk!ArcOf(current_node, position).weight = Walk!edge.weight
  <1> DEFINE arc == Walk!ArcOf(current_node, position)
  <1>1. /\ current_node \in NodeId /\ position \in Nat \ {0}
        /\ current_node \in visited /\ TriesAreBehind
    BY DEF WalkInv, WalkType, TriesAreBehind
  <1>2. Len(Walk!EdgesOf(current_node)) \in Nat
    BY <1>1, InEdges DEF WalkInv, WalkType
  <1>3. position \in 1..Walk!getInDegreeOf(graph_, current_node)
    BY <1>1, <1>2 DEF Walk!getInDegreeOf, Walk!EdgesOf
  <1>4. arc \in Walk!Arcs
    BY <1>1, <1>3 DEF Walk!Arcs, Walk!NodeId, NodeId
  <1>5. /\ arc.from = current_node /\ arc.slot = position
        /\ arc.to = Walk!edge.destination /\ arc.weight = Walk!edge.weight
    BY DEF Walk!ArcOf, Walk!edge, Walk!EdgesOf
  <1>6. ASSUME NEW t \in tried, Walk!ArcOf(t[1], t[2]) = arc
        PROVE  FALSE
    <2>1. t[1] = current_node /\ t[2] = position
      BY <1>6 DEF Walk!ArcOf
    <2>2. t[2] < position
      BY <1>1, <2>1 DEF TriesAreBehind
    <2> QED BY <1>1, <2>1, <2>2
  <1>7. arc \notin Walk!TriedArcs
    BY <1>6 DEF Walk!TriedArcs
  <1>8. arc.from \in Walk!Reached
    BY <1>1, <1>5, ReachedSet
  <1> HIDE DEF arc
  <1>9. arc \in Walk!Process!Open
    BY <1>4, <1>5, <1>7, <1>8 DEF Walk!Process!Open
  <1> QED BY <1>5, <1>9 DEF arc

LEMMA DrawRefines ==
    ASSUME WalkInv, Walk!Draw
    PROVE  [Walk!Process!Next]_(Walk!Process!vars)
  <1> DEFINE arc == Walk!ArcOf(current_node, position)
  <1>1. /\ walk_pc = "edges" /\ position <= Len(Walk!EdgesOf(current_node))
        /\ UNCHANGED <<graph_, walk_pc, visited, rr_set, current_node, source_node>>
        /\ tried' = IF Walk!edge.destination \in Walk!Reached THEN tried
                    ELSE tried \cup {<<current_node, position>>}
    BY DEF Walk!Draw, Walk!AtEdge
  <1>2. PICK rnd \in Walk!genrand_close_open :
           queue' = IF Walk!edge.weight > rnd THEN Append(queue, Walk!edge.destination) ELSE queue
    BY DEF Walk!Draw, Walk!Live, Walk!Pushed
  <1>3. /\ current_node \in NodeId /\ position \in Nat \ {0} /\ queue \in Seq(NodeId)
    BY DEF WalkInv, WalkType
  <1>4. Walk!edge.destination \in NodeId /\ Walk!edge.weight \in Walk!Weight
    <2>1. position \in 1..Len(Walk!EdgesOf(current_node))
      BY <1>1, <1>3, InEdges DEF WalkInv, WalkType
    <2> QED BY <1>3, <2>1, InEdges DEF WalkInv, WalkType, Walk!edge
  <1>5. rnd \in Nat /\ rnd < One /\ Walk!edge.weight \in Nat /\ One \in Nat
    BY <1>2, <1>4, InputAssumption DEF Walk!genrand_close_open, Walk!Weight
  <1>6. \/ Walk!edge.weight > 0 /\ Walk!Reached' = Walk!Reached \cup {Walk!edge.destination}
        \/ Walk!edge.weight < One /\ Walk!Reached' = Walk!Reached
    <2>1. CASE Walk!edge.weight > rnd
      <3>1. queue' = Append(queue, Walk!edge.destination)
        BY <1>2, <2>1
      <3>2. Range(queue') = Range(queue) \cup {Walk!edge.destination}
        BY <1>3, <1>4, <3>1, PushRange
      <3>3. Walk!Reached' = visited' \cup Range(queue')
        BY SameLists DEF Walk!Reached
      <3>4. Walk!edge.weight > 0
        BY <1>5, <2>1
      <3> QED BY <1>1, <3>2, <3>3, <3>4, ReachedSet
    <2>2. CASE ~(Walk!edge.weight > rnd)
      <3>1. queue' = queue
        BY <1>2, <2>2
      <3>2. Walk!Reached' = Walk!Reached
        BY <1>1, <3>1 DEF Walk!Reached
      <3>3. Walk!edge.weight < One
        BY <1>5, <2>2
      <3> QED BY <3>2, <3>3
    <2> QED BY <2>1, <2>2
  <1>7. CASE Walk!edge.destination \in Walk!Reached
    <2>1. Walk!Reached' = Walk!Reached
      BY <1>6, <1>7
    <2> QED BY <1>1, <1>7, <2>1, Stutter
  <1>8. CASE Walk!edge.destination \notin Walk!Reached
    <2>1. /\ arc \in Walk!Process!Open
          /\ arc.to = Walk!edge.destination /\ arc.weight = Walk!edge.weight
      BY <1>1, <1>8, DrawIsTry
    <2>2. Walk!TriedArcs' = Walk!TriedArcs \cup {arc}
      BY <1>1, <1>8, DrawnArcs
    <2>3. Walk!Arcs' = Walk!Arcs
      BY <1>1, SameArcs
    <2>4. /\ (walk_pc \in {"idle", "done"})' = (walk_pc \in {"idle", "done"})
          /\ ~(walk_pc \in {"idle", "done"})
      BY <1>1
    <2> HIDE DEF arc
    <2>5. Walk!Process!Try(arc)
      BY <1>6, <2>1, <2>2, <2>3, <2>4 DEF Walk!Process!Try
    <2>6. arc \in Walk!Arcs
      BY <2>1 DEF Walk!Process!Open
    <2> QED BY <2>5, <2>6 DEF Walk!Process!Next
  <1> QED BY <1>7, <1>8

\* With an empty stack each edge of a visited node is settled: no arc is open.
LEMMA ReturnRefines ==
    ASSUME WalkInv, Walk!Return
    PROVE  Walk!Process!Next
  <1>1. /\ walk_pc = "loop" /\ queue = <<>> /\ walk_pc' = "done"
        /\ UNCHANGED <<graph_, visited, rr_set, queue, current_node, position,
                       source_node, tried>>
    BY DEF Walk!Return
  <1>2. EdgesSettled /\ Walk!Reached = visited
    BY <1>1, ReachedSet DEF WalkInv, Range
  <1>3. ASSUME NEW a \in Walk!Arcs \ Walk!TriedArcs, a.from \in Walk!Reached,
               a.to \notin Walk!Reached
        PROVE  FALSE
    <2>1. PICK u \in NodeId : \E i \in 1..Walk!getInDegreeOf(graph_, u) : a = Walk!ArcOf(u, i)
      BY DEF Walk!Arcs, Walk!NodeId, NodeId
    <2>2. PICK i \in 1..Len(Walk!EdgesOf(u)) : a = Walk!ArcOf(u, i)
      BY <2>1 DEF Walk!getInDegreeOf, Walk!EdgesOf
    <2>3. a.from = u /\ a.to = Walk!EdgesOf(u)[i].destination
      BY <2>2 DEF Walk!ArcOf, Walk!EdgesOf
    <2>4. <<u, i>> \in tried
      BY <1>1, <1>2, <1>3, <2>3 DEF EdgesSettled, Range
    <2>5. a \in Walk!TriedArcs
      BY <2>2, <2>4 DEF Walk!TriedArcs
    <2> QED BY <1>3, <2>5
  <1>4. Walk!Process!Open = {}
    BY <1>3 DEF Walk!Process!Open
  <1>5. Walk!Arcs' = Walk!Arcs /\ Walk!Reached' = Walk!Reached
    BY <1>1, SameArcs DEF Walk!Reached
  <1>6. Walk!TriedArcs' = Walk!TriedArcs
    BY <1>1 DEF Walk!TriedArcs, Walk!ArcOf, Walk!getInverseEdgesOf
  <1>7. /\ (walk_pc \in {"idle", "done"})' = TRUE
        /\ ~(walk_pc \in {"idle", "done"})
    BY <1>1
  <1> QED BY <1>4, <1>5, <1>6, <1>7 DEF Walk!Process!Next, Walk!Process!Finish

LEMMA WalkRefines ==
    ASSUME WalkInv, Walk!Next, walk_pc # "idle"
    PROVE  [Walk!Process!Next]_(Walk!Process!vars)
  <1>1. CASE Walk!Call
    BY <1>1 DEF Walk!Call
  <1>2. CASE Walk!SkipVisited
    <2>1. /\ walk_pc' = walk_pc /\ graph_' = graph_ /\ tried' = tried
          /\ visited' = visited /\ queue # <<>> /\ Last(queue) \in visited
          /\ queue' = Front(queue)
      BY <1>2, SameLists DEF Walk!SkipVisited, Walk!AtNode, Walk!AlreadyVisited
    <2>2. Range(queue) = Range(queue') \cup {Last(queue)}
      BY <2>1, PopRange DEF WalkInv, WalkType
    <2>3. Walk!Reached' = visited' \cup Range(queue')
      BY SameLists DEF Walk!Reached
    <2>4. Walk!Reached' = Walk!Reached
      BY <2>1, <2>2, <2>3, ReachedSet
    <2> QED BY <2>1, <2>4, Stutter
  <1>3. CASE Walk!Visit
    <2>1. /\ walk_pc = "loop" /\ walk_pc' = "edges" /\ graph_' = graph_ /\ tried' = tried
          /\ queue # <<>> /\ visited' = visited \cup {Last(queue)}
          /\ queue' = Front(queue)
      BY <1>3, SameLists DEF Walk!Visit, Walk!AtNode
    <2>2. Range(queue) = Range(queue') \cup {Last(queue)}
      BY <2>1, PopRange DEF WalkInv, WalkType
    <2>3. Walk!Reached' = visited' \cup Range(queue')
      BY SameLists DEF Walk!Reached
    <2>4. Walk!Reached' = Walk!Reached
      BY <2>1, <2>2, <2>3, ReachedSet
    <2> QED BY <2>1, <2>4, Stutter
  <1>4. CASE Walk!Draw
    BY <1>4, DrawRefines
  <1>5. CASE Walk!EdgesDone
    <2>1. /\ walk_pc = "edges" /\ walk_pc' = "loop"
          /\ UNCHANGED <<graph_, visited, queue, tried>>
      BY <1>5 DEF Walk!EdgesDone
    <2>2. Walk!Reached' = Walk!Reached
      BY <2>1 DEF Walk!Reached
    <2> QED BY <2>1, <2>2, Stutter
  <1>6. CASE Walk!Return
    BY <1>6, ReturnRefines
  <1> QED BY <1>1, <1>2, <1>3, <1>4, <1>5, <1>6 DEF Walk!Next

\* Every set that IMM works with is an independent cascade against the edges,
\* on every graph and for any numbers drawn.
THEOREM WalksCorrect == ImmSpec => WalksAreCascades
  <1>1. ASSUME ImmInv, [ImmNext]_imm_vars
        PROVE  [walk_pc = "idle" \/ Walk!Process!Next]_(Walk!Process!vars)
    <2>1. CASE WalkStep
      BY <1>1, <2>1, WalkRefines DEF WalkStep, ImmInv
    <2>2. CASE KeepSet
      <3>1. /\ walk_pc = "done" /\ walk_pc' = "idle"
            /\ UNCHANGED <<graph_, visited, queue, tried>>
        BY <2>2 DEF KeepSet
      <3>2. Walk!Reached' = Walk!Reached
        BY <3>1 DEF Walk!Reached
      <3> QED BY <3>1, <3>2, Stutter
    <2>3. CASE SelectionStep \/ UNCHANGED imm_vars
      <3>1. UNCHANGED <<walk_pc, graph_, visited, queue, tried>>
        BY <2>3 DEF SelectionStep, imm_vars, walk_vars
      <3>2. Walk!Reached' = Walk!Reached
        BY <3>1 DEF Walk!Reached
      <3> QED BY <3>1, <3>2, Stutter
    <2> QED BY <1>1, <2>1, <2>2, <2>3 DEF ImmNext
  <1> QED BY <1>1, ImmInvariant, PTL DEF ImmSpec, WalksAreCascades, Walk!ImplementsProcess

-----------------------------------------------------------------------------
(* IMM::solve.                                                             *)

InLoop == solve_pc \in {"sample", "last"}

\* The tasks of a loop are numbered from the number of sets there were on, so that
\* the sets of earlier loops and of ended tasks have numbers of their own.
Numbered ==
    \E first \in Nat, last \in Int :
        /\ DOMAIN tasks = first..last
        /\ Kept = (0..(first - 1)) \cup {y \in first..last : tasks[y] = "joined"}
        /\ InLoop => last >= 0
        /\ solve_pc = "last" => last = lambda_star \div lower_bound

\* Only one task is between the two steps of its insertion: the end it read is still the end.
Exclusive ==
    /\ \A y \in DOMAIN tasks : tasks[y] = "locked" => end[y] = Len(all_rr_sets)
    /\ \A y, z \in DOMAIN tasks : tasks[y] = "locked" /\ tasks[z] = "locked" => y = z
    /\ \A y \in DOMAIN tasks : tasks[y] \in {"created", "locked"} =>
           temp[y] = <<[task |-> y, first_draw |-> dsfmt]>>

\* The result is as old as the last loop.
UpToDate == /\ solve_pc \in {"rounds", "more"} => selected_from = all_rr_sets
            /\ solve_pc = "finish" /\ ~rr_sets_changed => selected_from = all_rr_sets
            /\ solve_pc = "last" => rr_sets_changed
            /\ solve_pc = "done" => selected_from = all_rr_sets

SolveInv ==
    /\ SolveTypeOK
    /\ IsFiniteSet(Kept) /\ Cardinality(Kept) = Len(all_rr_sets)
    /\ Numbered
    /\ Exclusive
    /\ UpToDate
    /\ ~InLoop => DOMAIN tasks = {}
    /\ solve_pc = "sample" => MoreRounds
    /\ solve_pc \in {"finish", "done"} => Len(all_rr_sets) * lower_bound >= lambda_star

-----------------------------------------------------------------------------
(* Arithmetic.                                                             *)

LEMMA Quotient ==
    ASSUME NEW a \in Nat, NEW b \in Nat \ {0}
    PROVE  /\ a \div b \in Nat
           /\ (a \div b) * b <= a
           /\ a < (a \div b + 1) * b
  OBVIOUS

\* A quotient lies between its bounds.
LEMMA QuotientIn ==
    ASSUME NEW a \in Nat, NEW b \in Nat \ {0}, NEW top \in Nat, b <= a, a <= top * b
    PROVE  a \div b \in 1..top
  <1> DEFINE q == a \div b
  <1>1. q \in Nat /\ q * b <= a /\ a < (q + 1) * b
    BY Quotient
  <1> HIDE DEF q
  <1>2. q >= 1
    BY <1>1
  <1>3. q <= top
    <2>1. q * b <= top * b
      BY <1>1
    <2> QED BY <2>1, <1>1
  <1> QED BY <1>1, <1>2, <1>3 DEF q

\* The bound computed in line 74 is positive where line 73 was met, and at most n.
LEMMA BoundInRange ==
    ASSUME NEW size \in Nat \ {0}, NEW covered \in 0..size, NEW nodes \in Nat, NEW p \in Nat \ {0},
           2 * p < nodes, covered * p * D >= (D + E) * size
    PROVE  (nodes * covered * D) \div ((D + E) * size) \in 1..nodes
  <1>1. nodes * covered * D \in Nat /\ (D + E) * size \in Nat \ {0}
    BY DEF D, E
  <1>2. (D + E) * size <= nodes * covered * D
    <2>1. covered * p <= covered * nodes
      OBVIOUS
    <2>2. covered * p * D <= nodes * covered * D
      BY <2>1 DEF D
    <2> QED BY <1>1, <2>2 DEF D, E
  <1>3. nodes * covered * D <= nodes * ((D + E) * size)
    <2>1. nodes * covered <= nodes * size
      OBVIOUS
    <2> QED BY <2>1 DEF D, E
  <1> QED BY <1>1, <1>2, <1>3, QuotientIn

-----------------------------------------------------------------------------
(* Counting: the numbers of the sets there are when no task is running.    *)

LEMMA Interval ==
    ASSUME NEW a \in Int
    PROVE  /\ IsFiniteSet(0..a)
           /\ a >= 0 => Cardinality(0..a) = a + 1
           /\ a < 0 => Cardinality(0..a) = 0
  BY FS_Interval

LEMMA Quiet ==
    ASSUME SolveInv, Joined
    PROVE  /\ Kept = 0..(Len(all_rr_sets) - 1)
           /\ InLoop => Len(all_rr_sets) >= 1
           /\ solve_pc = "last" => Len(all_rr_sets) > lambda_star \div lower_bound
  <1>1. PICK first \in Nat, last \in Int :
            /\ DOMAIN tasks = first..last
            /\ Kept = (0..(first - 1)) \cup {y \in first..last : tasks[y] = "joined"}
            /\ InLoop => last >= 0
            /\ solve_pc = "last" => last = lambda_star \div lower_bound
    BY DEF SolveInv, Numbered
  <1>2. Cardinality(Kept) = Len(all_rr_sets)
    BY DEF SolveInv
  <1>3. Kept = (0..(first - 1)) \cup (first..last)
    BY <1>1 DEF Joined
  <1>4. CASE first <= last
    <2>1. Kept = 0..last
      BY <1>3, <1>4
    <2>2. Len(all_rr_sets) = last + 1
      BY <1>2, <1>4, <2>1, Interval
    <2> QED BY <1>1, <1>4, <2>1, <2>2
  <1>5. CASE first > last
    <2>1. Kept = 0..(first - 1)
      BY <1>3, <1>5
    <2>2. Cardinality(0..(first - 1)) = first
      <3>1. first - 1 \in Int /\ (first - 1 < 0 => first = 0)
        OBVIOUS
      <3> QED BY <3>1, Interval
    <2>3. Len(all_rr_sets) = first
      BY <1>2, <2>1, <2>2
    <2> QED BY <1>1, <1>5, <2>1, <2>3
  <1> QED BY <1>4, <1>5

LEMMA SolveInitInvariant == ASSUME SolveInit PROVE SolveInv
  <1>1. /\ all_rr_sets = <<>> /\ selected_from = <<>>
        /\ tasks = << >> /\ temp = << >> /\ end = << >>
    BY DEF SolveInit, NoTasks
  <1>start. /\ solve_pc = "rounds" /\ power = 2 /\ lower_bound = 1 /\ dsfmt = 0 /\ influence = 0
        /\ rr_sets_changed = FALSE
        /\ n \in NodeNumbers /\ lambda_a \in LambdaA /\ lambda_star \in LambdaStar
    BY DEF SolveInit
  <1>2. Kept = {} /\ DOMAIN tasks = {} /\ DOMAIN temp = {} /\ DOMAIN end = {}
    BY <1>1 DEF Kept, Range
  <1>3. SolveTypeOK
    <2>1. /\ tasks \in [DOMAIN tasks -> {"ready", "created", "locked", "joined"}]
          /\ temp \in [DOMAIN tasks -> Seq(RrSet)]
          /\ end \in [DOMAIN tasks -> Nat]
      BY <1>1, <1>2
    <2>2. all_rr_sets \in Seq(RrSet) /\ selected_from \in Seq(RrSet)
      BY <1>1
    <2>3. lower_bound \in 1..n
      BY <1>start, SamplingAssumption
    <2>4. /\ power \in Nat \ {0} /\ dsfmt \in Nat /\ influence \in Nat
          /\ solve_pc \in {"rounds", "sample", "more", "last", "finish", "done"}
          /\ n \in NodeNumbers /\ lambda_a \in LambdaA /\ lambda_star \in LambdaStar
      BY <1>start
    <2>5. rr_sets_changed \in BOOLEAN
      BY <1>start, Zenon
    <2> QED BY <2>1, <2>2, <2>3, <2>4, <2>5 DEF SolveTypeOK
  <1>4. IsFiniteSet(Kept) /\ Cardinality(Kept) = Len(all_rr_sets)
    BY <1>1, <1>2, FS_EmptySet
  <1>5. Numbered
    <2>1. \E first \in Nat, last \in Int :
              /\ DOMAIN tasks = first..last
              /\ Kept = (0..(first - 1)) \cup {y \in first..last : tasks[y] = "joined"}
              /\ InLoop => last >= 0
              /\ solve_pc = "last" => last = lambda_star \div lower_bound
      <3> WITNESS 0 \in Nat, -1 \in Int
      <3> QED BY <1>start, <1>2 DEF InLoop
    <2> QED BY <2>1 DEF Numbered
  <1> QED BY <1>1, <1>start, <1>2, <1>3, <1>4, <1>5 DEF SolveInv, Exclusive, UpToDate, InLoop

-----------------------------------------------------------------------------
(* The steps of the tasks.                                                 *)

LEMMA CreateInvariant == ASSUME SolveInv, NEW y \in DOMAIN tasks, Create(y) PROVE SolveInv'
  <1> USE DEF Create, sequential_vars
  <1>1. tasks \in [DOMAIN tasks -> {"ready", "created", "locked", "joined"}]
    BY DEF SolveInv, SolveTypeOK
  <1>2. /\ DOMAIN tasks' = DOMAIN tasks
        /\ tasks'[y] = "created" /\ tasks[y] = "ready"
        /\ \A z \in DOMAIN tasks : z # y => tasks'[z] = tasks[z]
    BY <1>1
  <1>3. PICK first \in Nat, last \in Int :
            /\ DOMAIN tasks = first..last
            /\ Kept = (0..(first - 1)) \cup {z \in first..last : tasks[z] = "joined"}
            /\ InLoop => last >= 0
            /\ solve_pc = "last" => last = lambda_star \div lower_bound
    BY DEF SolveInv, Numbered
  <1>4. y \in Nat
    BY <1>3
  <1>5. SolveTypeOK'
    <2>1. temp' \in [DOMAIN tasks -> Seq(RrSet)]
      BY <1>4 DEF SolveInv, SolveTypeOK, RrSet
    <2> QED BY <1>1, <1>2, <2>1 DEF SolveInv, SolveTypeOK
  <1>6. Kept' = Kept /\ InLoop' = InLoop
    BY DEF Kept, InLoop
  <1>7. Numbered'
    <2>1. {z \in first..last : tasks'[z] = "joined"} = {z \in first..last : tasks[z] = "joined"}
      BY <1>2, <1>3
    <2> QED BY <1>2, <1>3, <1>6, <2>1 DEF Numbered
  <1>8. Exclusive'
    <2>1. /\ temp'[y] = <<[task |-> y, first_draw |-> dsfmt]>>
          /\ \A z \in DOMAIN tasks : z # y => temp'[z] = temp[z]
      BY DEF SolveInv, SolveTypeOK
    <2> QED BY <1>2, <2>1 DEF SolveInv, Exclusive
  <1> QED BY <1>2, <1>5, <1>6, <1>7, <1>8 DEF SolveInv, UpToDate, InLoop, MoreRounds

LEMMA LockInvariant == ASSUME SolveInv, NEW y \in DOMAIN tasks, Lock(y) PROVE SolveInv'
  <1> USE DEF Lock, sequential_vars
  <1>1. tasks \in [DOMAIN tasks -> {"ready", "created", "locked", "joined"}]
    BY DEF SolveInv, SolveTypeOK
  <1>2. /\ DOMAIN tasks' = DOMAIN tasks
        /\ tasks'[y] = "locked" /\ tasks[y] = "created"
        /\ \A z \in DOMAIN tasks : z # y => tasks'[z] = tasks[z]
        /\ \A z \in DOMAIN tasks : tasks[z] # "locked"
    BY <1>1 DEF LockIsFree
  <1>3. PICK first \in Nat, last \in Int :
            /\ DOMAIN tasks = first..last
            /\ Kept = (0..(first - 1)) \cup {z \in first..last : tasks[z] = "joined"}
            /\ InLoop => last >= 0
            /\ solve_pc = "last" => last = lambda_star \div lower_bound
    BY DEF SolveInv, Numbered
  <1>4. SolveTypeOK'
    <2>1. Len(all_rr_sets) \in Nat /\ end \in [DOMAIN tasks -> Nat]
      BY DEF SolveInv, SolveTypeOK
    <2> QED BY <1>1, <1>2, <2>1 DEF SolveInv, SolveTypeOK
  <1>5. Kept' = Kept /\ InLoop' = InLoop
    BY DEF Kept, InLoop
  <1>6. Numbered'
    <2>1. {z \in first..last : tasks'[z] = "joined"} = {z \in first..last : tasks[z] = "joined"}
      BY <1>2, <1>3
    <2> QED BY <1>2, <1>3, <1>5, <2>1 DEF Numbered
  <1>7. Exclusive'
    <2>1. end'[y] = Len(all_rr_sets)
      BY DEF SolveInv, SolveTypeOK
    <2> QED BY <1>2, <2>1 DEF SolveInv, Exclusive
  <1> QED BY <1>2, <1>4, <1>5, <1>6, <1>7 DEF SolveInv, UpToDate, InLoop, MoreRounds

LEMMA InsertInvariant == ASSUME SolveInv, NEW y \in DOMAIN tasks, Insert(y) PROVE SolveInv'
  <1>0. /\ tasks[y] = "locked"
        /\ all_rr_sets' = SubSeq(all_rr_sets, 1, end[y]) \o temp[y]
        /\ temp' = [temp EXCEPT ![y] = <<>>]
        /\ tasks' = [tasks EXCEPT ![y] = "joined"]
        /\ UNCHANGED <<n, lambda_a, lambda_star, power, lower_bound, dsfmt, rr_sets_changed,
                       influence, selected_from, solve_pc, end>>
    BY DEF Insert, sequential_vars
  <1> DEFINE r == [task |-> y, first_draw |-> dsfmt]
  <1>1. /\ tasks \in [DOMAIN tasks -> {"ready", "created", "locked", "joined"}]
        /\ all_rr_sets \in Seq(RrSet) /\ dsfmt \in Nat
    BY DEF SolveInv, SolveTypeOK
  <1>2. /\ DOMAIN tasks' = DOMAIN tasks
        /\ tasks'[y] = "joined" /\ tasks[y] = "locked"
        /\ \A z \in DOMAIN tasks : z # y => tasks'[z] = tasks[z] /\ tasks[z] # "locked"
    BY <1>0, <1>1 DEF SolveInv, Exclusive
  <1>3. PICK first \in Nat, last \in Int :
            /\ DOMAIN tasks = first..last
            /\ Kept = (0..(first - 1)) \cup {z \in first..last : tasks[z] = "joined"}
            /\ InLoop => last >= 0
            /\ solve_pc = "last" => last = lambda_star \div lower_bound
    BY DEF SolveInv, Numbered
  <1>4. y \in first..last /\ y \in Nat /\ r \in RrSet
    BY <1>1, <1>3 DEF RrSet
  <1>5. all_rr_sets' = Append(all_rr_sets, r)
    <2>1. end[y] = Len(all_rr_sets) /\ temp[y] = <<r>>
      BY <1>2 DEF SolveInv, Exclusive
    <2>2. SubSeq(all_rr_sets, 1, Len(all_rr_sets)) = all_rr_sets
      BY <1>1, SubSeqFull
    <2>3. Append(all_rr_sets, r) = all_rr_sets \o <<r>>
      BY <1>1, <1>4, AppendIsConcat
    <2> QED BY <1>0, <2>1, <2>2, <2>3
  <1>task. r.task = y
    OBVIOUS
  <1> HIDE DEF r
  <1>6. /\ all_rr_sets' \in Seq(RrSet)
        /\ Range(all_rr_sets') = Range(all_rr_sets) \cup {r}
        /\ Len(all_rr_sets') = Len(all_rr_sets) + 1 /\ Len(all_rr_sets) \in Nat
    <2>1. all_rr_sets' \in Seq(RrSet) /\ Range(all_rr_sets') = Range(all_rr_sets) \cup {r}
      BY <1>1, <1>4, <1>5, PushRange
    <2>2. Len(all_rr_sets') = Len(all_rr_sets) + 1 /\ Len(all_rr_sets) \in Nat
      BY <1>1, <1>4, <1>5, AppendProperties
    <2> QED BY <2>1, <2>2
  <1>7. Kept' = Kept \cup {y}
    BY <1>6, <1>task DEF Kept, Range, Range
  <1>8. y \notin Kept
    BY <1>2, <1>3, <1>4
  <1>9. IsFiniteSet(Kept') /\ Cardinality(Kept') = Len(all_rr_sets')
    BY <1>6, <1>7, <1>8, FS_AddElement DEF SolveInv
  <1>10. SolveTypeOK'
    <2>1. temp' \in [DOMAIN tasks -> Seq(RrSet)]
      BY <1>0 DEF SolveInv, SolveTypeOK
    <2> QED BY <1>0, <1>1, <1>2, <1>6, <2>1 DEF SolveInv, SolveTypeOK
  <1>11. Numbered'
    <2>1. {z \in first..last : tasks'[z] = "joined"}
              = {z \in first..last : tasks[z] = "joined"} \cup {y}
      BY <1>2, <1>3, <1>4
    <2> QED BY <1>0, <1>2, <1>3, <1>7, <2>1 DEF Numbered, InLoop
  <1>12. Exclusive'
    <2>1. \A z \in DOMAIN tasks : z # y => temp'[z] = temp[z]
      BY <1>0 DEF SolveInv, SolveTypeOK
    <2> QED BY <1>0, <1>2, <2>1 DEF SolveInv, Exclusive
  <1>13. InLoop
    BY DEF SolveInv
  <1> QED BY <1>0, <1>2, <1>9, <1>10, <1>11, <1>12, <1>13 DEF SolveInv, UpToDate, InLoop, MoreRounds

LEMMA TaskInvariant == ASSUME SolveInv, NEW y \in DOMAIN tasks, Task(y) PROVE SolveInv'
  BY CreateInvariant, LockInvariant, InsertInvariant DEF Task

-----------------------------------------------------------------------------
(* The steps of solve.                                                     *)

\* A loop starts with one task for each number it has to reach.
LEMMA StartInvariant ==
    ASSUME SolveInv, ~InLoop, NEW goal \in Nat, StartTasks(goal),
           UNCHANGED <<n, lambda_a, lambda_star, power, lower_bound, dsfmt, influence, selected_from>>,
           rr_sets_changed' \in BOOLEAN,
           \/ solve_pc' = "sample" /\ MoreRounds
           \/ solve_pc' = "last" /\ goal = lambda_star \div lower_bound /\ rr_sets_changed'
    PROVE  SolveInv'
  <1> DEFINE indices == Len(all_rr_sets)..goal
  <1>1. /\ tasks' = [y \in indices |-> "ready"]
        /\ temp' = [y \in indices |-> <<>>]
        /\ end' = [y \in indices |-> 0]
        /\ all_rr_sets' = all_rr_sets
    BY DEF StartTasks
  <1>2. DOMAIN tasks' = indices /\ \A y \in indices : tasks'[y] = "ready"
    BY <1>1
  <1>3. Len(all_rr_sets) \in Nat
    BY DEF SolveInv, SolveTypeOK
  <1>4. SolveTypeOK'
    <2>1. /\ tasks' \in [indices -> {"ready", "created", "locked", "joined"}]
          /\ temp' \in [indices -> Seq(RrSet)]
          /\ end' \in [indices -> Nat]
      BY <1>1
    <2>2. solve_pc' \in {"rounds", "sample", "more", "last", "finish", "done"}
      OBVIOUS
    <2> QED BY <1>1, <1>2, <2>1, <2>2 DEF SolveInv, SolveTypeOK
  <1>5. Kept' = Kept /\ Kept = 0..(Len(all_rr_sets) - 1)
    <2>1. Joined
      BY DEF SolveInv, Joined
    <2> QED BY <1>1, <2>1, Quiet DEF Kept
  <1>6. Numbered'
    <2>1. {y \in Len(all_rr_sets)..goal : tasks'[y] = "joined"} = {}
      BY <1>2
    <2>2. \E first \in Nat, last \in Int :
              /\ DOMAIN tasks' = first..last
              /\ Kept' = (0..(first - 1)) \cup {y \in first..last : tasks'[y] = "joined"}
              /\ InLoop' => last >= 0
              /\ solve_pc' = "last" => last = lambda_star' \div lower_bound'
      <3> WITNESS Len(all_rr_sets) \in Nat, goal \in Int
      <3> QED BY <1>2, <1>5, <2>1
    <2> QED BY <2>2 DEF Numbered
  <1>7. Exclusive'
    BY <1>2 DEF Exclusive
  <1>8. InLoop'
    BY DEF InLoop
  <1> QED BY <1>1, <1>4, <1>5, <1>6, <1>7, <1>8 DEF SolveInv, UpToDate, InLoop, MoreRounds

\* Between two loops there are no tasks.
LEMMA IdleNumbered ==
    ASSUME SolveInv, Joined, tasks' = << >>, temp' = << >>, end' = << >>, all_rr_sets' = all_rr_sets,
           solve_pc' \notin {"sample", "last"}
    PROVE  /\ Kept' = Kept /\ DOMAIN tasks' = {}
           /\ Numbered' /\ Exclusive'
           /\ tasks' \in [DOMAIN tasks' -> {"ready", "created", "locked", "joined"}]
           /\ temp' \in [DOMAIN tasks' -> Seq(RrSet)]
           /\ end' \in [DOMAIN tasks' -> Nat]
  <1>1. Kept' = Kept /\ Kept = 0..(Len(all_rr_sets) - 1) /\ Len(all_rr_sets) \in Nat
    BY Quiet DEF Kept, SolveInv, SolveTypeOK
  <1>2. DOMAIN tasks' = {} /\ DOMAIN temp' = {} /\ DOMAIN end' = {}
    OBVIOUS
  <1>3. Numbered'
    <2>1. \E first \in Nat, last \in Int :
              /\ DOMAIN tasks' = first..last
              /\ Kept' = (0..(first - 1)) \cup {y \in first..last : tasks'[y] = "joined"}
              /\ InLoop' => last >= 0
              /\ solve_pc' = "last" => last = lambda_star' \div lower_bound'
      <3> WITNESS Len(all_rr_sets) \in Nat, Len(all_rr_sets) - 1 \in Int
      <3>1. Len(all_rr_sets)..(Len(all_rr_sets) - 1) = {}
        BY <1>1
      <3> QED BY <1>1, <1>2, <3>1 DEF InLoop
    <2> QED BY <2>1 DEF Numbered
  <1>4. Exclusive'
    BY <1>2 DEF Exclusive
  <1> QED BY <1>1, <1>2, <1>3, <1>4

LEMMA CheckInvariant == ASSUME SolveInv, Check PROVE SolveInv'
  <1>1. /\ solve_pc = "sample" /\ Joined
        /\ selected_from' = all_rr_sets /\ influence' \in 0..Len(all_rr_sets)
        /\ tasks' = << >> /\ temp' = << >> /\ end' = << >>
        /\ UNCHANGED <<n, lambda_a, lambda_star, dsfmt, all_rr_sets, rr_sets_changed>>
        /\ IF GoodEnough
           THEN lower_bound' = NewLowerBound /\ solve_pc' = "more" /\ UNCHANGED power
           ELSE power' = 2 * power /\ solve_pc' = "rounds" /\ UNCHANGED lower_bound
    BY DEF Check, Select
  <1>2. solve_pc' \in {"more", "rounds"}
    BY <1>1
  <1>3. /\ Len(all_rr_sets) \in Nat \ {0} /\ n \in Nat \ {0} /\ power \in Nat \ {0}
        /\ 2 * power < n
    BY <1>1, Quiet, SamplingAssumption DEF SolveInv, SolveTypeOK, InLoop, MoreRounds
  <1>4. lower_bound' \in 1..n' /\ power' \in Nat \ {0}
    <2>1. CASE GoodEnough
      <3>1. NewLowerBound \in 1..n
        BY <1>1, <1>3, <2>1, BoundInRange DEF GoodEnough, NewLowerBound
      <3> QED BY <1>1, <1>3, <2>1, <3>1
    <2>2. CASE ~GoodEnough
      BY <1>1, <1>3, <2>2 DEF SolveInv, SolveTypeOK
    <2> QED BY <2>1, <2>2
  <1>5. /\ Kept' = Kept /\ DOMAIN tasks' = {}
        /\ Numbered' /\ Exclusive'
        /\ tasks' \in [DOMAIN tasks' -> {"ready", "created", "locked", "joined"}]
        /\ temp' \in [DOMAIN tasks' -> Seq(RrSet)]
        /\ end' \in [DOMAIN tasks' -> Nat]
    BY <1>1, <1>2, IdleNumbered
  <1>6. SolveTypeOK'
    <2>1. influence' \in Nat
      BY <1>1, <1>3
    <2> QED BY <1>1, <1>2, <1>4, <1>5, <2>1 DEF SolveInv, SolveTypeOK
  <1> QED BY <1>1, <1>2, <1>5, <1>6 DEF SolveInv, UpToDate, InLoop

\* The steps that leave the sets and the bound alone, and that no task takes part in.
LEMMA IdleInvariant == ASSUME SolveInv, RoundsEnd \/ NoMore \/ LastJoined \/ ReturnResult PROVE SolveInv'
  <1>1. /\ UNCHANGED <<n, lambda_a, lambda_star, power, lower_bound, dsfmt, all_rr_sets, rr_sets_changed>>
        /\ solve_pc' \in {"more", "finish", "done"}
        /\ Joined /\ DOMAIN tasks' = {} /\ DOMAIN temp' = {} /\ DOMAIN end' = {}
    <2>1. DOMAIN temp = DOMAIN tasks /\ DOMAIN end = DOMAIN tasks
      BY DEF SolveInv, SolveTypeOK
    <2>2. CASE LastJoined
      BY <2>2 DEF LastJoined
    <2>3. CASE RoundsEnd \/ NoMore \/ ReturnResult
      <3>1. DOMAIN tasks = {} /\ Joined
        BY <2>3 DEF RoundsEnd, NoMore, ReturnResult, SolveInv, InLoop, Joined
      <3> QED BY <2>1, <2>3, <3>1 DEF RoundsEnd, NoMore, ReturnResult, task_vars
    <2> QED BY <2>2, <2>3
  <1>2. Kept' = Kept /\ Kept = 0..(Len(all_rr_sets) - 1) /\ Len(all_rr_sets) \in Nat
    BY <1>1, Quiet DEF Kept, SolveInv, SolveTypeOK
  <1>3. Numbered'
    <2>1. \E first \in Nat, last \in Int :
              /\ DOMAIN tasks' = first..last
              /\ Kept' = (0..(first - 1)) \cup {y \in first..last : tasks'[y] = "joined"}
              /\ InLoop' => last >= 0
              /\ solve_pc' = "last" => last = lambda_star' \div lower_bound'
      <3> WITNESS Len(all_rr_sets) \in Nat, Len(all_rr_sets) - 1 \in Int
      <3>1. Len(all_rr_sets)..(Len(all_rr_sets) - 1) = {}
        BY <1>2
      <3> QED BY <1>1, <1>2, <3>1 DEF InLoop
    <2> QED BY <2>1 DEF Numbered
  <1>4. Exclusive'
    BY <1>1 DEF Exclusive
  <1>5. /\ selected_from' \in Seq(RrSet) /\ influence' \in Nat
        /\ \/ selected_from' = selected_from
           \/ solve_pc' = "done" /\ selected_from' = all_rr_sets /\ rr_sets_changed
    <2>1. selected_from \in Seq(RrSet) /\ all_rr_sets \in Seq(RrSet) /\ influence \in Nat
      BY DEF SolveInv, SolveTypeOK
    <2>2. CASE RoundsEnd \/ NoMore \/ LastJoined
      <3>1. selected_from' = selected_from /\ influence' = influence
        BY <2>2 DEF RoundsEnd, NoMore, LastJoined
      <3> QED BY <2>1, <3>1, Zenon
    <2>3. CASE ReturnResult /\ rr_sets_changed
      <3>1. solve_pc' = "done" /\ selected_from' = all_rr_sets /\ influence' \in 0..Len(all_rr_sets)
        BY <2>3, Zenon DEF ReturnResult, Select
      <3>2. influence' \in Nat
        BY <1>2, <3>1
      <3> QED BY <2>1, <2>3, <3>1, <3>2, Zenon
    <2>4. CASE ReturnResult /\ ~rr_sets_changed
      <3>1. selected_from' = selected_from /\ influence' = influence
        BY <2>4, Zenon DEF ReturnResult
      <3> QED BY <2>1, <3>1, Zenon
    <2> QED BY <2>2, <2>3, <2>4
  <1>6. SolveTypeOK'
    <2>1. /\ tasks' \in [DOMAIN tasks' -> {"ready", "created", "locked", "joined"}]
          /\ temp' \in [DOMAIN tasks' -> Seq(RrSet)]
          /\ end' \in [DOMAIN tasks' -> Nat]
      <3>1. CASE LastJoined
        BY <1>1, <3>1 DEF LastJoined
      <3>2. CASE RoundsEnd \/ NoMore \/ ReturnResult
        BY <3>2 DEF RoundsEnd, NoMore, ReturnResult, task_vars, SolveInv, SolveTypeOK
      <3> QED BY <3>1, <3>2
    <2> QED BY <1>1, <1>5, <2>1 DEF SolveInv, SolveTypeOK
  <1>7. UpToDate'
    BY <1>1, <1>5 DEF RoundsEnd, NoMore, LastJoined, ReturnResult, Select, SolveInv, UpToDate
  <1>8. ASSUME solve_pc' \in {"finish", "done"} PROVE Len(all_rr_sets) * lower_bound >= lambda_star
    <2>1. Len(all_rr_sets) \in Nat /\ lambda_star \in Nat /\ lower_bound \in Nat \ {0}
      BY <1>2, SamplingAssumption DEF SolveInv, SolveTypeOK
    <2>2. CASE NoMore
      BY <2>1, <2>2 DEF NoMore, Missing
    <2>3. CASE LastJoined
      <3> DEFINE q == lambda_star \div lower_bound
      <3>1. q \in Nat /\ lambda_star < (q + 1) * lower_bound
        BY <2>1, Quotient
      <3>2. Len(all_rr_sets) >= q + 1
        <4>1. Len(all_rr_sets) > q /\ q \in Nat
          BY <1>1, <2>3, <3>1, Quiet DEF LastJoined
        <4> HIDE DEF q
        <4> QED BY <2>1, <4>1
      <3> HIDE DEF q
      <3>3. (q + 1) * lower_bound <= Len(all_rr_sets) * lower_bound
        BY <2>1, <3>1, <3>2
      <3> QED BY <2>1, <3>1, <3>3
    <2>4. CASE RoundsEnd
      BY <1>8, <2>4 DEF RoundsEnd
    <2>5. CASE ReturnResult
      BY <2>5 DEF ReturnResult, SolveInv
    <2> QED BY <2>2, <2>3, <2>4, <2>5
  <1> QED BY <1>1, <1>2, <1>3, <1>4, <1>6, <1>7, <1>8 DEF SolveInv, InLoop

LEMMA SolveNextInvariant == SolveInv /\ [SolveNext]_solve_vars => SolveInv'
  <1> SUFFICES ASSUME SolveInv, [SolveNext]_solve_vars PROVE SolveInv'
    OBVIOUS
  <1>1. /\ lambda_a \in Nat /\ lambda_star \in Nat /\ power \in Nat /\ n \in Nat \ {0}
        /\ lower_bound \in Nat \ {0}
    BY SamplingAssumption DEF SolveInv, SolveTypeOK
  <1>2. CASE Round
    <2>1. theta_i \in Nat
      BY <1>1, Quotient DEF theta_i
    <2>2. rr_sets_changed' \in BOOLEAN
      BY <1>2, Zenon DEF Round, SolveInv, SolveTypeOK
    <2> QED BY <1>2, <2>1, <2>2, StartInvariant DEF Round, InLoop
  <1>3. CASE More
    <2>1. lambda_star \div lower_bound \in Nat
      BY <1>1, Quotient
    <2>2. rr_sets_changed' \in BOOLEAN /\ rr_sets_changed'
      BY <1>3, Zenon DEF More, SetsFlag
    <2> QED BY <1>3, <2>1, <2>2, StartInvariant DEF More, InLoop
  <1>4. CASE \E y \in DOMAIN tasks : Task(y)
    BY <1>4, TaskInvariant
  <1>5. CASE UNCHANGED solve_vars
    BY <1>5 DEF solve_vars, sequential_vars, task_vars, SolveInv, SolveTypeOK, Kept, Numbered, Exclusive, UpToDate, InLoop,
                MoreRounds
  <1>6. CASE Check
    BY <1>6, CheckInvariant
  <1>7. CASE RoundsEnd \/ NoMore \/ LastJoined \/ ReturnResult
    BY <1>7, IdleInvariant
  <1> QED BY <1>2, <1>3, <1>4, <1>5, <1>6, <1>7 DEF SolveNext

LEMMA SolveInvariant == SolveSpec => []SolveInv
  <1>1. SolveInit => SolveInv
    BY SolveInitInvariant
  <1> QED BY <1>1, SolveNextInvariant, PTL DEF SolveSpec

-----------------------------------------------------------------------------

\* However the tasks interleave, the vector holds one RR set for every task that ended.
THEOREM EverySetIsKept == SolveSpec => []EveryRrSetIsKept
  <1>1. SolveInv => EveryRrSetIsKept
    <2> SUFFICES ASSUME SolveInv PROVE EveryRrSetIsKept
      OBVIOUS
    <2>1. \A y \in DOMAIN tasks : tasks[y] = "joined" <=> y \in Kept
      BY DEF SolveInv, Numbered
    <2>2. ASSUME tasks = << >> PROVE Kept = 0..(Len(all_rr_sets) - 1)
      <3>1. Joined
        BY <2>2 DEF Joined
      <3> QED BY <3>1, Quiet
    <2>3. Cardinality(Kept) = Cardinality(Kept)
      BY DEF Cardinality, Cardinality
    <2> QED BY <2>1, <2>2, <2>3 DEF SolveInv, EveryRrSetIsKept
  <1> QED BY <1>1, SolveInvariant, PTL

\* The final selection has at least as many RR sets as the guarantee asks for.
THEOREM Enough == SolveSpec => []EnoughRrSets
  <1>1. SolveInv => EnoughRrSets
    BY DEF SolveInv, EnoughRrSets
  <1> QED BY <1>1, SolveInvariant, PTL

\* The result that is returned was selected from all RR sets.
THEOREM ResultSelected == SolveSpec => []ResultIsUpToDate
  <1>1. SolveInv => ResultIsUpToDate
    BY DEF SolveInv, UpToDate, ResultIsUpToDate
  <1> QED BY <1>1, SolveInvariant, PTL

=============================================================================
