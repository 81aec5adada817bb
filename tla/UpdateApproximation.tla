------------------------- MODULE UpdateApproximation -------------------------
(***************************************************************************)
(* UpdateApproximation: scores of weighted walks of up to iterations_      *)
(* hops, computed once and then kept up to date around each new seed.      *)
(* forwardUpdate takes the seed's part off the scores of the last but one  *)
(* iteration, backwardUpdate brings the score of one node up to date when  *)
(* it gets to the top of the priority queue.                               *)
(*                                                                         *)
(* The second loop of forwardUpdate runs in parallel, one task for each    *)
(* in-edge of the seed, and the tasks subtract from the same vector with   *)
(* no lock: a subtraction is a read and a write.  The other parallel loops *)
(* write one entry per task and read another vector: each is one step.     *)
(***************************************************************************)
EXTENDS WalkScores

CONSTANTS Graphs, Iterations, MaxK

ASSUME UpdateAssumption == /\ Graphs \subseteq Graph
                           /\ Iterations \subseteq Nat
                           /\ MaxK \in 1..NumberOfNodes

\* What the edges from u to v weigh, found at u and found at v.
WeightTo(g, u, v) ==
    SumOver(g.forward[u], LAMBDA e : IF e.destination = v THEN Hop(e) ELSE 0)

BackWeightTo(g, u, v) ==
    SumOver(g.backward[v], LAMBDA e : IF e.destination = u THEN Hop(e) ELSE 0)

\* The parser builds the in-edges from the out-edges.  Weights that it generates are the
\* same in both (ViewsMirror of GraphBuild); those that a file gives are not.
ASSUME MirrorAssumption ==
    \A g \in Graphs : \A u, v \in NodeId : WeightTo(g, u, v) = BackWeightTo(g, u, v)

VARIABLES graph, k, iterations_,
          weighted_degree_even_, weighted_degree_odd_, weighted_degree_0_,
          updated_,
          pq,          \* the nodes in the priority queue
          seed_set,
          pc,          \* "init", "iterate", "first", "loop", "forward", "tasks", "done"
          iteration,
          task,        \* the tasks of the parallel loop, by in-edge of the seed
          before       \* history: the scores the parallel loop started from

scores == <<weighted_degree_even_, weighted_degree_odd_, weighted_degree_0_>>
vars == <<graph, k, iterations_, scores, updated_, pq, seed_set, pc, iteration,
          task, before>>

Zero == [n \in NodeId |-> 0]

Init == /\ graph \in Graphs
        /\ k \in 0..MaxK
        /\ iterations_ \in Iterations
        /\ weighted_degree_even_ = Zero
        /\ weighted_degree_odd_ = Zero
        /\ weighted_degree_0_ = Zero
        /\ updated_ = {}
        /\ pq = {}
        /\ seed_set = <<>>
        /\ pc = "init"
        /\ iteration = 2
        /\ task = <<>>
        /\ before = Zero

-----------------------------------------------------------------------------
(* The scores of all nodes.                                                 *)

calculateWD(node) == SumOver(getEdgesOf(graph, node), Hop)

\* Lines 22-30.
InitialScores == /\ pc = "init"
                 /\ weighted_degree_odd_' = [n \in NodeId |-> calculateWD(n)]
                 /\ weighted_degree_0_' = [n \in NodeId |-> calculateWD(n)]
                 /\ pc' = "iterate"
                 /\ UNCHANGED <<graph, k, iterations_, weighted_degree_even_, updated_,
                                pq, seed_set, iteration, task, before>>

\* Lines 106-116 and 198-206: the score of a node, one hop further.
NextScore(lookup, node) ==
    lookup[node] + SumOver(getEdgesOf(graph, node),
                           LAMBDA e : Along(e, lookup[e.destination]))

NextScores(lookup) == [n \in NodeId |-> NextScore(lookup, n)]

performWeightedDegreeIteration ==
    /\ pc = "iterate" /\ iteration <= iterations_
    /\ IF iteration % 2 = 0
       THEN /\ weighted_degree_even_' = NextScores(weighted_degree_odd_)
            /\ UNCHANGED weighted_degree_odd_
       ELSE /\ weighted_degree_odd_' = NextScores(weighted_degree_even_)
            /\ UNCHANGED weighted_degree_even_
    /\ iteration' = iteration + 1
    /\ UNCHANGED <<graph, k, iterations_, weighted_degree_0_, updated_, pq,
                   seed_set, pc, task, before>>

\* Line 53.
BuildQueue == /\ pc = "iterate" /\ iteration > iterations_
              /\ pq' = NodeId
              /\ pc' = "first"
              /\ UNCHANGED <<graph, k, iterations_, scores, updated_, seed_set,
                             iteration, task, before>>

-----------------------------------------------------------------------------
(* The lazy selection.                                                      *)

\* Lines 36-39: the vector the queue is ordered by.
weighted_degree == IF iterations_ <= 1 THEN weighted_degree_0_
                   ELSE IF iterations_ % 2 = 0 THEN weighted_degree_even_
                   ELSE weighted_degree_odd_

IsLargest(n, queue) == /\ n \in queue
                       /\ \A m \in queue : weighted_degree[m] <= weighted_degree[n]

\* top().  With one iteration forwardUpdate changes the entries of queued nodes
\* behind the heap's back, and any node may be found at its root.
IsTop(n, queue) == IF iterations_ <= 1 THEN n \in queue ELSE IsLargest(n, queue)

Seed == Last(seed_set)

\* Lines 59-62.
TakeFirst == /\ pc = "first"
             /\ \E n \in NodeId : /\ IsTop(n, pq)
                                  /\ seed_set' = Append(seed_set, n)
                                  /\ pq' = pq \ {n}
             /\ pc' = "forward"
             /\ UNCHANGED <<graph, k, iterations_, scores, updated_, iteration, task,
                            before>>

\* Mutant: the first seed counts twice.
SeedsMissingLessOne == Len(seed_set) + 1 < k

SeedsMissing == Len(seed_set) < k

Looping == pc = "loop" /\ SeedsMissing

ClearedUpdates == {}

\* Lines 68-73; updated_ is not used by forwardUpdate, so that it may be cleared first.
AddUpToDate == /\ Looping
               /\ \E n \in updated_ : /\ IsTop(n, pq)
                                      /\ seed_set' = Append(seed_set, n)
                                      /\ pq' = pq \ {n}
               /\ updated_' = ClearedUpdates
               /\ pc' = "forward"
               /\ UNCHANGED <<graph, k, iterations_, scores, iteration, task, before>>

weighted_degree_old == IF iterations_ % 2 = 1 THEN weighted_degree_even_
                       ELSE IF iterations_ = 2 THEN weighted_degree_0_
                       ELSE weighted_degree_odd_

\* Mutant: iterations_ = 2 reads the vector of the first iteration.
ScoreFromOdd(node) == NextScore(weighted_degree_odd_, node)

RefreshedScore(node) == NextScore(weighted_degree_old, node)

\* The score a popped node is compared with: backwardUpdate returns early with
\* one iteration, where forwardUpdate has done the work.
CurrentScore(node) == IF iterations_ <= 1 THEN weighted_degree[node] ELSE RefreshedScore(node)

backwardUpdate(node) ==
    /\ IF iterations_ > 1 /\ iterations_ % 2 = 0
       THEN weighted_degree_even_' = [weighted_degree_even_ EXCEPT ![node] = CurrentScore(node)]
       ELSE UNCHANGED weighted_degree_even_
    /\ IF iterations_ > 1 /\ iterations_ % 2 = 1
       THEN weighted_degree_odd_' = [weighted_degree_odd_ EXCEPT ![node] = CurrentScore(node)]
       ELSE UNCHANGED weighted_degree_odd_
    /\ UNCHANGED weighted_degree_0_

\* Mutant: the node that was updated is always taken.
AlwaysStays(score, rest) == TRUE

\* Line 79; top() of an empty queue is undefined and may compare either way.
StaysOnTop(score, rest) ==
    rest = {} \/ \E m \in NodeId : IsTop(m, rest) /\ score >= weighted_degree[m]

FallsBehind(score, rest) ==
    rest = {} \/ \E m \in NodeId : IsTop(m, rest) /\ score < weighted_degree[m]

QueueWith(node) == pq \cup {node}

\* Lines 77-87.
Refresh ==
    /\ Looping
    /\ \E n \in NodeId \ updated_ :
          /\ IsTop(n, pq)
          /\ backwardUpdate(n)
          /\ \/ /\ StaysOnTop(CurrentScore(n), pq \ {n})
                /\ seed_set' = Append(seed_set, n)
                /\ pq' = pq \ {n}
                /\ updated_' = ClearedUpdates
                /\ pc' = "forward"
             \/ /\ FallsBehind(CurrentScore(n), pq \ {n})
                /\ updated_' = updated_ \cup {n}
                /\ pq' = QueueWith(n)
                /\ UNCHANGED <<seed_set, pc>>
    /\ UNCHANGED <<graph, k, iterations_, iteration, task, before>>

-----------------------------------------------------------------------------
(* forwardUpdate.                                                           *)

SeedsInEdges == getInverseEdgesOf(graph, Seed)

Reset(score) == [score EXCEPT ![Seed] = 0]

\* Mutant: the skip of line 153 is forgotten.
NeverDone(wd0, node) == FALSE

\* Line 153: a node with a weighted degree of 0 is taken for a seed.
IsDone(wd0, node) == wd0[node] = 0

\* One in-edge of the seed, for both vectors at once.
AfterEdge(acc, e) ==
    IF IsDone(acc.wd0, e.destination) THEN acc
    ELSE [wd0    |-> [acc.wd0 EXCEPT ![e.destination] = @ - Hop(e)],
          second |-> [acc.second EXCEPT ![e.destination] =
                         @ - (Along(e, weighted_degree_0_[Seed]) + Hop(e))]]

\* The loop of lines 152-163.
FirstHop(wd0, second) ==
    LET hop[j \in 0..Len(SeedsInEdges)] ==
            IF j = 0 THEN [wd0 |-> wd0, second |-> second]
            ELSE AfterEdge(hop[j - 1], SeedsInEdges[j])
    IN  hop[Len(SeedsInEdges)]

\* A task that has done some edges of its loop.
Ready(edges) == [state |-> "ready", edges |-> edges, register |-> 0]

\* Lines 142-167.
forwardUpdate ==
    /\ pc = "forward"
    /\ LET even == Reset(weighted_degree_even_)
           odd  == Reset(weighted_degree_odd_)
           hop  == FirstHop(Reset(weighted_degree_0_),
                            IF iterations_ % 2 = 0 THEN odd ELSE even)
           deep == iterations_ > 2
       IN  /\ weighted_degree_0_' = hop.wd0
           /\ weighted_degree_odd_'  = IF deep /\ iterations_ % 2 = 0 THEN hop.second ELSE odd
           /\ weighted_degree_even_' = IF deep /\ iterations_ % 2 = 1 THEN hop.second ELSE even
           /\ before' = hop.second
           /\ pc' = IF deep THEN "tasks" ELSE "loop"
           /\ task' = IF deep THEN [i \in 1..Len(SeedsInEdges) |-> Ready(0)] ELSE <<>>
    /\ UNCHANGED <<graph, k, iterations_, updated_, pq, seed_set, iteration>>

\* The vector that the tasks share.
second_last == IF iterations_ % 2 = 0 THEN weighted_degree_odd_ ELSE weighted_degree_even_

WriteSecondLast(v) ==
    IF iterations_ % 2 = 0
    THEN weighted_degree_odd_' = v /\ UNCHANGED weighted_degree_even_
    ELSE weighted_degree_even_' = v /\ UNCHANGED weighted_degree_odd_

Neighbor(i) == SeedsInEdges[i].destination

TaskEdges(i) == getInverseEdgesOf(graph, Neighbor(i))

NextTail(i) == TaskEdges(i)[task[i].edges + 1].destination

\* Lines 174-176, 177 and 178-180: the last is a return, not a continue.
TaskEnds(i) == \/ task[i].edges = 0 /\ weighted_degree_0_[Neighbor(i)] = 0
               \/ task[i].edges = Len(TaskEdges(i))
               \/ weighted_degree_0_[NextTail(i)] = 0

\* A task goes from edge to edge until it ends; line 181 reads a score ...
Read(i) == /\ pc = "tasks" /\ task[i].state = "ready"
           /\ task' = [task EXCEPT ![i] =
                          IF TaskEnds(i) THEN [@ EXCEPT !.state = "ended"]
                          ELSE [@ EXCEPT !.state = "read",
                                         !.register = second_last[NextTail(i)]]]
           /\ UNCHANGED <<graph, k, iterations_, scores, updated_, pq, seed_set, pc,
                          iteration, before>>

\* Mutant: the weight of the seed's edge is left out of the product.
ShareOfOneHop(i, e) == Hop(e)

\* Line 182: the weight of the walk over e and the i-th edge to the seed.
Share(i, e) == Along(e, Hop(SeedsInEdges[i]))

\* ... and writes it back less the weight of the walk to the seed.
Write(i) ==
    /\ pc = "tasks" /\ task[i].state = "read"
    /\ LET e == TaskEdges(i)[task[i].edges + 1]
       IN  WriteSecondLast([second_last EXCEPT ![e.destination] =
                task[i].register - Share(i, e)])
    /\ task' = [task EXCEPT ![i] = Ready(@.edges + 1)]
    /\ UNCHANGED <<graph, k, iterations_, weighted_degree_0_, updated_, pq, seed_set,
                   pc, iteration, before>>

Joined == pc = "tasks" /\ \A i \in DOMAIN task : task[i].state = "ended"

Join == /\ Joined
        /\ pc' = "loop"
        /\ UNCHANGED <<graph, k, iterations_, scores, updated_, pq, seed_set, iteration,
                       task, before>>

Return == /\ pc = "loop" /\ ~SeedsMissing
          /\ pc' = "done"
          /\ UNCHANGED <<graph, k, iterations_, scores, updated_, pq, seed_set,
                         iteration, task, before>>

Next == \/ InitialScores \/ performWeightedDegreeIteration \/ BuildQueue
        \/ TakeFirst \/ AddUpToDate \/ Refresh \/ forwardUpdate
        \/ \E i \in DOMAIN task : Read(i) \/ Write(i)
        \/ Join \/ Return

Spec == Init /\ [][Next]_vars

\* The main thread goes on, and the scheduler runs every task to its end; each
\* task moves only forward, so that fairness of their disjunction is enough.
FairSpec == Spec /\ WF_vars(Next)

-----------------------------------------------------------------------------
(* Properties.                                                             *)

Selected == Range(seed_set)

TypeOK ==
    /\ graph \in Graph
    /\ k \in 0..MaxK /\ iterations_ \in Iterations
    /\ {weighted_degree_even_, weighted_degree_odd_, weighted_degree_0_, before}
          \subseteq [NodeId -> Int]
    /\ updated_ \subseteq pq /\ pq \subseteq NodeId
    /\ seed_set \in Seq(NodeId)
    /\ pc \in {"init", "iterate", "first", "loop", "forward", "tasks", "done"}
    /\ iteration \in Nat
    /\ \A i \in DOMAIN task : /\ task[i].state \in {"ready", "read", "ended"}
                              /\ task[i].edges \in Nat
                              /\ task[i].register \in Int

\* The weight of the edges of a node to nodes that are not selected.
UncoveredWeight(n) ==
    SumOver(getEdgesOf(graph, n), LAMBDA e : IF e.destination \in Selected THEN 0 ELSE Hop(e))

\* weighted_degree_0_ is exact between the updates: a node's entry is the weight
\* of its edges to unselected nodes and a seed's is 0.  The test "is 0" skips no
\* node that has an edge of positive weight to the seed.
WeightedDegreesAreExact ==
    /\ TypeOK
    /\ pc \in {"first", "loop", "tasks", "done"} =>
          \A n \in NodeId : weighted_degree_0_[n] =
              IF n \in Selected THEN 0 ELSE UncoveredWeight(n)

\* The score of a node over walks of two hops through unselected nodes.
TwoHopScore(n) ==
    UncoveredWeight(n)
        + SumOver(getEdgesOf(graph, n),
                  LAMBDA e : IF e.destination \in Selected THEN 0
                             ELSE Along(e, UncoveredWeight(e.destination)))

\* With two iterations the lazy evaluation is sound: the score of a queued node
\* is never below its true score, and it is the true one when it is in updated_.
StaleScoresAreUpperBounds ==
    iterations_ = 2 /\ pc \in {"first", "loop"} =>
        /\ \A n \in pq : TwoHopScore(n) <= weighted_degree_even_[n]
        /\ \A n \in updated_ : TwoHopScore(n) = weighted_degree_even_[n]

\* So every seed has the highest true score at the moment it is selected.
SelectsTheHighestScore ==
    [][iterations_ = 2 /\ seed_set' # seed_set =>
          \A n \in pq : TwoHopScore(n) <= TwoHopScore(Last(seed_set'))]_vars

\* solve(k) returns k different seeds, and a single one for k = 0: whatever the
\* scores are, a node that falls behind goes back to the queue and none is taken
\* twice.
ReturnsKSeeds ==
    <>(/\ pc = "done"
       /\ Len(seed_set) = IF k = 0 THEN 1 ELSE k
       /\ IsInjective(seed_set))

\* What the tasks subtract from the score of n when they do not interfere.
TaskShare(i, n) ==
    SumOfSeq([j \in 1..task[i].edges |->
                 IF TaskEdges(i)[j].destination = n
                 THEN Along(TaskEdges(i)[j], Hop(SeedsInEdges[i])) ELSE 0])

AllShares(n) == SumOfSeq([i \in 1..Len(task) |-> TaskShare(i, n)])

\* However the tasks of the parallel loop interfere, a score never loses more than
\* the walks to the seed and never gains: the race can only overestimate it.
RacesOverestimate ==
    Joined => \A n \in NodeId : second_last[n] \in (before[n] - AllShares(n))..before[n]

\* UpdateApproximation.hpp:40: forwardUpdate "udpates the second last iteration
\* score of 1 and 2 hop neighbors": every subtraction of every task counts.
SubtractionsAddUp ==
    Joined => \A n \in NodeId : second_last[n] = before[n] - AllShares(n)

=============================================================================
