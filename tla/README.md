# A TLA+ verification of InfluenceMaximizationBenchmarker

InfluenceMaximizationBenchmarker (IMB) reads a graph, selects `k` seed nodes with
one or several influence maximisation algorithms, writes each seed set to a file
and estimates its influence by simulating a diffusion model. This directory holds
TLA+ modules that model its parts, TLC configurations that check them on small
instances, and TLAPS proofs of the central properties for all instances.

Line numbers refer to the sources under `src/`: `main.cpp` and `evaluator.cpp` lie
at its top, the other files in `src/src` and `src/include`.

## 1. The system

| Part | Source | State | Operations | Hard behaviour |
|---|---|---|---|---|
| Graph | `Graph.cpp`, `Edge.cpp` | four arrays: forward and backward edges and offsets; a random generator | `appendNode`, `calculateBackwardEdges`, `inverse`, three assignments of weights; getters | the two directions must stay mirrors whatever the order of the steps; spans between neighbouring offsets |
| Parser | `Parser.cpp` | the file position, a map of adjacency lists, the meta-data flag | `parseVertexListFile`, `parseEdgeListFile` | order of skip, inverse and weights; blank lines; gaps in the ids |
| Independent cascade | `diffusion/IndependentCascade.cpp` | a stack, the active flags, a counter | `cascadeForward`, `cascadeBackward`, their averages over n parallel runs | each edge must be tried once whatever the order of the stack; repeated seeds |
| Linear threshold | `diffusion/LinearThreshold.cpp` | the same, inputs and lazily drawn thresholds | `forwardInfluence`, `backwardInfluence`, averages | the result must not depend on the order of the stack |
| Degree discount | `simple/DegreeDiscountSolver.cpp` | running degrees | `solve` | counters kept by decrements; -1 as a mark |
| CELF greedy | `CelfGreedy.cpp` | priority queue, deltas, spread of the seed set, nodes that are up to date | `solve` | stale estimates, empty queue, noise |
| IPA | `IPA.cpp` | priority queue, spreads, updated nodes; path trees while a node is evaluated | `solve` | stale estimates, empty queue, circles, paths through seeds |
| Update approximation | `iterative/UpdateApproximation.cpp` | three score vectors, priority queue, `updated_` | `solve`, `forwardUpdate`, `backwardUpdate` | scores kept by subtraction; parallel tasks without locks; stale queue |
| EaSyIM | `iterative/EaSyIM.cpp` | two alternating score vectors and the first one | `solve` and its reset | parity of the buffers, tasks in any order |
| HighDegree, WeightedDegree, EaSyIM-Delta | `simple/HighDegree.cpp`, `WeightedDegree.cpp`, `iterative/EaSyIM_Delta.cpp` | one or two score vectors | `solve` | parity, `k` beyond the number of nodes |
| PageRank, WeightedPageRank | `simple/PageRankSolver.cpp`, `simple/WeightedPageRank.cpp` | two rank vectors each | `solve` | parallel reads of the vector that is written; convergence |
| Random | `simple/Random.cpp` | the seeds | `solve` | rejection sampling may not end |
| IMM | `IMM.cpp` | the vector of RR sets, a mutex, bounds | `solve`, `createRrSet`, `nodeSelection` | parallel insertions, truncated numbers, a cached result, copied generator |
| Parallel loops | `Range.hpp`, the callers of `std::execution::par` | the iterators of a range | `for_each`, `transform_reduce` | the library splits a range as it likes and uses all members of its iterators |
| Command line | `IMBProgramOptions.cpp`, `evaluator.cpp` | immutable options | `parseArguments`, `parseEvaluatorArguments` | enum options take any number |
| Benchmark run | `main.cpp`, `SolverFactory.cpp`, `Benchmarker.hpp`, `Definitions.hpp` | position in the arguments, files | `benchmarkAll`, `benchmark`, `createOutPathFor` | a counter that consumes parameters; exceptions in `noexcept` code; file names from a count, several processes |
| Evaluator | `evaluator.cpp` | the seeds it has read | a second `main`: options, graph, seed file, simulation | the file may be written while it is read |
| Others | `Timer.h`, vendored `SMFT/` | | | |

`main` lets the parser build the graph, which is read-only from then on (but for the
generator of `getRandomNode`), and hands it to the factory, which creates the solvers
one after another; `Benchmarker::benchmark` calls `solve(k)`, writes the seeds and hands
them to a diffusion model. Solvers never talk to each other: they share the graph's
arrays and `rand()`. Concurrency is inside a solver: `std::for_each(std::execution::par, ...)`
over nodes, edges or samples, which returns when all tasks have ended.

What makes each part correct:

* Graph and parser: the arrays hold exactly the file's edges; both directions are mirrors of
  each other, weights included; generated weights into a node sum to 1.
* A simulation: it is a run of its diffusion model, whatever the order of the stack, and returns
  the number of nodes it activated.
* A solver: it returns `k` different nodes; each pick is the best one by the solver's own
  measure; that measure, which is kept incrementally or lazily, equals its definition.
* IMM: no sample is lost, there are enough of them, and the result is a greedy cover of all.
* A run: it runs what was asked for and loses no result, also of other runs; an evaluator sees the seeds of one run.
* A parallel loop: its body runs once for each index, and a sum is the sum of what all calls returned.

## 2. The modules

| Module | Models | Level |
|---|---|---|
| `Sums` | what a sequential sum over a list computes, as a recursive function | shared by the scores |
| `InfluenceGraph` | the getters of `Graph`, as a record of adjacency functions; a random draw | shared by all below |
| `SmallGraphs` | instances for TLC | |
| `GraphBuild` | both parsers, line by line, and the loops that build the arrays, edge by edge where edges are turned round | detailed: offsets and arrays |
| `CascadeProcess` | the independent cascade model: arcs tried in any order | abstract |
| `IndependentCascade` | `cascadeForward` / `cascadeBackward` | refines `CascadeProcess` |
| `LinearThreshold` | `forwardInfluence` / `backwardInfluence` | one edge per step |
| `ParallelLoops` | the iterators of `utils::range`; `for_each` and `transform_reduce` over such a range, split into parts that tasks run in any order | one part per step |
| `Diffusion` | `DiffusionFactory::create` and a run of the model it creates; or a parallel loop | composes the three above |
| `GreedySelection` | greedy choice of a set by a gain | abstract |
| `DegreeDiscount` | `DegreeDiscountSolver::solve` | one discount per step |
| `CelfGreedy` | `CelfGreedy::solve` | one evaluation per step |
| `InfluencePaths` | path trees and their influence, `IPA.cpp:90-196` | operators |
| `IPASolver` | `IPASolver::solve` | one evaluation per step |
| `LazySolvers` | one call of `solve(k)` on one of these two | composes them; `CelfGreedy` is compared with `GreedySelection` |
| `UpdateApproximation` | `UpdateApproximation::solve` | parallel tasks interleaved at each read and write |
| `WalkScores` | the score that EaSyIM, UA and the rankings compute, one hop at a time, and a reference definition of it: the weight of the walks from a node | operators |
| `ScoreRanking` | HighDegree, WeightedDegree and EaSyIM-Delta | parallel tasks interleaved |
| `EaSyIM` | `EaSyIM::solve` | parallel tasks interleaved |
| `PageRank` | PageRank and WeightedPageRank | parallel tasks interleaved, those of PageRank at each read and write |
| `RandomSeeds` | `Random::solve` | one draw per step |
| `ScoreSolvers` | one call of `solve(k)` on one of these seven | composes the four above |
| `RrSet` | `IMM::createRrSet` | refines `CascadeProcess` |
| `NodeSelection` | `IMM::nodeSelection` | one pick per step |
| `ImmSelection` | the walks that fill `rr_sets_`, then the selection on what they have added | composes the two above |
| `ImmSampling` | `IMM::solve` | rounds, tasks, mutex, vector insertions |
| `ProgramOptions` | the options of both programs | operators |
| `BenchmarkRun` | `main`, `benchmarkAll`, `Benchmarker`, for a process | one call per step, one seed, or a part of one, at a time into a file |
| `Evaluator` | `main` of the evaluator, for a process | one line of the seed file per step |
| `Executions` | several benchmarkers and evaluators and the files they share | composes the two above |
| `SequenceFacts` | lemmas on sequences, their ranges and sums, on induction and on recursive functions | proofs |
| `Diffusion_proofs`, `ScoreSolvers_proofs`, `Imm_proofs`, `GraphBuild_proofs`, `LazySolvers_proofs`, `UpdateApproximation_proofs`, `Executions_proofs` | theorems | proofs |

Each `MC...` module extends the module it is named after with small sets for the constants (`ImmSampling` has them in its `.cfg` files). Operators
whose comment begins with "Mutant" are not part of the model: each is a plausible slip in the definition that
follows it, and `PROJECT.json` says which property finds it.

How states and actions correspond to the code:

* Variables keep the names of the code (`work_queue`, `spread_delta_`, `rr_sets_`, ...).
  `pc` is the place in the function. History variables, marked as such, record what the
  properties speak of.
* **Weights.** A weight is an integer number of units, `One` units being 1.0, chosen so that all
  numbers that occur are exact. Rounding of floats is left out everywhere.
* **Random draws.** `dsfmt_genrand_close_open` is any value of `0..(One - 1)`: every outcome that has
  a positive probability, and no other. The state of a generator matters only in `ImmSampling`, where a
  copied one repeats its numbers.
* **Sequential code** is one action per loop iteration where the properties speak of what
  holds inside a loop, one action per loop where they do not.
* **Parallel loops.** Where tasks touch common data, each read and each write of it is a step
  of its own (`forwardUpdate` in `UpdateApproximation`, the insertions in `ImmSampling`). Where they write
  disjoint entries and read a vector nobody writes, a task is one step and the tasks come in any order
  (`EaSyIM`, `ScoreRanking`, WeightedPageRank).
* **Loops over a range.** How the library runs a `for_each` or a `transform_reduce` is modelled once, in `ParallelLoops`, after
  the usual implementation of the C++ library on TBB: it halves the range, gives halves to other tasks, makes four calls at a time through `operator[]` and
  starts a new sum with two. The other modules take from it that the body runs once for each index.
* **Ranks** are integers of `1/RankOne`, rounded down where the code stores a float. The `0.0001` is `Epsilon`: 10 of 100 units, so that
  as in the code the rounding is far below it.
* **Probabilities of paths** are integers of `1/Whole`. With `Whole = 4096` and weights of halves on four nodes every product is exact. The
  program numbers nodes as the file does; the instances of IPA number them by falling out-degree, which halves the
  graphs and loses none, as nothing in IPA but the order of equal spreads depends on the numbers.
* **Processes** have a program counter of their own. A result file is a sequence of lines, each tagged with the run that wrote it; every
  open stream has its own offset, so that two writers of a file overwrite each other's lines. A stream hands its buffer on when it is full,
  which may be in the middle of a line: a file may then end with a part of a seed (`WritePart`) until the rest follows, and an evaluator whose
  `getline` meets the end of the file there takes the part and stops (`ReadTornLine`).
* **Priority queues** are sets: `top()` is any node of maximal priority. `UpdateApproximation` with one
  iteration, where priorities change behind the queue, lets `top()` be any queued node. In IPA an updated node goes before others of
  its spread, as the comparison at line 35 has it.
* **`top()` of an empty queue**, which CELF, IPA and UA evaluate for `k` equal to the number of nodes, is
  undefined; the comparison with it may go either way.
* **Vectors** that may move in memory while others insert are modelled by the mutex discipline: an insertion
  reads the end and writes the element in two steps, which the lock must keep together.

## 3. The runs

Deadlock checking is off in all of them because every program here stops.

| Run | Question it answers | Properties | Bounds |
|---|---|---|---|
| `graph_build` | Do the arrays hold the file? | `GraphIsTheFile`, `ViewsMirror`, `InWeightsSumToOne` | all edge lists of up to two lines over 3 nodes with and without custom weights, chosen longer ones, comments, blank lines and meta data; vertex lists; all flags |
| `diffusion` | Is a simulation a run of its diffusion model, and does an average count each of them? | `SpreadIsExact`, `ExpandedNodesAreSettled`, `CascadesAreTheProcess`, `ActivatesTheModelsNodes`, `EveryIndexRunsOnce` | 3 nodes; all simple graphs with at most 4 edges of weight 0 to 3 thirds, four multigraphs; all lists of up to two seeds and three longer ones, with repetitions; both models, both directions. Reductions over up to 11 simulations, other loops over up to 5 indices |
| `degree_discount` | Are the running degrees the uncovered degrees? | `DegreeIsUncovered`, `SeedsAreDistinct`, `PicksTheMostUncovered` | all 512 simple graphs of 3 nodes with self-loops, three multigraphs, k from 0 to 4 |
| `celf_greedy` | Is lazy evaluation exact when the estimates are, and what survives when they are not? | `QueueAndSeedsPartitionTheNodes`, `DeltasBoundGains`, `RecordedSpreadsAreCurrent`, `InfluenceBoundsTheCascade`, `LaterPicksAreGreedy`, `ReturnsKSeeds` | CELF: every reachability relation of 4 nodes with exact spreads; those in which a node reaches itself or everything with every estimate between the seeds and what they reach; k up to 4. IPA: every loop-free simple graph of 4 nodes with at most 4 edges and in-degree at most 2, up to the numbering, and a multigraph with a self-loop; dividers 0 (infinite threshold), 3 and 320 (the default); k = 0 and 4 |
| `update_approximation` | Are the incremental scores right? | `WeightedDegreesAreExact`, `StaleScoresAreUpperBounds`, `RacesOverestimate`, `SelectsTheHighestScore`, `ReturnsKSeeds` | 3 nodes, in-degree at most 2, three multigraphs, in one of which two pairs of tasks share a score; 0 to 3 iterations, k up to 3 |
| `score_solvers` | Is the score exact that a sort or a pick reads, and do ranks converge to what they should? | `ReadScoresAreExact`, `ResultIsTheTop`, `SettledRanksSolveTheEquation`, `PicksTheBest`, `Returns` | all loop-free simple graphs of 3 nodes, two multigraphs, 0 to 4 iterations, k = 0, 3, 4; for the page ranks and Random eight graphs (a ring, cycles that are fed or feed, nodes without in-edges or out-edges, multigraphs, weights as `-e` draws them), no or 2 iterations, k = 2, 4, `abs` of either overload |
| `imm_selection` | Is an RR set a reverse cascade, and the selection greedy coverage? | `MembersAreDistinct`, `WalksAreCascades`, `CoverageIsExact`, `CountersAreUncovered`, `PicksAreGreedy` | one walk on every simple graph of 3 nodes with at most 3 edges and on three multigraphs; four walks on a ring, where every non-empty set is a possible RR set; k up to 4 |
| `imm_sampling` | Are samples lost, or the result outdated? | `EveryRrSetIsKept`, `EnoughRrSets`, `ResultIsUpToDate`, `Terminates` | 4, 6 and 12 nodes: no, one and two rounds; up to six tasks at a time |
| `benchmark_run` | Is each solver run with its parameter, each result kept, and what can an evaluator see of one that is still written? | `RunsWhatIsAsked`, `EveryResultIsKept`, `EvaluatorSeesTheRun`, `Ends` | one benchmarker with all lists of up to 3 of 8 arguments and 0 or 2 earlier results, or with each option missing or impossible; two that write below the same directory or not, with up to two solvers each; an evaluator next to one or two benchmarkers that write the file it reads |

In most modules `TypeOK` is the first conjunct of the first invariant.

The bounds suffice because every case of the code occurs within them: each `if` goes both ways, a
node is reached from two others and twice from one, a stack holds several nodes, a queue entry is
outdated twice, both parities and the special cases of `iterations_` occur, two tasks write the same score,
`k` lies below, at and above the number of nodes where the code is defined there, and every action of every
module fires.

**What the composition changes.** `Diffusion` adds to `LinearThreshold` the seed vectors with repetitions, for which
its claims are made no more: the input of a neighbour of a repeated seed receives the weight twice. `ImmSelection` hands
`NodeSelection` only sets that `createRrSet` can produce, so that `CountersAreUncovered` rests on `MembersAreDistinct`
as it does in the code. `LazySolvers` and `ScoreSolvers` hold each solver to what `benchmarkAll` relies on: `k` seeds, no
node twice. `Executions` is where the file number that one process counts can be the one that another has just counted:
`EveryResultIsKept` claims everything else, and says in `raced` which files it does not claim. An evaluator that reads while somebody writes
(`disturbed`) may go on with a part of the seeds, the last of them torn, as if it were all of them: nothing in the code prevents it.
`EvaluatorSeesTheRun` says that this is the worst that can happen: what it has is a beginning of one run's seeds, or what was there
before, and the whole of it when nobody wrote. In `benchmark_run` all of this occurs, torn lines included.

**Liveness** (`Terminates`, `Ends`, `Returns`, `ReturnsKSeeds`) assumes `WF_vars(Next)`: as
long as some step of the program can be taken, one is. The sequential parts have one thread; a parallel
`for_each` runs its tasks on a pool that includes the caller, no task waits for another one except for a
mutex whose holder has only straight-line code left, and the operating system runs a runnable thread
eventually. In the parallel modules every step moves one task forward, so that the fairness of the
disjunction is all that termination needs. Three cases need more than that:

* `benchmark_run` has a fairness condition for each process, as none may keep the others from running.
* `Random` may draw old nodes forever. Such a draw changes no variable and is no step of `WF_vars(Next)`; that a new node is drawn in
  the end has probability 1. With fewer than `k` nodes `Returns` claims the opposite: the loop never ends.
* That ranks converge is not fairness but arithmetic: the damping makes every iteration bring them closer, whichever tasks read
  old values. It needs weights whose shares sum to at most 1 at each node, which generated weights have.

### Where the code and its documentation disagree

Three runs find a violation of what the repository says, each explained under "findings" in `PROJECT.json`:

| Run | Where | What happens |
|---|---|---|
| `celf_greedy_second` | `CelfGreedy.cpp:47` | the spread of the first seed is not recorded: the second seed need not be greedy |
| `imm_sampling_draws` | `IMM.cpp:121` | the generator is passed by value: all RR sets use the same random numbers |
| `update_approximation_race` | `UpdateApproximation.cpp:181` | a subtraction of one task is lost |

What holds in spite of these is checked next to them: CELF is greedy from the third seed on
(`LaterPicksAreGreedy`) and loses no node even with arbitrary estimates; the race of UA can only leave a score too
high (`RacesOverestimate`), and with two iterations, where no task touches a shared score, the selection is
exact (`SelectsTheHighestScore`).

Others were met while the modules were written. The modules have them, since they translate the code, and their
properties are stated so as not to claim the opposite:

* `Parser.cpp:166`: with `-m` a comment line above the line of meta data uses up the skip, and the meta data
  becomes an edge (`SkipLine`).
* `Graph.cpp:139`: custom weights are overwritten in the backward direction (`BackwardWeight`; `ViewsMirror` is about generated
  weights).
* `IndependentCascade.cpp:15`: a repeated seed counts once for each repetition (`SpreadIsExact` says exactly that).
* `LinearThreshold.cpp:86`: a repeated seed is expanded again and brings its weight in twice.
* `UpdateApproximation.cpp:179` says `return` where the sibling loop says `continue`: the in-neighbours behind one of
  weighted degree 0, such as the seed itself, keep their scores (`TaskEnds`).
* `EaSyIM.cpp:46` and `IMM.cpp:190`: with all scores, or all counters, at 0, node 0 is selected again (`PicksTheBest`
  and `PicksAreGreedy` claim a new node only while something can be gained).
* `main.cpp:41`: `rand()` is seeded after the constructor of the graph has taken its seed from it, in spite of the comment in line 36.
* `SolverFactory.cpp:38`: the README's name for PageRank, "pagerank", is an unknown solver, and so is the "iterative-ua" of the help
  text in `IMBProgramOptions.cpp:168` (`Words`).
* `IMBProgramOptions.cpp:130`: the README gives `--format` a default, the program requires it (`Required`); the README's `--raw` is
  `--print-raw` (`Flags`).
* `-o` is documented as a file. It is a directory, and with the path of an existing regular file the first solver's
  result ends the program by an exception (`NoDirectory`).
* `-d 2` names no diffusion model. Without `-r` the program says so before it runs anything; with `-r` the first solver runs, its seeds
  are stored, and then a null pointer is called (`NoModel`). `RunsWhatIsAsked` says exactly that.
* `UpdateApproximation.hpp:22-23` has the parity reversed: the solver reads the odd vector and writes the even one in even iterations (no property
  rests on the comment).
* `PageRankSolver.hpp:34` says 0.001 where the code has 0.0001 (`Moved`).
* `Range.hpp:39` and `:47`: `it++` and `it--` call themselves without end. Nobody calls them.
* `Range.hpp:154`: `it[n]` counts from where the iterator was made. The library's reductions use it after `it += 4`: indices
  repeat. The simulations ignore their index, so that the averages are right (`EveryIndexRunsOnce` claims the indices only for
  `for_each`, which does not subscript).

## 4. The theorems

All constants are arbitrary: any number of nodes, any graph, any seeds, any `k`.

* **`Diffusion_proofs`** (assumes `CascadeAssumption`, `GraphAssumption` and `LoopAssumption`). `Walk` is what a step of either diffusion model
  does to the stack, the flags and the counter, so that one proof serves both: `TypeCorrect`; `SpreadCorrect`: the
  returned counter; `ExpandedSettled`: a node that has left the stack has had all its edges
  tried. With `DistinctSeeds`, `ExpandsOnce`: the stack never holds a node twice. The four
  together are the inductive invariant from which `CascadesAreProcesses` follows (and `CascadeImplementsProcess`, the same of `IndependentCascade`
  alone): `Pop`, `SkipActivated` and
  `EdgesDone` map to stutters, `Activate` and `Fail` to a trial of an arc that was not
  tried, because only expanded nodes have tried arcs (`ExpandsOnce`), and `Return` to the end of the process,
  because with an empty stack every active node is settled (`ExpandedSettled`). `ThresholdModel` is the linear threshold model's: the result is
  what the rounds of the model activate. Its invariant, `ThresholdInv`, says of an input that it is the weight of the edges that had their turn, of an inactive node that its
  threshold, once drawn, is above its input, and of the active nodes that every set which holds the seeds and which the rounds do not leave (`Closed`) contains them, in
  spite of thresholds that are yet to be drawn. When the stack is empty a round changes nothing (`EndIsFixed`), and `NumberOfNodes` rounds are enough to get there (`RowsSettle`). `EveryIndexRuns` is about loops of any length, split in any
  way: the parts always cover the range without gap or overlap, each index that lies in a part that is done has been visited
  once and no other has, and the parts' sums add up to what was returned. How many calls a part makes is proved by induction over the loops
  that walk its iterators (`OneByOneRuns`, `FourByFourRuns`, `TwoFirstRuns`).
* **`ScoreSolvers_proofs`**. First (from `ScoreAssumption` and `PartsAssumption`) of the seven solvers that `ScoreSolvers` runs: `ScoreTypes`, `ReadScores`, `TopResult`,
  `SettledRanks` and `BestPicks`, for every graph, every number of seeds and up to four iterations, which is as far as the definition by walks goes. A
  state is one of a run of one solver, so that the inductive invariant, `SolverInv`, is a disjunction with a part for each kind of solver.
  *Rankings and EaSyIM*: the two vectors take turns, and the invariant says of which iteration the scores in each are (`RankingRead`, `RankingWritten`,
  `EaSyIMFirst`, `EaSyIMIterated`), for the nodes whose task is done; a vector that is read is one that no task writes, so that the order of the tasks does not matter.
  That one more iteration turns the score of walks up to `i` hops into the one up to `i + 1` is `NextWalkScore`: the hops are spread over the
  iterations in `choose(i - 1, l - 1)` ways, and what goes over an edge is additive as long as it is a whole number of units (`AlongAdds`, `WalkMultiples`).
  `TopOfOrder`: the first nodes of a sorted order of all nodes are the top.
  *Ranks*: while the tasks of PageRankSolver overwrite the vector that others read, a sum is between the sums over the lesser and over the greater of the two values
  that each rank has in an iteration (`TaskReads`), hence so is the rank that is written (`TaskWrote`). If no rank has moved by more than the tolerance,
  the two bounds are close, by the parts of the edges (`WeighedClose`), and the ranks solve their equation up to it (`RankBetween`, `RanksSettle`).
  `PartsAssumption` chooses the units such that each part of a rank is a whole number of them, and leaves out weights for which the code divides by 0.
  Then (from `DegreeDiscountAssumption` and `MirrorAssumption`: out-edges and in-edges are the same edges, which
  `GraphMirrors` proves of `GraphBuild`) of `DegreeDiscount`. `DegreesCorrect`: the counter of an unselected node is the number of
  its edges to unselected nodes. In the middle of a discount the edges already walked must be told from
  the others, which is what the invariant, `DiscountInv`, adds; a discount changes one
  counter by one and one edge of the count. `SeedsDistinct` and `PicksAreGreedy` follow because marks stay
  below 0 and counts of unselected nodes do not.
* **`GraphBuild_proofs`** (assumes `BuildAssumption`: a file's lines are typed, a line of meta data comes first, the nodes of a vertex list have lines).
  `GraphIsRead`, `GraphMirrors` and `WeightsSumToOne`, for every file, every combination of the flags and every unit of the weights. The invariant has
  a part for each phase. While lines are read, the lists of the parser hold the lines read (`EdgeListInv`, `VertexListInv`), of which only the one with meta data is skipped (`SkipInv`).
  Then each span of the arrays is the list of its node, which needs that offsets never fall and end with the edges (`OffsetsCover`, `ArraysHoldTheFile`). While
  edges are turned round, one by one, the weights from `u` to `v` in the list of `v` are, in their order, those of the part of `u`'s span that has been
  walked (`TurnedAre` in `CollectInv`); the lists are then joined in the order of the nodes, so that the two views mirror each other
  (`MirrorInv`) before the weights are set. Generated weights sum to one because each is `One \div` the in-degree; what the division leaves is in the property.
* **`Imm_proofs`**. First (from `SelectionAssumption` and `InputAssumption`) of `NodeSelection` alone: `CountersCorrect` and `CoverageCorrect` are inductive
  only together: the flags say which sets are left, the counters which of them a pick removes. `GreedyCorrect`: each pick
  adds the most coverage one node can add, since a counter is a gain. Then these are carried over to the sets that the walks make, of which
  `MembersDistinct` and `WalksCorrect` are proved, the latter that each implements `CascadeProcess`. The invariant `ImmInv` joins the one of the
  selection, which waits with empty hands until all sets are there (`Phases`), to that of a walk: the members are the visited nodes, every
  in-edge of a visited node has had its draw, is yet to have it or leads to a reached node (`EdgesSettled`), and what has been tried lies
  behind the position (`TriesAreBehind`). Different from `IndependentCascade`, a draw for an edge to a reached node is possible; it maps
  to a stutter, and so does everything but the first draw for an open arc and the end.
  Then (from `SamplingAssumption`) of `ImmSampling`. `EverySetIsKept`: at most one task is between the two steps of an insertion, and the
  end it has read is still the end (`Exclusive`); the tasks of a loop are numbered from the number of sets on, so that joined tasks and
  earlier sets never share a number (`Numbered`). `Enough` follows because a loop that has joined has made all the sets up to its
  theta. `ResultSelected`: `rr_sets_changed` is set whenever the last result is older than the sets (`UpToDate`). `ImmSampling` holds 2^i in
  `power` in place of `i`, the only form in which the code uses it: powers have no arithmetic in the prover.
* **`LazySolvers_proofs`** (assumes `CelfAssumption` and `IPAAssumption`). `Partition`: queue and seeds split the nodes, for any estimates at all, the
  undefined `top()` included. `Current`: a recorded spread belongs to the current seeds. `Bounds`: coverage is submodular (the gain of
  a node shrinks with the seeds), so that a delta computed for fewer seeds is never below the gain. `Greedily`: the node on top that has
  just been evaluated has a gain no smaller than all other deltas, hence gains. For IPA the theorem takes the bound as a hypothesis, which
  the run checks: the influence of path trees is not submodular for all weights.

* **`UpdateApproximation_proofs`** (assumes `UpdateAssumption` and `MirrorAssumption`, which generated weights satisfy: `GraphMirrors`
  proves it of `GraphBuild`). `BaseInv` types the state and says that queue and seeds split the nodes and that the tasks of a loop stand for the edges of the new seed.
  `ExactWeightedDegrees` rests on `WeightInv`: a score is the sum of the edges to nodes not yet selected; between a pick and the updates for it
  the nodes that count are those of before (`Earlier`), and inside the loop an edge counts for as long as its task has not run.
  `StaleScores` rests on `TwoHopInv`: a score that is not up to date was exact for fewer seeds, and the sum over two hops only shrinks when a seed is
  added. `HighestScore` follows: the node on top that is up to date has a score no smaller than the bounds of all others. `RaceOverestimates` rests on
  `RaceInv`: while the tasks run, every score, and every score that a task has read and not written back yet, lies between what is left
  of it when every subtraction so far counts (`AllShares`) and what it was before; a lost subtraction leaves it above.
* **`Executions_proofs`** (assumes `ScenarioAssumption`: the argument lists are typed, result files that exist beforehand are numbered from 1 on in each
  directory, and a line that nobody wrote is none of a run). For any number of processes, arguments and earlier results: `RunsAsked`, `ResultsKept` and
  `EvaluatorSees`. The invariant `Inv` has a part for each thing that may go wrong: what has been run is what the arguments up to the position ask for
  (`CommandInv`, `OrderInv`) and it has kept one file for each solver that has run (`CountInv`); the files of a directory are numbered without a gap and the number of a file to be
  opened is at most one above their count, so that no earlier result is overwritten (`FileInv`); two processes that hold one file have raced for it,
  and the lines of any other are its writer's (`WriterInv`, `OriginInv`); such a file only grows, and no complete line of it changes
  (`Grows`, `FilesGrow`), so that what an evaluator has read stays a beginning of what its writer writes, and is all of it when the file's end was reached with nobody
  writing (`ReaderInv`); a torn line is always the last that is read.

Each theorem about a property of a run is about the same definition, so that TLC checks on small instances what
TLAPS proves for all. Recursive functions over numbers can be reasoned about: `SequenceFacts` proves from the library's facts on sets and functions that induction over a set of
numbers is sound (`Induction`) and that a function defined by recursion exists and satisfies its equation (`RecursionExists`, `BoundedRecursionExists`); all lemmas about sums rest on these.
Model-checked only: all liveness (out of reach of the prover, as is `ENABLED`), and what
needs the value of a recursive operator or a fold of the community modules: the path trees of IPA (`InfluenceBoundsTheCascade`). The bounds on the deltas are
proved of CELF greedy (`Bounds`), but for IPA `DeltasBoundGains` is false for some weights, and holds for the ones of the run.

## 5. What is left out

* Floating point: weights, scores and the probabilities of paths are exact, ranks are rounded as said above. Code that compares computed
  floats with 0 (`UpdateApproximation.cpp:153`) may behave differently after rounding. The reduction in `IPA.cpp:98` uses an operation that
  is not associative where the library is free to regroup; it is sequential there, and the model adds up the terms.
* Characters: the parsers are modelled on the numbers and separators they find in a line.
* Undefined accesses: a vertex list that names a node without a line (`Graph.cpp:90`), `k` beyond the number of
  nodes in CELF, UA and IPA (`pop()` of an empty queue) and seed files with nodes that the graph does not have have no defined next state and are
  not among the inputs. Nor are negative values of `-k` and `-s`, which become huge unsigned numbers.
* Custom weights in IPA: nothing that is claimed there holds for weights that sum up to more than 1 at a node. In the page ranks: weights into a node with sum 0.
* The result directory: files that others put there or delete, and writes that fail.
* In `BenchmarkRun` a run writes `k` seeds: `k` is at most the number of nodes. Beyond it a ranking returns, and the program writes, as many seeds as there
  are nodes (`ResultIsTheTop` has that), which no property of the files tells apart.
* Output formatting, timing, the inside of the command line library, the number of threads, and the vendored generator `dSFMT`.

**Not modelled**: `dSFMT` (vendored: what the program needs of it is that any number may come, and that a copied state repeats them),
`Timer.h` (a stop watch whose values are only printed), the members of `Range.hpp` that nobody calls, build files, data and documents.

## 6. The plan

What is left, in the order of importance:

1. Proofs: the bound that IPA's lazy evaluation needs is false for some weights and stays with the runs; conditions on the weights under
   which it holds are not known.
2. Compositions: the tasks of `ImmSampling` with the walks of `RrSet` inside.
3. Larger instances where time allows: four nodes in `score_solvers` and `update_approximation`.
