---------------------------- MODULE Executions ----------------------------
(***************************************************************************)
(* Executions of the two programs that share a file system: benchmarkers   *)
(* that write results, possibly below the same directory, and evaluators   *)
(* that read one of them.                                                  *)
(***************************************************************************)
EXTENDS Integers, Sequences, SequencesExt, FiniteSets, TLC

CONSTANTS Benchmarkers, Evaluators, \* the processes that may execute the programs
          RegularFiles, \* paths of regular files that are no results
          Garbage,      \* lines that are no numbers
          Scenarios     \* the command lines of the processes that are started, and the
                        \* files there are before

VARIABLES line, task, evaluation, files,
          before,   \* history: the files there were in the beginning
          raced,    \* history: the files that two processes have chosen before
                    \* either has created them
          disturbed \* history: the evaluators whose file was created or written
                    \* while they read it

Run == INSTANCE BenchmarkRun

Eval == INSTANCE Evaluator WITH Torn <- Run!TornLines

vars == <<line, task, evaluation, files, before, raced, disturbed>>

TooLarge == Run!TooLarge

Argument == [digits : BOOLEAN, word : STRING, value : Int]

\* The files that are found are what executions have left: those of a solver below a
\* base directory have the numbers from 1 on, as nobody else writes there or deletes any.
CountedFrom1(found) ==
    /\ IsFiniteSet(DOMAIN found)
    /\ \A f \in DOMAIN found :
          /\ f.number \in 1..Cardinality({g \in DOMAIN found : g.base = f.base /\ g.solver = f.solver})
          /\ found[f] \in Seq(Range(found[f]))

\* Lists of command lines that a scenario can start, and files that it can find.
ASSUME ScenarioAssumption ==
    /\ Benchmarkers \cap Evaluators = {}
    /\ Run!Hole \in Garbage
    /\ \A s \in Scenarios :
          /\ DOMAIN s.line \subseteq Benchmarkers \cup Evaluators
          /\ \A p \in Benchmarkers \cap DOMAIN s.line :
                "-a" \in DOMAIN s.line[p] => s.line[p]["-a"] \in Seq(Argument)
          /\ CountedFrom1(s.files)

Init == \E s \in Scenarios :
            /\ line = s.line
            /\ task = [p \in Benchmarkers |-> Run!NewTask]
            /\ evaluation = [e \in Evaluators |-> Eval!NewEvaluation]
            /\ files = s.files
            /\ before = s.files
            /\ raced = {}
            /\ disturbed = {}

Choosers(f) == {p \in DOMAIN line \cap Benchmarkers : task[p].pc = "open" /\ task[p].file = f}

RacedNow == {f \in {task[p].file : p \in Benchmarkers} : \E p, q \in Choosers(f) : p # q}

Writers(f) == {p \in DOMAIN line \cap Benchmarkers : task[p].pc = "write" /\ task[p].file = f}

DisturbedNow == {e \in DOMAIN line \cap Evaluators :
                    evaluation[e].pc = "read" /\ Writers(line[e]["-p"]) # {}}

Record == /\ UNCHANGED before
          /\ raced' = raced \cup RacedNow'
          /\ disturbed' = disturbed \cup DisturbedNow'

BenchmarkerStep(p) == Run!Step(p) /\ UNCHANGED evaluation /\ Record

EvaluatorStep(e) == Eval!Step(e) /\ UNCHANGED task /\ Record

Next == \/ \E p \in Benchmarkers : BenchmarkerStep(p)
        \/ \E e \in Evaluators : EvaluatorStep(e)

Spec == Init /\ [][Next]_vars

\* Every process is run by the operating system, and every solver returns.
FairSpec == /\ Spec
            /\ \A p \in Benchmarkers : WF_vars(BenchmarkerStep(p))
            /\ \A e \in Evaluators : WF_vars(EvaluatorStep(e))

-----------------------------------------------------------------------------
(* Properties.                                                             *)

Solver == [word : Run!Words \cup {""}, parameter : Int]

Ended == {"done", "exited", "terminated", "crashed"}

TypeOK ==
    /\ \A p \in Benchmarkers :
           /\ task[p].pc \in Ended \cup {"start", "graph", "construct", "loop", "solve", "path",
                                         "open", "write", "evaluate"}
           /\ task[p].index \in Nat \ {0}
           /\ task[p].argument_count \in {0, 1}
           /\ task[p].solver \in Solver
           /\ task[p].benchmarked \in Seq(Solver)
           /\ task[p].written \in Nat
    /\ \A e \in Evaluators :
           evaluation[e].pc \in Ended \cup {"start", "graph", "open", "read", "evaluate"}
    /\ \A f \in DOMAIN files : f.number \in Nat \ {0}

-----------------------------------------------------------------------------
(* What the options ask for.                                               *)

Started(p) == p \in DOMAIN line

List(p) == line[p]["-a"]

\* What the argument at i asks for: the parameter is the number behind it.
Asked(p, i) ==
    LET word == List(p)[i].word
    IN  [word |-> word,
         parameter |-> IF word \in Run!TakesParameter /\ i < Len(List(p)) /\ List(p)[i + 1].digits
                       THEN List(p)[i + 1].value ELSE Run!Default(word)]

Positions(p) == {i \in 1..Len(List(p)) : Run!Known(List(p)[i])}

\* How many solvers the list names up to i.
Rank(p, i) == Cardinality({j \in Positions(p) : j <= i})

\* What the solvers that the list names are asked for, in its order.
AskedFor(p) == [r \in 1..Cardinality(Positions(p)) |->
                   Asked(p, CHOOSE i \in Positions(p) : Rank(p, i) = r)]

\* The program gets to its solvers, and the diffusion model can be evaluated.
GetsToSolvers(p) ==
    /\ ~Run!IsUsageError(line[p], Run!Required, Run!Defaults)
    /\ Run!CanReadGraph(p) /\ Run!NamesModel(p)

Evaluates(p) == Run!IsDiffusionModel(Run!options(p)["-d"])

Stores(p) == Run!options(p)["-o"] # Run!NotGiven

NumbersFit(p) == \A i \in DOMAIN List(p) : List(p)[i].value # TooLarge

\* How a process ends when all that it is asked for is possible, and else.
EndsWell(p) == GetsToSolvers(p) /\ Evaluates(p) /\ NumbersFit(p)
                   /\ Run!options(p)["-o"] \notin RegularFiles

\* The command line is understood in one way: every solver is run once, in the order of the list,
\* with the number behind it if it takes one; a number is never a solver, and a solver is
\* never taken for a parameter or skipped.  A command line, graph or model that is refused
\* is so before any solver has run, except that with -r a model that does not
\* exist ends the program after the first solver, whose seeds are stored by then.
RunsWhatIsAsked ==
    /\ TypeOK
    /\ \A p \in Benchmarkers : Started(p) =>
        LET run == task[p]
        IN  /\ run.benchmarked # <<>> => GetsToSolvers(p) /\ IsPrefix(run.benchmarked, AskedFor(p))
            /\ run.pc = "exited" => run.benchmarked = <<>> /\ ~GetsToSolvers(p)
            /\ run.pc = "done" => run.benchmarked = AskedFor(p)
            /\ run.pc = "crashed" => /\ Len(run.benchmarked) = 1 /\ ~Evaluates(p)
                                     /\ Stores(p) => Cardinality(run.kept) = 1

\* A result is kept for good: a file that a run has finished holds the seeds of that run, whatever
\* it, and other executions, write later, and files of earlier executions stay as they were.  Only
\* two runs that have counted the files before either created its own share one.
EveryResultIsKept ==
    /\ \A f \in DOMAIN before : f \in DOMAIN files /\ files[f] = before[f]
    /\ \A p \in Benchmarkers : \A kept \in task[p].kept :
          kept.file \notin raced =>
              files[kept.file] = [j \in 1..Run!options(p)["-k"] |-> Run!Seed(p, kept.index, j)]
    /\ \A p \in Benchmarkers :
          Started(p) /\ task[p].pc = "done" /\ Stores(p) =>
              Cardinality(task[p].kept) = Len(task[p].benchmarked)

\* The files that p has opened, with the arguments they are for: finished ones, and the one it writes.
Outputs(p) == task[p].kept \cup
    (IF task[p].pc = "write" THEN {[file |-> task[p].file, index |-> task[p].index]} ELSE {})

\* The evaluator has read the seeds of the run that p has started for the argument at index.
Wrote(e, p, index) == evaluation[e].seed_set =
                          [j \in 1..Run!options(p)["-k"] |-> Run!Seed(p, index, j)]

\* The lines are a beginning of those seeds, of the last one possibly only a part.
AreBeginning(lines, p, index) ==
    \A j \in DOMAIN lines : \/ lines[j] = Run!Seed(p, index, j)
                            \/ j = Len(lines) /\ lines[j] = Run!Part(p, index, j)

\* What an evaluator evaluates is of one file of one run, whenever it has read it.  While the file is
\* written it may get only a beginning of the run's seeds, the last one possibly torn, and takes
\* it for all of them; but no line of another run, no hole, and never more than the file
\* holds.  If nobody wrote meanwhile it gets all seeds.  Only a file that two runs
\* share can be a mixture.
EvaluatorSeesTheRun ==
    \A e \in Evaluators :
        LET path == line[e]["-p"]
            seed_set == evaluation[e].seed_set
        IN  Started(e) /\ evaluation[e].pc = "done" /\ path \notin raced =>
                /\ Len(seed_set) <= Len(files[path])
                /\ \/ path \in DOMAIN before /\ seed_set = before[path]
                   \/ \E p \in Benchmarkers : \E out \in Outputs(p) :
                         /\ path = out.file /\ AreBeginning(seed_set, p, out.index)
                         /\ e \notin disturbed => out \in task[p].kept /\ Wrote(e, p, out.index)

\* Every process ends, a benchmarker well unless something it is asked for is impossible.
Ends == /\ \A p \in Benchmarkers : Started(p) => <>(task[p].pc \in Ended)
        /\ \A p \in Benchmarkers : Started(p) /\ EndsWell(p) => <>(task[p].pc = "done")
        /\ \A e \in Evaluators : Started(e) => <>(evaluation[e].pc \in Ended)

=============================================================================
