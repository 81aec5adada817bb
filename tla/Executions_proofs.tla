------------------------- MODULE Executions_proofs --------------------------
(***************************************************************************)
(* What holds for any number of benchmarkers and evaluators, whatever      *)
(* their command lines are and however their steps are interleaved.  The   *)
(* argument: the state keeps its types (TypeInv); where a benchmarker is   *)
(* says what its command line allows and which of its solvers have run     *)
(* (CommandInv, OrderInv, CountInv); the number of a new file is above     *)
(* those of all files, so that a file has one writer unless it was raced   *)
(* for (FileInv, WriterInv); such a file only grows, so that what a reader *)
(* has read of it stays its beginning, and is the whole of it when nobody  *)
(* has written meanwhile (ReaderInv).                                      *)
(***************************************************************************)
EXTENDS Executions, SequenceFacts

Places == {"start", "graph", "construct", "loop", "solve", "path", "open", "write", "evaluate"}

ReaderPlaces == {"start", "graph", "open", "read", "evaluate"}

Bases == {Run!NotGiven} \cup {Run!options(p)["-o"] : p \in Benchmarkers}

FileName == [base : Bases, solver : Solver, number : Nat]

Task == [pc : Places \cup Ended, index : Nat \ {0}, argument_count : {0, 1}, solver : Solver,
         file : FileName, written : Nat, benchmarked : Seq(Solver),
         kept : SUBSET [file : FileName, index : Nat]]

\* What a line of a file can be: one that was found there, a hole, a seed or a part of one.
LinesOf(s) == UNION {Range(s.files[f]) : f \in DOMAIN s.files}

Line == (UNION {LinesOf(s) : s \in Scenarios})
            \cup ((Benchmarkers \cup {""}) \X Nat \X Nat) \cup Run!TornLines

Evaluation == [pc : ReaderPlaces \cup Ended, seed_set : Seq(Line)]

TypeInv ==
    /\ task \in [Benchmarkers -> Task]
    /\ evaluation \in [Evaluators -> Evaluation]
    /\ IsFiniteSet(DOMAIN files)
    /\ \A f \in DOMAIN files : f.number \in Nat \ {0} /\ files[f] \in Seq(Line)
    /\ \A p \in Benchmarkers : task[p].pc = "open" => task[p].file.number # 0
    /\ DOMAIN line \subseteq Benchmarkers \cup Evaluators
    /\ \A p \in Benchmarkers \cap DOMAIN line :
          "-a" \in DOMAIN line[p] => List(p) \in Seq(Argument)

-----------------------------------------------------------------------------
(* Where a benchmarker is.                                                 *)

IsUsable(p) == ~Run!IsUsageError(line[p], Run!Required, Run!Defaults)

BeforeSolvers == {"start", "graph", "construct", "exited"}

\* The place of a process says what its command line has been found to be.
CommandOf(p) ==
    LET run == task[p]
    IN  /\ run.pc # "start" => Started(p)
        /\ run.pc \notin {"start", "exited"} => IsUsable(p)
        /\ run.pc \notin {"start", "exited", "graph"} => Run!CanReadGraph(p)
        /\ run.pc \notin BeforeSolvers => Run!NamesModel(p)
        /\ run.pc = "exited" => ~GetsToSolvers(p)
        /\ run.pc \in BeforeSolvers =>
              /\ run.benchmarked = <<>> /\ run.kept = {}
              /\ run.index = 1 /\ run.argument_count = 0
        /\ run.pc \in {"path", "open", "write"} => Stores(p)

CommandInv == \A p \in Benchmarkers : CommandOf(p)

\* The solvers that the list names up to n have run, in its order.
RunUpTo(p, list, n) ==
    /\ Len(list) = Rank(p, n)
    /\ \A r \in 1..Rank(p, n) : \E i \in Positions(p) :
          i <= n /\ Rank(p, i) = r /\ list[r] = Asked(p, i)

AfterSolve == {"path", "open", "write", "evaluate", "crashed"}

\* The argument at i is a number, and so no solver.
IsNumber(p, i) == i <= Len(List(p)) /\ List(p)[i].digits

\* The order for a process p in the state run.
OrderFor(p, run) ==
    /\ run.pc \in {"loop", "solve"} => RunUpTo(p, run.benchmarked, run.index - 1)
    /\ run.pc = "solve" => run.index \in Positions(p) /\ run.solver = Asked(p, run.index)
    /\ run.pc \in AfterSolve => RunUpTo(p, run.benchmarked, run.index)
    /\ run.pc = "done" => RunUpTo(p, run.benchmarked, Len(List(p)))
    /\ run.pc = "terminated" => \E n \in {run.index - 1, run.index} : RunUpTo(p, run.benchmarked, n)
    /\ run.argument_count = 1 /\ run.pc = "loop" => IsNumber(p, run.index)
    /\ run.argument_count = 1 /\ run.pc \in {"solve"} \cup AfterSolve => IsNumber(p, run.index + 1)

OrderInv == \A p \in Benchmarkers : OrderFor(p, task[p])

\* A model that cannot be evaluated ends the program with its first solver, and a run that
\* stores its result has one file for each solver.
CountFor(p, run) ==
    /\ IsFiniteSet(run.kept)
    /\ run.pc \in {"loop", "solve", "path", "open", "write"} => \A r \in run.kept : r.index < run.index
    /\ run.pc = "evaluate" => \A r \in run.kept : r.index <= run.index
    /\ Started(p) /\ ~Evaluates(p) =>
          /\ run.pc \in {"loop", "solve"} => run.benchmarked = <<>>
          /\ run.pc \in AfterSolve => Len(run.benchmarked) = 1
    /\ run.pc = "crashed" => ~Evaluates(p)
    /\ Started(p) /\ Stores(p) =>
          /\ run.pc \in {"loop", "solve", "evaluate", "done", "crashed"} =>
                Cardinality(run.kept) = Len(run.benchmarked)
          /\ run.pc \in {"path", "open", "write"} =>
                Cardinality(run.kept) + 1 = Len(run.benchmarked)

CountInv == \A p \in Benchmarkers : CountFor(p, task[p])

-----------------------------------------------------------------------------
(* Who writes which file.                                                  *)

\* How many files there are in the directory of f.
CountIn(names, f) == Cardinality({g \in names : g.base = f.base /\ g.solver = f.solver})

\* The files are numbered from 1 on.
Numbered(names) == \A f \in names : f.number <= CountIn(names, f)

\* The file that a process is about to create has a number that was the next one, and was not
\* there in the beginning.
FileFor(run, names) ==
    /\ run.pc \in {"open", "write"} => run.file \notin DOMAIN before
    /\ run.pc = "open" => run.file.number \in 1..(CountIn(names, run.file) + 1)
    /\ run.pc = "write" => run.file \in names

FileInv ==
    /\ Numbered(DOMAIN files)
    /\ \A f \in DOMAIN before : f \in DOMAIN files /\ files[f] = before[f]
    /\ \A p \in Benchmarkers : FileFor(task[p], DOMAIN files)

\* A process has chosen the file and may still write it.
Holds(p, f) == task[p].pc \in {"open", "write"} /\ task[p].file = f

\* Two processes that have chosen one file have raced for it.
OneHolder == \A p, q \in Benchmarkers :
    p # q /\ task[p].pc \in {"open", "write"} /\ Holds(q, task[p].file) => task[p].file \in raced

\* What is written is the seeds of the writer, and possibly a part of the next one.
LinesBy(p, run) == [j \in 1..run.written |-> Run!Seed(p, run.index, j)]

IsWrittenBy(p, run, lines) ==
    \/ lines = LinesBy(p, run)
    \/ /\ run.written # Run!options(p)["-k"]
       /\ lines = Append(LinesBy(p, run), Run!Part(p, run.index, run.written + 1))

WrittenIsOwn == \A p \in Benchmarkers :
    task[p].pc = "write" /\ task[p].file \notin raced => IsWrittenBy(p, task[p], files[task[p].file])

\* What is kept is the seeds of its run, and nobody writes it any more.
KeptIsOwn == \A p \in Benchmarkers : \A r \in task[p].kept :
    /\ r.file \in DOMAIN files
    /\ r.file \notin raced =>
          /\ files[r.file] = [j \in 1..Run!options(p)["-k"] |-> Run!Seed(p, r.index, j)]
          /\ \A q \in Benchmarkers : ~Holds(q, r.file)

WriterInv == OneHolder /\ WrittenIsOwn /\ KeptIsOwn

\* Where the files come from.
OriginInv == \A f \in DOMAIN files :
    \/ f \in DOMAIN before
    \/ \E p \in Benchmarkers : task[p].pc = "write" /\ task[p].file = f
    \/ \E p \in Benchmarkers : \E r \in task[p].kept : r.file = f

\* What the evaluator e has read of a file that it still reads is how the file begins.  The lines
\* of a file of a run are complete, as a torn one is the last that is read.
Follows(e) ==
    LET lines == files[line[e]["-p"]]
        seed_set == evaluation[e].seed_set
    IN  /\ Len(seed_set) <= Len(lines)
        /\ \A i \in 1..Len(seed_set) :
              /\ seed_set[i] = lines[i]
              /\ line[e]["-p"] \in DOMAIN before \/ lines[i] \notin Run!TornLines

\* What the evaluator e has read is what was there in the beginning, or a beginning of a result,
\* the whole of it if nobody wrote meanwhile.
Sees(e) ==
    LET path == line[e]["-p"]
        seed_set == evaluation[e].seed_set
    IN  /\ path \in DOMAIN files
        /\ Len(seed_set) <= Len(files[path])
        /\ \/ path \in DOMAIN before /\ seed_set = before[path]
           \/ \E p \in Benchmarkers : \E out \in Outputs(p) :
                 /\ path = out.file /\ AreBeginning(seed_set, p, out.index)
                 /\ e \notin disturbed => out \in task[p].kept /\ Wrote(e, p, out.index)

ReaderOf(e) ==
    LET reader == evaluation[e]
        path == line[e]["-p"]
    IN  /\ reader.pc # "start" => Started(e)
        /\ reader.pc \in {"start", "graph", "open"} => reader.seed_set = <<>>
        /\ reader.pc = "read" => path \in DOMAIN files
        /\ reader.pc = "read" /\ e \notin disturbed =>
              \A p \in Benchmarkers : ~(task[p].pc = "write" /\ task[p].file = path)
        /\ reader.pc = "read" /\ path \notin raced => Follows(e)
        /\ reader.pc \in {"evaluate", "done"} /\ path \notin raced => Sees(e)

ReaderInv == \A e \in Evaluators : ReaderOf(e)

-----------------------------------------------------------------------------
(* The types.                                                              *)

\* A list of elements of a set is one of elements of a larger set.
LEMMA SeqMonotone == ASSUME NEW S, NEW T, S \subseteq T, NEW s \in Seq(S) PROVE s \in Seq(T)
  OBVIOUS

\* The scenarios start with states of the types.

LEMMA InitTypeInv == Init => TypeInv
  <1> SUFFICES ASSUME NEW s \in Scenarios, Init, line = s.line, files = s.files
               PROVE  TypeInv
    BY DEF Init
  <1>1. Run!NewTask \in Task
    <2>1. <<>> \in Seq(Solver)
      OBVIOUS
    <2> QED BY <2>1 DEF Run!NewTask, Run!NoSolver, Run!NoFile, Task, Places, FileName, Bases, Solver
  <1>2. Eval!NewEvaluation \in Evaluation
    <2>1. <<>> \in Seq(Line)
      OBVIOUS
    <2> QED BY <2>1 DEF Eval!NewEvaluation, Evaluation, ReaderPlaces
  <1>3. CountedFrom1(files)
    BY ScenarioAssumption
  <1>4. ASSUME NEW f \in DOMAIN files PROVE f.number \in Nat \ {0} /\ files[f] \in Seq(Line)
    <2>1. Range(files[f]) \subseteq Line
      <3>1. Range(s.files[f]) \subseteq LinesOf(s)
        BY Zenon DEF LinesOf
      <3> QED BY <3>1 DEF Line
    <2>2. files[f] \in Seq(Range(files[f])) /\ f.number \in Nat \ {0}
      <3>1. IsFiniteSet({g \in DOMAIN files : g.base = f.base /\ g.solver = f.solver})
        BY <1>3, FS_Subset DEF CountedFrom1
      <3> QED BY <1>3, <3>1, FS_CardinalityType DEF CountedFrom1
    <2> QED BY <2>1, <2>2, SeqMonotone
  <1>5. ASSUME NEW p \in Benchmarkers PROVE task[p].pc # "open"
    BY DEF Init, Run!NewTask
  <1> QED BY <1>1, <1>2, <1>3, <1>4, <1>5, ScenarioAssumption DEF Init, TypeInv, CountedFrom1, List

\* A benchmarker that has got past its command line has a list of arguments.
LEMMA UsableList ==
    ASSUME TypeInv, CommandInv, NEW p \in Benchmarkers, task[p].pc \notin {"start", "exited"}
    PROVE  /\ Started(p)
           /\ Run!arguments(p) = List(p)
           /\ List(p) \in Seq(Argument)
  <1>1. Started(p) /\ IsUsable(p)
    BY DEF CommandInv, CommandOf
  <1>2. "-a" \in DOMAIN line[p]
    BY <1>1 DEF IsUsable, Run!IsUsageError, Run!Required
  <1>3. Run!arguments(p) = List(p)
    BY <1>2 DEF Run!arguments, Run!options, Run!parseArguments, Run!Overridden, List
  <1> QED BY <1>1, <1>2, <1>3, p \in DOMAIN line DEF TypeInv, Started

\* What the options of a process say does not change.
LEMMA LineFixed ==
    ASSUME line' = line, NEW p
    PROVE  /\ Started(p)' <=> Started(p)
           /\ IsUsable(p)' <=> IsUsable(p)
           /\ Run!options(p)' = Run!options(p)
           /\ Run!CanReadGraph(p)' <=> Run!CanReadGraph(p)
           /\ Run!NamesModel(p)' <=> Run!NamesModel(p)
           /\ GetsToSolvers(p)' <=> GetsToSolvers(p)
           /\ Stores(p)' <=> Stores(p)
           /\ Evaluates(p)' <=> Evaluates(p)
           /\ List(p)' = List(p)
           /\ Positions(p)' = Positions(p)
           /\ \A i : Rank(p, i)' = Rank(p, i)
           /\ \A i : Asked(p, i)' = Asked(p, i)
           /\ AskedFor(p)' = AskedFor(p)
           /\ Bases' = Bases
  <1>1. Started(p)' <=> Started(p)
    BY DEF Started
  <1>2. IsUsable(p)' <=> IsUsable(p)
    BY DEF IsUsable, Run!IsUsageError
  <1>3. \A q : Run!options(q)' = Run!options(q)
    BY DEF Run!options
  <1>4. Run!CanReadGraph(p)' <=> Run!CanReadGraph(p)
    BY <1>3 DEF Run!CanReadGraph
  <1>5. Run!NamesModel(p)' <=> Run!NamesModel(p)
    BY <1>3 DEF Run!NamesModel
  <1>6. GetsToSolvers(p)' <=> GetsToSolvers(p)
    BY <1>4, <1>5 DEF GetsToSolvers, Run!IsUsageError
  <1>7. Stores(p)' <=> Stores(p)
    BY <1>3 DEF Stores
  <1>8. Evaluates(p)' <=> Evaluates(p)
    BY <1>3 DEF Evaluates
  <1>9. List(p)' = List(p)
    BY DEF List
  <1>10. Positions(p)' = Positions(p)
    BY <1>9 DEF Positions
  <1>11. \A i : Rank(p, i)' = Rank(p, i)
    BY <1>10 DEF Rank
  <1>12. \A i : Asked(p, i)' = Asked(p, i)
    BY <1>9 DEF Asked
  <1>13. AskedFor(p)' = AskedFor(p) 
    BY <1>10, <1>11, <1>12 DEF AskedFor
  <1>14. Bases' = Bases
    BY <1>3 DEF Bases
  <1> QED BY <1>1, <1>2, <1>3, <1>4, <1>5, <1>6, <1>7, <1>8, <1>9, <1>10, <1>11, <1>12, <1>13, <1>14

-----------------------------------------------------------------------------
(* What each step makes of a process.                                      *)

\* The state of the process p becomes run, and that of no other process changes.
Becomes(p, run) == /\ run \in Task
                   /\ line' = line
                   /\ task' = [task EXCEPT ![p] = run]

\* The numbers of files that the modules count are the same.
LEMMA SameCardinality == \A S : Run!Cardinality(S) = Cardinality(S)
  BY DEF Cardinality, Run!Cardinality

\* A process may take any place, and any value of a field.
LEMMA TaskFields ==
    ASSUME NEW run \in Task
    PROVE  /\ \A x \in Places \cup Ended : [run EXCEPT !.pc = x] \in Task
           /\ \A x \in Nat \ {0} : [run EXCEPT !.index = x] \in Task
           /\ \A x \in {0, 1} : [run EXCEPT !.argument_count = x] \in Task
           /\ \A x \in Solver : [run EXCEPT !.solver = x] \in Task
           /\ \A x \in FileName : [run EXCEPT !.file = x] \in Task
           /\ \A x \in Nat : [run EXCEPT !.written = x] \in Task
           /\ \A x \in Seq(Solver) : [run EXCEPT !.benchmarked = x] \in Task
           /\ \A x \in SUBSET [file : FileName, index : Nat] : [run EXCEPT !.kept = x] \in Task
  BY DEF Task

\* Steps that only go on.
LEMMA GotoBecomes ==
    ASSUME TypeInv, NEW p \in Benchmarkers, NEW place \in Places \cup Ended, Run!Goto(p, place)
    PROVE  Becomes(p, [task[p] EXCEPT !.pc = place]) /\ files' = files
  BY TaskFields DEF Run!Goto, Becomes, TypeInv

\* The parameter behind a solver is skipped.
LEMMA SkipBecomes ==
    ASSUME TypeInv, NEW p \in Benchmarkers, Run!SkipParameter(p)
    PROVE  Becomes(p, [task[p] EXCEPT !.argument_count = @ - 1, !.index = @ + 1]) /\ files' = files
  <1>1. task[p] \in Task
    BY DEF TypeInv
  <1>2. task[p].argument_count - 1 \in {0, 1} /\ task[p].index + 1 \in Nat \ {0}
    BY <1>1 DEF Task, Run!SkipParameter
  <1>3. [task[p] EXCEPT !.argument_count = @ - 1] \in Task
    BY <1>1, <1>2, TaskFields
  <1>4. [[task[p] EXCEPT !.argument_count = @ - 1] EXCEPT !.index = task[p].index + 1] \in Task
    BY <1>2, <1>3, TaskFields
  <1>5. [task[p] EXCEPT !.argument_count = @ - 1, !.index = @ + 1] \in Task
    BY <1>1, <1>4 DEF Task
  <1> QED BY <1>5 DEF Run!SkipParameter, Becomes

\* A word that names no solver, or a number, is passed over.
LEMMA UnknownBecomes ==
    ASSUME TypeInv, NEW p \in Benchmarkers, Run!Unknown(p)
    PROVE  Becomes(p, [task[p] EXCEPT !.index = @ + 1]) /\ files' = files
  <1>1. task[p] \in Task
    BY DEF TypeInv
  <1>2. task[p].index + 1 \in Nat \ {0}
    BY <1>1 DEF Task
  <1> QED BY <1>1, <1>2, TaskFields DEF Run!Unknown, Becomes

\* The solver of the argument is constructed.
LEMMA CreateBecomes ==
    ASSUME TypeInv, CommandInv, NEW p \in Benchmarkers, Run!CreateSolver(p)
    PROVE  /\ Becomes(p, [task[p] EXCEPT !.solver = Asked(p, task[p].index),
                                         !.argument_count = IF Run!HasParameter(p) THEN 1 ELSE 0,
                                         !.pc = "solve"])
           /\ files' = files
  <1> DEFINE solver == Asked(p, task[p].index)
             count == IF Run!HasParameter(p) THEN 1 ELSE 0
  <1>1. /\ task[p] \in Task
        /\ task[p].index \in Nat \ {0}
    BY DEF TypeInv, Task
  <1>2. /\ Run!arguments(p) = List(p)
        /\ List(p) \in Seq(Argument)
        /\ task[p].index <= Len(List(p))
    BY UsableList DEF Run!CreateSolver, Run!AtArgument, Run!At
  <1>3. List(p)[task[p].index] \in Argument
    BY <1>1, <1>2
  <1>4. Run!Known(List(p)[task[p].index])
    BY <1>2 DEF Run!CreateSolver, Run!Argument
  <1>5. [word |-> Run!Argument(p).word, parameter |-> Run!Parameter(p)] = solver
    BY <1>1, <1>2 DEF Run!Argument, Run!Parameter, Run!HasParameter, Run!NextIsNumber, Asked
  <1>6. solver \in Solver
    <2>1. \A w : Run!Default(w) \in Int
      BY DEF Run!Default, Run!simulations, Run!divider, Run!EaSyIMIterations, Run!EasyImDeltaIterations,
             Run!UpdateApproximationIterations
    <2>2. solver.word \in Run!Words
      BY <1>4 DEF Run!Known, Asked
    <2>3. solver.parameter \in Int
      <3>1. CASE task[p].index < Len(List(p))
        <4>1. List(p)[task[p].index + 1] \in Argument
          BY <3>1, <1>1, <1>2
        <4> QED BY <4>1, <2>1 DEF Asked, Argument
      <3>2. CASE ~(task[p].index < Len(List(p)))
        BY <3>2, <2>1 DEF Asked
      <3> QED BY <3>1, <3>2
    <2> QED BY <2>2, <2>3 DEF Solver, Asked
  <1>7. count \in {0, 1} /\ "solve" \in Places \cup Ended
    BY DEF Places
  <1> HIDE DEF solver, count
  <1>8. [task[p] EXCEPT !.solver = solver] \in Task
    BY <1>1, <1>6, TaskFields
  <1>9. [[task[p] EXCEPT !.solver = solver] EXCEPT !.argument_count = count] \in Task
    BY <1>7, <1>8, TaskFields
  <1>10. [[[task[p] EXCEPT !.solver = solver] EXCEPT !.argument_count = count] EXCEPT !.pc = "solve"] \in Task
    BY <1>7, <1>9, TaskFields
  <1>11. task' = [task EXCEPT ![p].solver = solver, ![p].argument_count = count, ![p].pc = "solve"]
    BY <1>5 DEF Run!CreateSolver, count
  <1> USE DEF solver, count
  <1> QED BY <1>10, <1>11 DEF Run!CreateSolver, Becomes

\* A solver has run.
LEMMA SolveBecomes ==
    ASSUME TypeInv, NEW p \in Benchmarkers, Run!Solve(p)
    PROVE  /\ Becomes(p, [task[p] EXCEPT !.benchmarked = Append(@, task[p].solver),
                                         !.pc = IF Stores(p) THEN "path" ELSE "evaluate"])
           /\ files' = files
  <1> DEFINE list == Append(task[p].benchmarked, task[p].solver)
             place == IF Stores(p) THEN "path" ELSE "evaluate"
  <1>1. task[p] \in Task
    BY DEF TypeInv
  <1>2. list \in Seq(Solver) /\ place \in Places \cup Ended
    BY <1>1 DEF Task, Places
  <1>3. task' = [task EXCEPT ![p].benchmarked = list, ![p].pc = place]
    BY DEF Run!Solve, Stores
  <1> HIDE DEF list, place
  <1>4. [[task[p] EXCEPT !.benchmarked = list] EXCEPT !.pc = place] \in Task
    BY <1>1, <1>2, TaskFields
  <1>5. Becomes(p, [task[p] EXCEPT !.benchmarked = list, !.pc = place])
    BY <1>3, <1>4 DEF Run!Solve, Becomes
  <1> USE DEF list, place
  <1> QED BY <1>5 DEF Run!Solve

\* The path of a result is chosen.
LEMMA PathBecomes ==
    ASSUME TypeInv, NEW p \in Benchmarkers, Run!createOutPathFor(p)
    PROVE  /\ Becomes(p, [task[p] EXCEPT !.file = [base |-> Run!options(p)["-o"],
                                                   solver |-> Run!name(task[p].solver),
                                                   number |-> Run!NextNumber(p)],
                                         !.pc = "open"])
           /\ files' = files
  <1> DEFINE file == [base |-> Run!options(p)["-o"], solver |-> Run!name(task[p].solver),
                      number |-> Run!NextNumber(p)]
  <1>1. task[p] \in Task
    BY DEF TypeInv
  <1>2. Run!name(task[p].solver) \in Solver
    <2>1. \A s \in Solver : \A x \in Int : [s EXCEPT !.parameter = x] \in Solver
      BY DEF Solver
    <2> QED BY <1>1, <2>1, 0 \in Int DEF Run!name, Task
  <1>3. Run!NextNumber(p) \in Nat
    <2>1. IsFiniteSet(Run!FilesOf(Run!options(p)["-o"], Run!name(task[p].solver)))
      BY FS_Subset DEF Run!FilesOf, TypeInv
    <2> QED BY <2>1, FS_CardinalityType, SameCardinality DEF Run!NextNumber
  <1>4. file \in FileName /\ "open" \in Places \cup Ended
    BY <1>2, <1>3 DEF FileName, Bases, Places
  <1>5. task' = [task EXCEPT ![p].file = file, ![p].pc = "open"]
    BY DEF Run!createOutPathFor
  <1> HIDE DEF file
  <1>6. [[task[p] EXCEPT !.file = file] EXCEPT !.pc = "open"] \in Task
    BY <1>1, <1>4, TaskFields
  <1>7. Becomes(p, [task[p] EXCEPT !.file = file, !.pc = "open"])
    BY <1>5, <1>6 DEF Run!createOutPathFor, Becomes
  <1> USE DEF file
  <1> QED BY <1>7 DEF Run!createOutPathFor

\* The file is created.
LEMMA OpenBecomes ==
    ASSUME TypeInv, NEW p \in Benchmarkers, Run!OpenFile(p)
    PROVE  Becomes(p, [task[p] EXCEPT !.written = 0, !.pc = "write"])
  <1>1. task[p] \in Task /\ "write" \in Places \cup Ended
    BY DEF TypeInv, Places
  <1>2. [[task[p] EXCEPT !.written = 0] EXCEPT !.pc = "write"] \in Task
    BY <1>1, TaskFields
  <1> QED BY <1>2 DEF Run!OpenFile, Becomes

\* A line is written.
LEMMA WriteBecomes ==
    ASSUME TypeInv, NEW p \in Benchmarkers, Run!WriteSeed(p)
    PROVE  Becomes(p, [task[p] EXCEPT !.written = @ + 1])
  <1>1. task[p] \in Task /\ task[p].written + 1 \in Nat
    BY DEF TypeInv, Task
  <1>2. [task[p] EXCEPT !.written = task[p].written + 1] \in Task
    BY <1>1, TaskFields
  <1> QED BY <1>2 DEF Run!WriteSeed, Becomes

\* A part of a line is written, which only the file shows.
LEMMA PartBecomes ==
    ASSUME TypeInv, NEW p \in Benchmarkers, Run!WritePart(p)
    PROVE  Becomes(p, task[p]) /\ task' = task /\ task[p].pc = "write"
  BY DEF Run!WritePart, Run!At, Becomes, TypeInv

\* A result is finished.
LEMMA CloseBecomes ==
    ASSUME TypeInv, NEW p \in Benchmarkers, Run!CloseFile(p)
    PROVE  /\ Becomes(p, [task[p] EXCEPT !.kept = @ \cup {[file |-> task[p].file, index |-> task[p].index]},
                                         !.pc = "evaluate"])
           /\ files' = files
  <1> DEFINE kept == task[p].kept \cup {[file |-> task[p].file, index |-> task[p].index]}
  <1>1. task[p] \in Task /\ "evaluate" \in Places \cup Ended
    BY DEF TypeInv, Places
  <1>2. kept \in SUBSET [file : FileName, index : Nat]
    BY <1>1 DEF Task
  <1>3. task' = [task EXCEPT ![p].kept = kept, ![p].pc = "evaluate"]
    BY DEF Run!CloseFile
  <1> HIDE DEF kept
  <1>4. [[task[p] EXCEPT !.kept = kept] EXCEPT !.pc = "evaluate"] \in Task
    BY <1>1, <1>2, TaskFields
  <1>5. Becomes(p, [task[p] EXCEPT !.kept = kept, !.pc = "evaluate"])
    BY <1>3, <1>4 DEF Run!CloseFile, Becomes
  <1> USE DEF kept
  <1> QED BY <1>5 DEF Run!CloseFile

\* The result is evaluated.
LEMMA EvaluateBecomes ==
    ASSUME TypeInv, NEW p \in Benchmarkers, Run!Evaluate(p)
    PROVE  Becomes(p, [task[p] EXCEPT !.index = @ + 1, !.pc = "loop"]) /\ files' = files
  <1>1. task[p] \in Task /\ "loop" \in Places \cup Ended
    BY DEF TypeInv, Places
  <1>2. task[p].index + 1 \in Nat \ {0}
    BY <1>1 DEF Task
  <1>3. [[task[p] EXCEPT !.index = task[p].index + 1] EXCEPT !.pc = "loop"] \in Task
    BY <1>1, <1>2, TaskFields
  <1> QED BY <1>3 DEF Run!Evaluate, Becomes

\* No other process is affected.
LEMMA OthersStay ==
    ASSUME TypeInv, NEW p \in Benchmarkers, NEW run, Becomes(p, run)
    PROVE  /\ task' \in [Benchmarkers -> Task]
           /\ task'[p] = run
           /\ \A q \in Benchmarkers : q # p => task'[q] = task[q]
           /\ line' = line
  BY DEF TypeInv, Becomes

\* Every step of a benchmarker is such a change.
LEMMA StepBecomes ==
    ASSUME TypeInv, CommandInv, NEW p \in Benchmarkers, Run!Step(p)
    PROVE  \E run : Becomes(p, run)
  <1>1. ASSUME NEW place \in Places \cup Ended, Run!Goto(p, place) PROVE \E run : Becomes(p, run)
    BY <1>1, GotoBecomes
  <1>2. CASE Run!UsageError(p) \/ Run!NoGraph(p)
    BY <1>1, <1>2 DEF Run!UsageError, Run!NoGraph, Ended
  <1>3. CASE Run!Start(p) \/ Run!ReadGraph(p)
    BY <1>1, <1>3 DEF Run!Start, Run!ReadGraph, Places
  <1>4. CASE Run!Construct(p)
    BY <1>1, <1>4 DEF Run!Construct, Places, Ended
  <1>5. CASE Run!Terminate(p) \/ Run!Done(p) \/ Run!NoDirectory(p) \/ Run!NoModel(p)
    BY <1>1, <1>5 DEF Run!Terminate, Run!Done, Run!NoDirectory, Run!NoModel, Ended
  <1>6. CASE Run!SkipParameter(p)
    BY <1>6, SkipBecomes
  <1>7. CASE Run!CreateSolver(p)
    BY <1>7, CreateBecomes
  <1>8. CASE Run!Unknown(p)
    BY <1>8, UnknownBecomes
  <1>9. CASE Run!Solve(p)
    BY <1>9, SolveBecomes
  <1>10. CASE Run!createOutPathFor(p)
    BY <1>10, PathBecomes
  <1>11. CASE Run!OpenFile(p)
    BY <1>11, OpenBecomes
  <1>12. CASE Run!WriteSeed(p)
    BY <1>12, WriteBecomes
  <1>15. CASE Run!WritePart(p)
    BY <1>15, PartBecomes
  <1>13. CASE Run!CloseFile(p)
    BY <1>13, CloseBecomes
  <1>14. CASE Run!Evaluate(p)
    BY <1>14, EvaluateBecomes
  <1> QED BY <1>2, <1>3, <1>4, <1>5, <1>6, <1>7, <1>8, <1>9, <1>10, <1>11, <1>12, <1>13, <1>14, <1>15
          DEF Run!Step

\* Files change only by being created and written.
LEMMA FilesStay ==
    ASSUME NEW p \in Benchmarkers, Run!Step(p), ~Run!OpenFile(p), ~Run!WriteSeed(p), ~Run!WritePart(p)
    PROVE  files' = files
  BY DEF Run!Step, Run!Goto, Run!UsageError, Run!Start, Run!NoGraph, Run!ReadGraph, Run!Construct,
         Run!SkipParameter, Run!CreateSolver, Run!Terminate, Run!Unknown, Run!Done, Run!Solve,
         Run!NoDirectory, Run!createOutPathFor, Run!CloseFile, Run!Evaluate, Run!NoModel

\* The steps of Benchmarker::benchmark that make a file.
WritesNow(p) == \/ Run!createOutPathFor(p) \/ Run!OpenFile(p)
                \/ Run!WriteSeed(p) \/ Run!WritePart(p) \/ Run!CloseFile(p)

\* The other steps have nothing to do with files.
LEMMA QuietStep ==
    ASSUME TypeInv, CommandInv, NEW p \in Benchmarkers, Run!Step(p), ~WritesNow(p)
    PROVE  /\ files' = files
           /\ task[p].pc \notin {"open", "write"} /\ task'[p].pc \notin {"open", "write"}
           /\ task'[p].file = task[p].file
           /\ task'[p].kept = task[p].kept
  <1> DEFINE Quiet == /\ task[p].pc \notin {"open", "write"} /\ task'[p].pc \notin {"open", "write"}
                      /\ task'[p].file = task[p].file
                      /\ task'[p].kept = task[p].kept
  <1> SUFFICES Quiet
    BY FilesStay DEF WritesNow
  <1> USE DEF Run!At
  <1>1. task[p] \in Task
    BY DEF TypeInv
  <1>2. ASSUME NEW place \in Places \cup Ended, Run!Goto(p, place),
               task[p].pc \notin {"open", "write"}, place \notin {"open", "write"}
        PROVE  Quiet
    <2>1. task'[p] = [task[p] EXCEPT !.pc = place]
      BY <1>2, GotoBecomes, OthersStay
    <2> QED BY <2>1, <1>1, <1>2 DEF Task
  <1>3. CASE Run!UsageError(p) \/ Run!NoGraph(p)
    BY <1>2, <1>3 DEF Run!UsageError, Run!NoGraph, Ended
  <1>4. CASE Run!Start(p) \/ Run!ReadGraph(p)
    BY <1>2, <1>4 DEF Run!Start, Run!ReadGraph, Places
  <1>5. CASE Run!Construct(p)
    BY <1>2, <1>5 DEF Run!Construct, Places, Ended
  <1>6. CASE Run!Terminate(p) \/ Run!Done(p) \/ Run!NoDirectory(p) \/ Run!NoModel(p)
    BY <1>2, <1>6 DEF Run!Terminate, Run!AtArgument, Run!Done, Run!NoDirectory, Run!NoModel, Ended
  <1>7. CASE Run!SkipParameter(p)
    <2>1. task'[p] = [task[p] EXCEPT !.argument_count = @ - 1, !.index = @ + 1]
      BY <1>7, SkipBecomes, OthersStay
    <2> QED BY <2>1, <1>1, <1>7 DEF Task, Run!SkipParameter, Run!AtArgument
  <1>8. CASE Run!CreateSolver(p)
    <2>1. task'[p] = [task[p] EXCEPT !.solver = Asked(p, task[p].index),
                                     !.argument_count = IF Run!HasParameter(p) THEN 1 ELSE 0,
                                     !.pc = "solve"]
      BY <1>8, CreateBecomes, OthersStay
    <2> QED BY <2>1, <1>1, <1>8 DEF Task, Run!CreateSolver, Run!AtArgument
  <1>9. CASE Run!Unknown(p)
    <2>1. task'[p] = [task[p] EXCEPT !.index = @ + 1]
      BY <1>9, UnknownBecomes, OthersStay
    <2> QED BY <2>1, <1>1, <1>9 DEF Task, Run!Unknown, Run!AtArgument
  <1>10. CASE Run!Solve(p)
    <2>1. task'[p] = [task[p] EXCEPT !.benchmarked = Append(@, task[p].solver),
                                     !.pc = IF Stores(p) THEN "path" ELSE "evaluate"]
      BY <1>10, SolveBecomes, OthersStay
    <2> QED BY <2>1, <1>1, <1>10 DEF Task, Run!Solve
  <1>11. CASE Run!Evaluate(p)
    <2>1. task'[p] = [task[p] EXCEPT !.index = @ + 1, !.pc = "loop"]
      BY <1>11, EvaluateBecomes, OthersStay
    <2> QED BY <2>1, <1>1, <1>11 DEF Task, Run!Evaluate
  <1> QED BY <1>3, <1>4, <1>5, <1>6, <1>7, <1>8, <1>9, <1>10, <1>11 DEF Run!Step, WritesNow

\* Evaluators only read.
LEMMA EvaluatorStays ==
    ASSUME NEW e \in Evaluators, Eval!Step(e)
    PROVE  line' = line /\ files' = files
  BY DEF Eval!Step, Eval!Goto, Eval!UsageError, Eval!Start, Eval!NoGraph, Eval!ReadGraph,
         Eval!NoSeedFile, Eval!OpenSeedFile, Eval!ReadSeed, Eval!ReadTornLine, Eval!ReadGarbage,
         Eval!EndOfSeeds, Eval!Evaluate, Eval!NoModel

-----------------------------------------------------------------------------
(* The types are kept.                                                     *)

\* A new file is empty.
LEMMA OpenTypes ==
    ASSUME TypeInv, NEW p \in Benchmarkers, Run!OpenFile(p)
    PROVE  /\ IsFiniteSet(DOMAIN files')
           /\ \A f \in DOMAIN files' : f.number \in Nat \ {0} /\ files'[f] \in Seq(Line)
  <1>1. /\ DOMAIN files' = DOMAIN files \cup {task[p].file}
        /\ \A f \in DOMAIN files' : files'[f] = IF f = task[p].file THEN <<>> ELSE files[f]
    BY DEF Run!OpenFile
  <1>2. IsFiniteSet(DOMAIN files')
    <2>1. IsFiniteSet(DOMAIN files \cup {task[p].file})
      BY FS_AddElement DEF TypeInv
    <2> QED BY <1>1, <2>1
  <1>3. task[p].file.number \in Nat \ {0}
    BY DEF Run!OpenFile, Run!At, TypeInv, Task, FileName
  <1>4. <<>> \in Seq(Line)
    OBVIOUS
  <1> QED BY <1>1, <1>2, <1>3, <1>4 DEF TypeInv

\* A line that is written is a seed, and what is skipped are holes.
LEMMA WriteTypes ==
    ASSUME TypeInv, NEW p \in Benchmarkers, Run!WriteSeed(p)
    PROVE  /\ DOMAIN files' = DOMAIN files
           /\ \A f \in DOMAIN files : files'[f] \in Seq(Line)
           /\ \A f \in DOMAIN files : f # task[p].file => files'[f] = files[f]
  <1> DEFINE j == task[p].written + 1
             text == files[task[p].file]
             reached == IF Len(text) >= j THEN Len(text) ELSE j
             new == [i \in 1..reached |-> IF i = j THEN Run!Seed(p, task[p].index, j)
                                          ELSE IF i <= Len(text) THEN text[i] ELSE Run!Hole]
  <1>1. files' = [files EXCEPT ![task[p].file] = new]
    BY DEF Run!WriteSeed
  <1>2. ASSUME task[p].file \in DOMAIN files PROVE new \in Seq(Line)
    <2>1. text \in Seq(Line) /\ j \in Nat /\ task[p].index \in Nat
      BY <1>2 DEF TypeInv, Task
    <2>2. reached \in Nat /\ Len(text) \in Nat
      BY <2>1
    <2>3. Run!Seed(p, task[p].index, j) \in Line /\ Run!Hole \in Line
      BY <2>1 DEF Run!Seed, Run!Hole, Line
    <2> HIDE DEF reached, j, text
    <2>4. \A i \in 1..Len(text) : text[i] \in Line
      BY <2>1
    <2>5. \A i \in 1..reached : i \in 1..Len(text) \/ ~(i <= Len(text))
      BY <2>2
    <2>6. \A i \in 1..reached : new[i] \in Line
      BY <2>3, <2>4, <2>5
    <2> QED BY <2>2, <2>6
  <1> HIDE DEF new
  <1> QED BY <1>1, <1>2 DEF TypeInv

\* So is a part of a line.
LEMMA PartTypes ==
    ASSUME TypeInv, NEW p \in Benchmarkers, Run!WritePart(p)
    PROVE  /\ DOMAIN files' = DOMAIN files
           /\ \A f \in DOMAIN files : files'[f] \in Seq(Line)
           /\ \A f \in DOMAIN files : f # task[p].file => files'[f] = files[f]
           /\ task[p].file \in DOMAIN files =>
                 files'[task[p].file] = Append(files[task[p].file], Run!Part(p, task[p].index, task[p].written + 1))
  <1> DEFINE part == Run!Part(p, task[p].index, task[p].written + 1)
  <1>1. files' = [files EXCEPT ![task[p].file] = Append(@, part)]
    BY DEF Run!WritePart
  <1>2. part \in Line
    <2>1. task[p].index \in Nat /\ task[p].written + 1 \in Nat
      BY DEF TypeInv, Task
    <2>2. part \in Run!TornLines
      BY <2>1 DEF Run!Part, Run!TornLines
    <2> QED BY <2>2 DEF Line
  <1> HIDE DEF part
  <1>3. ASSUME task[p].file \in DOMAIN files PROVE Append(files[task[p].file], part) \in Seq(Line)
    BY <1>2, <1>3 DEF TypeInv
  <1>4. \A f \in DOMAIN files : files'[f] \in Seq(Line)
    BY <1>1, <1>3 DEF TypeInv
  <1> USE DEF part
  <1> QED BY <1>1, <1>4

\* A benchmarker's step keeps the types.
LEMMA BenchmarkerTypes ==
    ASSUME TypeInv, CommandInv, NEW p \in Benchmarkers, BenchmarkerStep(p)
    PROVE  TypeInv'
  <1>1. PICK run : Becomes(p, run)
    BY StepBecomes DEF BenchmarkerStep
  <1>2. task' \in [Benchmarkers -> Task] /\ line' = line
    BY <1>1, OthersStay
  <1>3. Task' = Task
    BY <1>2, LineFixed DEF Task, FileName
  <1>4. evaluation' \in [Evaluators -> Evaluation]
    BY DEF BenchmarkerStep, TypeInv
  <1>5. /\ IsFiniteSet(DOMAIN files')
        /\ \A f \in DOMAIN files' : f.number \in Nat \ {0} /\ files'[f] \in Seq(Line)
    <2>1. CASE Run!OpenFile(p)
      BY <2>1, OpenTypes
    <2>2. CASE Run!WriteSeed(p)
      BY <2>2, WriteTypes DEF TypeInv
    <2>3. CASE Run!WritePart(p)
      BY <2>3, PartTypes DEF TypeInv
    <2>4. CASE ~Run!OpenFile(p) /\ ~Run!WriteSeed(p) /\ ~Run!WritePart(p)
      BY <2>4, FilesStay DEF BenchmarkerStep, TypeInv
    <2> QED BY <2>1, <2>2, <2>3, <2>4
  <1>6. \A q \in Benchmarkers : task'[q].pc = "open" => task'[q].file.number # 0
    <2>1. \A q \in Benchmarkers : q # p => task'[q] = task[q]
      BY <1>1, OthersStay
    <2>2. ASSUME task'[p].pc = "open" PROVE task'[p].file.number # 0
      <3>1. CASE Run!createOutPathFor(p)
        <4> DEFINE new == [task[p] EXCEPT !.file = [base |-> Run!options(p)["-o"],
                                                    solver |-> Run!name(task[p].solver),
                                                    number |-> Run!NextNumber(p)],
                                          !.pc = "open"]
        <4>1. Becomes(p, new)
          BY <3>1, PathBecomes
        <4>2. task'[p] = new /\ task[p] \in Task
          BY <4>1, OthersStay DEF TypeInv
        <4>3. task'[p].file.number = Run!NextNumber(p)
          BY <4>2 DEF Task
        <4>4. Run!NextNumber(p) # 0
          <5>1. IsFiniteSet(Run!FilesOf(Run!options(p)["-o"], Run!name(task[p].solver)))
            BY FS_Subset DEF Run!FilesOf, TypeInv
          <5> QED BY <5>1, FS_CardinalityType, SameCardinality DEF Run!NextNumber
        <4> QED BY <4>3, <4>4
      <3>2. CASE Run!OpenFile(p)
        <4>1. task'[p] = [task[p] EXCEPT !.written = 0, !.pc = "write"] /\ task[p] \in Task
          BY <3>2, OpenBecomes, OthersStay DEF TypeInv
        <4> QED BY <4>1, <2>2 DEF Task
      <3>3. CASE Run!WriteSeed(p)
        <4>1. task'[p] = [task[p] EXCEPT !.written = @ + 1] /\ task[p] \in Task
          BY <3>3, WriteBecomes, OthersStay DEF TypeInv
        <4> QED BY <4>1, <3>3, <2>2 DEF Task, Run!WriteSeed, Run!At
      <3>4. CASE Run!CloseFile(p)
        <4>1. /\ task'[p] = [task[p] EXCEPT !.kept = @ \cup {[file |-> task[p].file, index |-> task[p].index]},
                                            !.pc = "evaluate"]
              /\ task[p] \in Task
          BY <3>4, CloseBecomes, OthersStay DEF TypeInv
        <4> QED BY <4>1, <2>2 DEF Task
      <3>5. CASE ~WritesNow(p)
        BY <3>5, <2>2, QuietStep DEF BenchmarkerStep
      <3>6. CASE Run!WritePart(p)
        BY <3>6, <2>2, PartBecomes
      <3> QED BY <3>1, <3>2, <3>3, <3>4, <3>5, <3>6 DEF WritesNow
    <2> QED BY <2>1, <2>2 DEF TypeInv
  <1>7. \A q \in Benchmarkers \cap DOMAIN line' : "-a" \in DOMAIN line'[q] => List(q)' \in Seq(Argument)
    BY <1>2, LineFixed DEF TypeInv
  <1> QED BY <1>2, <1>3, <1>4, <1>5, <1>6, <1>7 DEF TypeInv

\* What a step makes of an evaluator.
ReaderBecomes(e, reader) == /\ reader \in Evaluation
                            /\ evaluation' = [evaluation EXCEPT ![e] = reader]

\* An evaluator reads a line of its file.
Reads(e) == Eval!ReadSeed(e) \/ Eval!ReadTornLine(e)

\* It goes on behind a torn line.
PlaceAfter(e) == IF Eval!EndsWithin(e) THEN "evaluate" ELSE "read"

\* An evaluator goes on, or it reads a line of its file.
LEMMA ReaderSteps ==
    ASSUME TypeInv, ReaderInv, NEW e \in Evaluators, Eval!Step(e)
    PROVE  \/ /\ Reads(e)
              /\ evaluation[e].pc = "read"
              /\ line[e]["-p"] \in DOMAIN files
              /\ Len(evaluation[e].seed_set) < Len(files[line[e]["-p"]])
              /\ ReaderBecomes(e, [evaluation[e] EXCEPT !.seed_set = Append(@, Eval!NextLine(e)),
                                                        !.pc = PlaceAfter(e)])
           \/ /\ ~Reads(e)
              /\ \E place \in ReaderPlaces \cup Ended :
                    /\ Eval!Goto(e, place)
                    /\ ReaderBecomes(e, [evaluation[e] EXCEPT !.pc = place])
  <1>1. evaluation[e] \in Evaluation
    BY DEF TypeInv
  <1>2. CASE Reads(e)
    <2> DEFINE new == Append(evaluation[e].seed_set, Eval!NextLine(e))
               place == PlaceAfter(e)
    <2>1. evaluation[e].pc = "read" /\ ~Eval!AtEnd(e)
      BY <1>2 DEF Reads, Eval!ReadSeed, Eval!ReadTornLine, Eval!At
    <2>2. line[e]["-p"] \in DOMAIN files
      BY <2>1 DEF ReaderInv, ReaderOf
    <2>3. files[line[e]["-p"]] \in Seq(Line) /\ evaluation[e].seed_set \in Seq(Line)
      BY <2>2, <1>1 DEF TypeInv, Evaluation
    <2>4. /\ Len(evaluation[e].seed_set) \in Nat /\ Len(files[line[e]["-p"]]) \in Nat
          /\ Len(evaluation[e].seed_set) < Len(files[line[e]["-p"]])
      BY <2>1, <2>3 DEF Eval!AtEnd
    <2>5. Eval!NextLine(e) \in Line
      BY <2>3, <2>4 DEF Eval!NextLine
    <2>6. new \in Seq(Line)
      BY <2>3, <2>5
    <2>7. place \in ReaderPlaces \cup Ended
      BY DEF PlaceAfter, ReaderPlaces
    <2>8. evaluation'[e] = [evaluation[e] EXCEPT !.seed_set = new, !.pc = place]
          /\ evaluation' = [evaluation EXCEPT ![e] = [evaluation[e] EXCEPT !.seed_set = new, !.pc = place]]
      <3> HIDE DEF new
      <3>1. CASE Eval!ReadSeed(e)
        <4>1. place = "read"
          BY <3>1 DEF Eval!ReadSeed, PlaceAfter
        <4>2. evaluation' = [evaluation EXCEPT ![e].seed_set = new]
          BY <3>1 DEF Eval!ReadSeed, new
        <4>3. [evaluation[e] EXCEPT !.seed_set = new] = [evaluation[e] EXCEPT !.seed_set = new, !.pc = "read"]
          BY <1>1, <2>1 DEF Evaluation
        <4> QED BY <4>1, <4>2, <4>3 DEF TypeInv
      <3>2. CASE Eval!ReadTornLine(e)
        <4>1. place = "evaluate"
          BY <3>2 DEF Eval!ReadTornLine, PlaceAfter
        <4>2. evaluation' = [evaluation EXCEPT ![e].seed_set = new, ![e].pc = "evaluate"]
          BY <3>2 DEF Eval!ReadTornLine, new
        <4> QED BY <4>1, <4>2 DEF TypeInv
      <3> QED BY <3>1, <3>2, <1>2 DEF Reads
    <2> HIDE DEF new, place
    <2>9. [evaluation[e] EXCEPT !.seed_set = new, !.pc = place] \in Evaluation
      BY <1>1, <2>6, <2>7 DEF Evaluation
    <2> USE DEF new, place
    <2> QED BY <1>2, <2>1, <2>2, <2>4, <2>8, <2>9 DEF ReaderBecomes
  <1>3. ASSUME NEW place \in ReaderPlaces \cup Ended, Eval!Goto(e, place)
        PROVE  ReaderBecomes(e, [evaluation[e] EXCEPT !.pc = place])
    <2>1. [evaluation[e] EXCEPT !.pc = place] \in Evaluation
      BY <1>1, <1>3 DEF Evaluation
    <2> QED BY <2>1, <1>3 DEF Eval!Goto, ReaderBecomes
  <1>4. CASE ~Reads(e)
    <2>1. \/ Eval!Goto(e, "exited") \/ Eval!Goto(e, "graph") \/ Eval!Goto(e, "open")
          \/ Eval!Goto(e, "read") \/ Eval!Goto(e, "terminated") \/ Eval!Goto(e, "evaluate")
          \/ Eval!Goto(e, "done") \/ Eval!Goto(e, "crashed")
      BY <1>4 DEF Reads, Eval!Step, Eval!UsageError, Eval!Start, Eval!NoGraph, Eval!ReadGraph, Eval!NoSeedFile,
                  Eval!OpenSeedFile, Eval!ReadGarbage, Eval!EndOfSeeds, Eval!Evaluate, Eval!NoModel
    <2>2. \E place \in ReaderPlaces \cup Ended : Eval!Goto(e, place)
      BY <2>1 DEF ReaderPlaces, Ended
    <2> QED BY <1>3, <1>4, <2>2
  <1> QED BY <1>2, <1>4

\* An evaluator's step keeps the types.
LEMMA EvaluatorTypes ==
    ASSUME TypeInv, ReaderInv, NEW e \in Evaluators, EvaluatorStep(e)
    PROVE  TypeInv'
  <1>1. line' = line /\ files' = files /\ task' = task
    BY EvaluatorStays DEF EvaluatorStep
  <1>2. \E reader : ReaderBecomes(e, reader)
    BY ReaderSteps DEF EvaluatorStep
  <1>3. evaluation' \in [Evaluators -> Evaluation]
    BY <1>2 DEF ReaderBecomes, TypeInv
  <1>4. Task' = Task
    BY <1>1, LineFixed DEF Task, FileName
  <1>5. \A q \in Benchmarkers \cap DOMAIN line' : "-a" \in DOMAIN line'[q] => List(q)' \in Seq(Argument)
    BY <1>1, LineFixed DEF TypeInv
  <1> QED BY <1>1, <1>3, <1>4, <1>5 DEF TypeInv

-----------------------------------------------------------------------------
(* Where a benchmarker is says what its command line allows.               *)

\* Nothing is known of a process that has not started.
LEMMA InitCommand == Init => CommandInv
  BY DEF Init, CommandInv, CommandOf, Run!NewTask, BeforeSolvers

\* The steps before the first solver.
LEMMA StartCommand ==
    ASSUME TypeInv, CommandInv, NEW p \in Benchmarkers,
           Run!UsageError(p) \/ Run!Start(p) \/ Run!NoGraph(p) \/ Run!ReadGraph(p) \/ Run!Construct(p)
    PROVE  CommandOf(p)'
  <1>1. task[p] \in Task /\ CommandOf(p)
    BY DEF TypeInv, CommandInv
  <1>2. ASSUME NEW place \in Places \cup Ended, Run!Goto(p, place)
        PROVE  task'[p] = [task[p] EXCEPT !.pc = place] /\ line' = line
    BY <1>2, GotoBecomes, OthersStay
  <1>3. CASE Run!UsageError(p)
    <2>1. task'[p] = [task[p] EXCEPT !.pc = "exited"] /\ line' = line
      BY <1>2, <1>3 DEF Run!UsageError, Ended
    <2>2. ~GetsToSolvers(p) /\ Started(p) /\ task[p].pc = "start"
      BY <1>3 DEF Run!UsageError, Run!At, GetsToSolvers, Started
    <2> QED BY <2>1, <2>2, <1>1, LineFixed DEF CommandOf, Task, BeforeSolvers
  <1>4. CASE Run!Start(p)
    <2>1. task'[p] = [task[p] EXCEPT !.pc = "graph"] /\ line' = line
      BY <1>2, <1>4 DEF Run!Start, Places
    <2>2. IsUsable(p) /\ Started(p) /\ task[p].pc = "start"
      BY <1>4 DEF Run!Start, Run!At, IsUsable, Started
    <2> QED BY <2>1, <2>2, <1>1, LineFixed DEF CommandOf, Task, BeforeSolvers
  <1>5. CASE Run!NoGraph(p)
    <2>1. task'[p] = [task[p] EXCEPT !.pc = "exited"] /\ line' = line
      BY <1>2, <1>5 DEF Run!NoGraph, Ended
    <2>2. ~GetsToSolvers(p) /\ task[p].pc = "graph"
      BY <1>5 DEF Run!NoGraph, Run!At, GetsToSolvers
    <2> QED BY <2>1, <2>2, <1>1, LineFixed DEF CommandOf, Task, BeforeSolvers
  <1>6. CASE Run!ReadGraph(p)
    <2>1. task'[p] = [task[p] EXCEPT !.pc = "construct"] /\ line' = line
      BY <1>2, <1>6 DEF Run!ReadGraph, Places
    <2>2. Run!CanReadGraph(p) /\ task[p].pc = "graph"
      BY <1>6 DEF Run!ReadGraph, Run!At
    <2> QED BY <2>1, <2>2, <1>1, LineFixed DEF CommandOf, Task, BeforeSolvers
  <1>7. CASE Run!Construct(p) /\ Run!NamesModel(p)
    <2>1. task'[p] = [task[p] EXCEPT !.pc = "loop"] /\ line' = line /\ task[p].pc = "construct"
      BY <1>2, <1>7 DEF Run!Construct, Run!At, Places
    <2> QED BY <2>1, <1>7, <1>1, LineFixed DEF CommandOf, Task, BeforeSolvers
  <1>8. CASE Run!Construct(p) /\ ~Run!NamesModel(p)
    <2>1. task'[p] = [task[p] EXCEPT !.pc = "exited"] /\ line' = line /\ task[p].pc = "construct"
      BY <1>2, <1>8 DEF Run!Construct, Run!At, Ended
    <2> QED BY <2>1, <1>8, <1>1, LineFixed DEF CommandOf, Task, BeforeSolvers, GetsToSolvers
  <1> QED BY <1>3, <1>4, <1>5, <1>6, <1>7, <1>8

\* Afterwards, a step that does not end in a place before the solvers, and comes to the places where
\* files are made only if files are stored, says nothing new of the command line.
LEMMA RunningCommand ==
    ASSUME CommandInv, NEW p \in Benchmarkers, line' = line,
           task[p].pc \notin BeforeSolvers, task'[p].pc \notin BeforeSolvers,
           task'[p].pc \in {"path", "open", "write"} => Stores(p)
    PROVE  CommandOf(p)'
  BY LineFixed DEF CommandInv, CommandOf, BeforeSolvers

\* A benchmarker's step keeps the relation of places and command lines.
LEMMA CommandStep ==
    ASSUME TypeInv, CommandInv, NEW p \in Benchmarkers, Run!Step(p)
    PROVE  CommandInv'
  <1>1. PICK run : Becomes(p, run)
    BY StepBecomes
  <1>2. /\ line' = line
        /\ \A q \in Benchmarkers : q # p => task'[q] = task[q]
    BY <1>1, OthersStay
  <1>3. ASSUME NEW q \in Benchmarkers, q # p PROVE CommandOf(q)'
    <2>1. task'[q] = task[q] /\ CommandOf(q)
      BY <1>2, <1>3 DEF CommandInv
    <2> QED BY <2>1, <1>2, LineFixed DEF CommandOf
  <1> SUFFICES CommandOf(p)'
    BY <1>3 DEF CommandInv
  <1>4. task[p] \in Task
    BY DEF TypeInv
  <1>5. CASE Run!UsageError(p) \/ Run!Start(p) \/ Run!NoGraph(p) \/ Run!ReadGraph(p) \/ Run!Construct(p)
    BY <1>5, StartCommand
  <1>6. CASE ~(Run!UsageError(p) \/ Run!Start(p) \/ Run!NoGraph(p) \/ Run!ReadGraph(p) \/ Run!Construct(p))
    <2> DEFINE Running == /\ task[p].pc \notin BeforeSolvers /\ task'[p].pc \notin BeforeSolvers
                          /\ task'[p].pc \in {"path", "open", "write"} => Stores(p)
    <2> SUFFICES Running
      BY <1>2, RunningCommand
    <2> USE DEF BeforeSolvers, Run!At
    <2>0. task[p].pc \in {"path", "open", "write"} => Stores(p)
      BY DEF CommandInv, CommandOf
    <2>1. ASSUME NEW place \in Ended \ {"exited"}, Run!Goto(p, place), task[p].pc \notin BeforeSolvers
          PROVE  Running
      <3>1. task'[p] = [task[p] EXCEPT !.pc = place]
        BY <2>1, GotoBecomes, OthersStay
      <3> QED BY <3>1, <2>1, <1>4 DEF Task, Ended
    <2>2. CASE Run!Terminate(p) \/ Run!Done(p) \/ Run!NoDirectory(p) \/ Run!NoModel(p)
      BY <2>1, <2>2 DEF Run!Terminate, Run!AtArgument, Run!Done, Run!NoDirectory, Run!NoModel, Ended
    <2>3. CASE Run!SkipParameter(p)
      <3>1. task'[p] = [task[p] EXCEPT !.argument_count = @ - 1, !.index = @ + 1]
        BY <2>3, SkipBecomes, OthersStay
      <3> QED BY <3>1, <1>4, <2>3 DEF Task, Run!SkipParameter, Run!AtArgument
    <2>4. CASE Run!CreateSolver(p)
      <3>1. task'[p] = [task[p] EXCEPT !.solver = Asked(p, task[p].index),
                                       !.argument_count = IF Run!HasParameter(p) THEN 1 ELSE 0,
                                       !.pc = "solve"]
        BY <2>4, CreateBecomes, OthersStay
      <3> QED BY <3>1, <1>4, <2>4 DEF Task, Run!CreateSolver, Run!AtArgument
    <2>5. CASE Run!Unknown(p)
      <3>1. task'[p] = [task[p] EXCEPT !.index = @ + 1]
        BY <2>5, UnknownBecomes, OthersStay
      <3> QED BY <3>1, <1>4, <2>5 DEF Task, Run!Unknown, Run!AtArgument
    <2>6. CASE Run!Solve(p)
      <3>1. task'[p] = [task[p] EXCEPT !.benchmarked = Append(@, task[p].solver),
                                       !.pc = IF Stores(p) THEN "path" ELSE "evaluate"]
        BY <2>6, SolveBecomes, OthersStay
      <3> QED BY <3>1, <1>4, <2>6 DEF Task, Run!Solve
    <2>7. CASE Run!createOutPathFor(p)
      <3>1. task'[p] = [task[p] EXCEPT !.file = [base |-> Run!options(p)["-o"],
                                                 solver |-> Run!name(task[p].solver),
                                                 number |-> Run!NextNumber(p)],
                                       !.pc = "open"]
        BY <2>7, PathBecomes, OthersStay
      <3> QED BY <3>1, <1>4, <2>0, <2>7 DEF Task, Run!createOutPathFor
    <2>8. CASE Run!OpenFile(p)
      <3>1. task'[p] = [task[p] EXCEPT !.written = 0, !.pc = "write"]
        BY <2>8, OpenBecomes, OthersStay
      <3> QED BY <3>1, <1>4, <2>0, <2>8 DEF Task, Run!OpenFile
    <2>9. CASE Run!WriteSeed(p)
      <3>1. task'[p] = [task[p] EXCEPT !.written = @ + 1]
        BY <2>9, WriteBecomes, OthersStay
      <3> QED BY <3>1, <1>4, <2>0, <2>9 DEF Task, Run!WriteSeed
    <2>12. CASE Run!WritePart(p)
      BY <2>12, <1>4, <2>0, PartBecomes
    <2>10. CASE Run!CloseFile(p)
      <3>1. task'[p] = [task[p] EXCEPT !.kept = @ \cup {[file |-> task[p].file, index |-> task[p].index]},
                                       !.pc = "evaluate"]
        BY <2>10, CloseBecomes, OthersStay
      <3> QED BY <3>1, <1>4, <2>10 DEF Task, Run!CloseFile
    <2>11. CASE Run!Evaluate(p)
      <3>1. task'[p] = [task[p] EXCEPT !.index = @ + 1, !.pc = "loop"]
        BY <2>11, EvaluateBecomes, OthersStay
      <3> QED BY <3>1, <1>4, <2>11 DEF Task, Run!Evaluate
    <2> QED BY <1>6, <2>2, <2>3, <2>4, <2>5, <2>6, <2>7, <2>8, <2>9, <2>10, <2>11, <2>12
            DEF Run!Step
  <1> QED BY <1>5, <1>6

-----------------------------------------------------------------------------
(* The solvers run in the order of the list.                               *)

\* The solvers that a list names are counted argument by argument.
LEMMA RankCounts ==
    ASSUME NEW p, List(p) \in Seq(Argument)
    PROVE  /\ IsFiniteSet(Positions(p))
           /\ Positions(p) \subseteq 1..Len(List(p))
           /\ Len(List(p)) \in Nat
           /\ \A n \in Nat : Rank(p, n) \in Nat /\ Rank(p, n) <= Cardinality(Positions(p))
           /\ Rank(p, 0) = 0
           /\ \A n \in Nat \ {0} : n \notin Positions(p) => Rank(p, n) = Rank(p, n - 1)
           /\ \A n \in Positions(p) : Rank(p, n) = Rank(p, n - 1) + 1
           /\ \A n \in Nat : n >= Len(List(p)) => Rank(p, n) = Cardinality(Positions(p))
  <1> DEFINE UpTo(n) == {j \in Positions(p) : j <= n}
  <1>1. /\ Len(List(p)) \in Nat
        /\ Positions(p) \subseteq 1..Len(List(p))
    BY DEF Positions
  <1>2. IsFiniteSet(Positions(p))
    <2>1. \A n \in Nat : IsFiniteSet(1..n)
      BY FS_Interval
    <2> QED BY <1>1, <2>1, FS_Subset
  <1>3. \A n \in Nat : IsFiniteSet(UpTo(n)) /\ Rank(p, n) = Cardinality(UpTo(n))
    BY <1>2, FS_Subset DEF Rank
  <1>4. \A n \in Nat : Rank(p, n) \in Nat /\ Rank(p, n) <= Cardinality(Positions(p))
    <2> TAKE n \in Nat
    <2>1. UpTo(n) \subseteq Positions(p)
      OBVIOUS
    <2> HIDE DEF UpTo
    <2>2. IsFiniteSet(UpTo(n)) /\ Cardinality(UpTo(n)) <= Cardinality(Positions(p))
      BY <1>2, <2>1, FS_Subset
    <2>3. Cardinality(UpTo(n)) \in Nat
      BY <2>2, FS_CardinalityType
    <2> QED BY <1>3, <2>2, <2>3
  <1>5. Rank(p, 0) = 0
    <2>1. UpTo(0) = {}
      BY <1>1
    <2> QED BY <1>3, <2>1, FS_EmptySet, 0 \in Nat
  <1>6. ASSUME NEW n \in Nat \ {0}, n \notin Positions(p) PROVE Rank(p, n) = Rank(p, n - 1)
    <2>1. UpTo(n) = UpTo(n - 1)
      BY <1>1, <1>6
    <2> QED BY <1>3, <2>1 DEF Rank
  <1>7. ASSUME NEW n \in Positions(p) PROVE Rank(p, n) = Rank(p, n - 1) + 1
    <2>1. n \in Nat /\ n - 1 \in Nat
      BY <1>1
    <2>2. UpTo(n) = UpTo(n - 1) \cup {n} /\ n \notin UpTo(n - 1)
      BY <1>1, <1>7
    <2>3. /\ IsFiniteSet(UpTo(n - 1))
          /\ Rank(p, n) = Cardinality(UpTo(n)) /\ Rank(p, n - 1) = Cardinality(UpTo(n - 1))
      BY <1>3, <2>1
    <2> HIDE DEF UpTo
    <2> QED BY <2>2, <2>3, FS_AddElement
  <1>8. ASSUME NEW n \in Nat, n >= Len(List(p)) PROVE Rank(p, n) = Cardinality(Positions(p))
    <2>1. UpTo(n) = Positions(p)
      BY <1>1, <1>8
    <2> QED BY <1>3, <2>1
  <1> QED BY <1>1, <1>2, <1>4, <1>5, <1>6, <1>7, <1>8

\* Of two solvers, the one that the list names later has the higher rank.
LEMMA RankGrows ==
    ASSUME NEW p, List(p) \in Seq(Argument), NEW i \in Positions(p), NEW j \in Positions(p), i < j
    PROVE  Rank(p, i) < Rank(p, j)
  <1> DEFINE UpTo(n) == {k \in Positions(p) : k <= n}
  <1>1. Positions(p) \subseteq 1..Len(List(p)) /\ Len(List(p)) \in Nat /\ IsFiniteSet(Positions(p))
    BY RankCounts
  <1>2. i \in Nat /\ j \in Nat
    BY <1>1
  <1>3. UpTo(i) \cup {j} \subseteq UpTo(j) /\ j \notin UpTo(i)
    BY <1>1, <1>2
  <1>4. IsFiniteSet(UpTo(i)) /\ IsFiniteSet(UpTo(j))
    BY <1>1, FS_Subset
  <1>5. /\ Cardinality(UpTo(i) \cup {j}) = Cardinality(UpTo(i)) + 1
        /\ Cardinality(UpTo(i)) \in Nat
    BY <1>3, <1>4, FS_AddElement, FS_CardinalityType
  <1>6. Cardinality(UpTo(i) \cup {j}) <= Cardinality(UpTo(j)) /\ Cardinality(UpTo(j)) \in Nat
    BY <1>3, <1>4, FS_Subset, FS_CardinalityType
  <1> HIDE DEF UpTo
  <1>7. Cardinality(UpTo(i)) < Cardinality(UpTo(j))
    BY <1>5, <1>6
  <1> QED BY <1>7 DEF Rank, UpTo

\* The order of what has run is that of the list.
LEMMA AskedInOrder ==
    ASSUME NEW p \in Benchmarkers, List(p) \in Seq(Argument), NEW n \in Nat,
           NEW run \in Seq(Solver), RunUpTo(p, run, n)
    PROVE  /\ IsPrefix(run, AskedFor(p))
           /\ n >= Len(List(p)) => run = AskedFor(p)
  <1> DEFINE all == Cardinality(Positions(p))
  <1>1. run \in Seq(Solver) /\ Len(run) = Rank(p, n)
    BY DEF RunUpTo
  <1>2. Rank(p, n) \in Nat /\ Rank(p, n) <= all /\ all \in Nat
    BY RankCounts, FS_CardinalityType
  <1>3. ASSUME NEW r \in 1..Rank(p, n)
        PROVE  run[r] = Asked(p, CHOOSE i \in Positions(p) : Rank(p, i) = r)
    <2>1. PICK i \in Positions(p) : Rank(p, i) = r /\ run[r] = Asked(p, i)
      BY DEF RunUpTo
    <2>2. \A j \in Positions(p) : Rank(p, j) = r => j = i
      <3>1. Positions(p) \subseteq 1..Len(List(p)) /\ Len(List(p)) \in Nat
        BY RankCounts
      <3>2. ASSUME NEW j \in Positions(p), Rank(p, j) = r, j # i PROVE FALSE
        <4>1. i \in Nat /\ j \in Nat /\ r \in Nat
          BY <3>1, <1>2
        <4>2. i < j \/ j < i
          BY <4>1, <3>2
        <4>3. r < r
          BY <4>2, <2>1, <3>2, RankGrows
        <4> QED BY <4>1, <4>3
      <3> QED BY <3>2
    <2>3. (CHOOSE j \in Positions(p) : Rank(p, j) = r) = i
      BY <2>1, <2>2
    <2> QED BY <2>1, <2>3
  <1>4. /\ AskedFor(p) = [r \in 1..all |-> Asked(p, CHOOSE i \in Positions(p) : Rank(p, i) = r)]
        /\ DOMAIN AskedFor(p) = 1..all
    BY DEF AskedFor
  <1>5. \A r \in 1..Rank(p, n) : r \in 1..all /\ AskedFor(p)[r] = run[r]
    BY <1>2, <1>3, <1>4
  <1>6. Len(AskedFor(p)) = all
    BY <1>2, <1>4
  <1> HIDE DEF all
  <1>7. DOMAIN run = 1..Rank(p, n)
    BY <1>1
  <1>8. IsPrefix(run, AskedFor(p))
    BY <1>1, <1>2, <1>5, <1>6, <1>7 DEF IsPrefix
  <1>9. ASSUME n >= Len(List(p)) PROVE run = AskedFor(p)
    <2>1. Rank(p, n) = all
      BY <1>9, RankCounts DEF all
    <2>2. run = [r \in 1..all |-> run[r]]
      BY <1>1, <1>7, <2>1
    <2>3. \A r \in 1..all : run[r] = Asked(p, CHOOSE i \in Positions(p) : Rank(p, i) = r)
      BY <1>3, <2>1
    <2> QED BY <1>4, <2>2, <2>3
  <1> QED BY <1>8, <1>9

\* The order is one of the process alone.
LEMMA SameOrder ==
    ASSUME line' = line, NEW p
    PROVE  OrderFor(p, task[p])' <=> OrderFor(p, task'[p])
  BY DEF OrderFor, RunUpTo, Rank, Asked, Positions, List, IsNumber

\* The first place in the list is before all solvers.
LEMMA InitOrder == Init => OrderInv
  BY DEF Init, OrderInv, OrderFor, AfterSolve, Run!NewTask

\* An argument that names no solver changes nothing in what has been asked for.
LEMMA RunPassesOver ==
    ASSUME NEW p, List(p) \in Seq(Argument), NEW n \in Nat \ {0}, n \notin Positions(p),
           NEW list, RunUpTo(p, list, n - 1)
    PROVE  RunUpTo(p, list, n)
  <1>1. Rank(p, n) = Rank(p, n - 1)
    BY RankCounts
  <1>2. \A i \in Positions(p) : i <= n - 1 => i <= n
    <2>1. Positions(p) \subseteq 1..Len(List(p)) /\ Len(List(p)) \in Nat
      BY RankCounts
    <2> QED BY <2>1
  <1> QED BY <1>1, <1>2 DEF RunUpTo

\* Construct: no solver is before the first argument.
LEMMA ConstructOrder ==
    ASSUME TypeInv, CommandInv, NEW p \in Benchmarkers, Run!Construct(p)
    PROVE  OrderFor(p, task'[p])
  <1>1. task[p] \in Task /\ task[p].pc = "construct"
    BY DEF TypeInv, Run!Construct, Run!At
  <1>2. /\ task[p].benchmarked = <<>> /\ task[p].index = 1 /\ task[p].argument_count = 0
        /\ List(p) \in Seq(Argument)
    BY <1>1, UsableList DEF CommandInv, CommandOf, BeforeSolvers
  <1> DEFINE place == IF Run!NamesModel(p) THEN "loop" ELSE "exited"
  <1>3. Becomes(p, [task[p] EXCEPT !.pc = place])
    BY GotoBecomes DEF Run!Construct, Places, Ended
  <1>4. task'[p] = [task[p] EXCEPT !.pc = place]
    BY <1>3, OthersStay
  <1>5. /\ task'[p].pc \in {"loop", "exited"} /\ task'[p].index = 1 /\ task'[p].argument_count = 0
        /\ task'[p].benchmarked = <<>>
    BY <1>1, <1>2, <1>4 DEF Task
  <1>6. RunUpTo(p, <<>>, 0)
    BY <1>2, RankCounts DEF RunUpTo
  <1> QED BY <1>5, <1>6 DEF OrderFor, AfterSolve

\* The loop over the arguments.
LEMMA LoopOrder ==
    ASSUME TypeInv, CommandInv, OrderInv, NEW p \in Benchmarkers,
           Run!SkipParameter(p) \/ Run!CreateSolver(p) \/ Run!Terminate(p) \/ Run!Unknown(p) \/ Run!Done(p)
    PROVE  OrderFor(p, task'[p])
  <1>1. task[p] \in Task /\ task[p].pc = "loop"
    BY DEF TypeInv, Run!At, Run!AtArgument, Run!SkipParameter, Run!CreateSolver, Run!Terminate,
           Run!Unknown, Run!Done
  <1>2. List(p) \in Seq(Argument) /\ Run!arguments(p) = List(p)
    BY <1>1, UsableList
  <1>3. /\ RunUpTo(p, task[p].benchmarked, task[p].index - 1)
        /\ task[p].argument_count = 1 => IsNumber(p, task[p].index)
    BY <1>1 DEF OrderInv, OrderFor
  <1>4. task[p].index \in Nat \ {0} /\ task[p].argument_count \in {0, 1}
    BY <1>1 DEF Task
  <1>5. CASE Run!SkipParameter(p)
    <2>1. task'[p] = [task[p] EXCEPT !.argument_count = @ - 1, !.index = @ + 1]
      BY <1>5, SkipBecomes, OthersStay
    <2>2. /\ task'[p].pc = "loop" /\ task'[p].argument_count = 0 /\ task'[p].index - 1 = task[p].index
          /\ task'[p].benchmarked = task[p].benchmarked
      BY <2>1, <1>1, <1>4, <1>5 DEF Task, Run!SkipParameter
    <2>3. IsNumber(p, task[p].index)
      BY <1>3, <1>4, <1>5 DEF Run!SkipParameter
    <2>4. task[p].index \notin Positions(p)
      BY <2>3 DEF IsNumber, Positions, Run!Known
    <2>5. RunUpTo(p, task[p].benchmarked, task[p].index)
      BY <2>4, <1>2, <1>3, <1>4, RunPassesOver
    <2> QED BY <2>2, <2>5 DEF OrderFor, AfterSolve
  <1>6. CASE Run!CreateSolver(p)
    <2>1. task'[p] = [task[p] EXCEPT !.solver = Asked(p, task[p].index),
                                     !.argument_count = IF Run!HasParameter(p) THEN 1 ELSE 0,
                                     !.pc = "solve"]
      BY <1>6, CreateBecomes, OthersStay
    <2>2. /\ task'[p].pc = "solve" /\ task'[p].index = task[p].index
          /\ task'[p].benchmarked = task[p].benchmarked
          /\ task'[p].solver = Asked(p, task[p].index)
          /\ task'[p].argument_count = IF Run!HasParameter(p) THEN 1 ELSE 0
      BY <2>1, <1>1 DEF Task
    <2>3. task[p].index \in Positions(p)
      BY <1>2, <1>4, <1>6 DEF Run!CreateSolver, Run!AtArgument, Run!Argument, Positions
    <2>4. task'[p].argument_count = 1 => IsNumber(p, task[p].index + 1)
      BY <2>2, <1>2 DEF Run!HasParameter, Run!NextIsNumber, IsNumber
    <2> QED BY <2>2, <2>3, <2>4, <1>3 DEF OrderFor, AfterSolve
  <1>7. CASE Run!Terminate(p)
    <2>1. task'[p] = [task[p] EXCEPT !.pc = "terminated"]
      BY <1>7, GotoBecomes, OthersStay DEF Run!Terminate, Ended
    <2>2. /\ task'[p].pc = "terminated" /\ task'[p].index = task[p].index
          /\ task'[p].benchmarked = task[p].benchmarked
      BY <2>1, <1>1 DEF Task
    <2> QED BY <2>2, <1>3 DEF OrderFor, AfterSolve
  <1>8. CASE Run!Unknown(p)
    <2>1. task'[p] = [task[p] EXCEPT !.index = @ + 1]
      BY <1>8, UnknownBecomes, OthersStay
    <2>2. /\ task'[p].pc = "loop" /\ task'[p].argument_count = 0 /\ task'[p].index - 1 = task[p].index
          /\ task'[p].benchmarked = task[p].benchmarked
      BY <2>1, <1>1, <1>4, <1>8 DEF Task, Run!Unknown
    <2>3. task[p].index \notin Positions(p)
      BY <1>2, <1>8 DEF Run!Unknown, Run!Argument, Positions
    <2>4. RunUpTo(p, task[p].benchmarked, task[p].index)
      BY <2>3, <1>2, <1>3, <1>4, RunPassesOver
    <2> QED BY <2>2, <2>4 DEF OrderFor, AfterSolve
  <1>9. CASE Run!Done(p)
    <2>1. task'[p] = [task[p] EXCEPT !.pc = "done"]
      BY <1>9, GotoBecomes, OthersStay DEF Run!Done, Ended
    <2>2. task'[p].pc = "done" /\ task'[p].benchmarked = task[p].benchmarked
      BY <2>1, <1>1 DEF Task
    <2>3. task[p].index > Len(List(p)) /\ Len(List(p)) \in Nat
      BY <1>2, <1>9 DEF Run!Done
    <2>4. Rank(p, task[p].index - 1) = Rank(p, Len(List(p)))
      <3>1. task[p].index - 1 \in Nat /\ task[p].index - 1 >= Len(List(p))
        BY <2>3, <1>4
      <3>2. Len(List(p)) >= Len(List(p))
        BY <2>3
      <3> QED BY <3>1, <3>2, <2>3, <1>2, RankCounts
    <2>5. \A i \in Positions(p) : i <= Len(List(p))
      BY DEF Positions
    <2>6. RunUpTo(p, task[p].benchmarked, Len(List(p)))
      BY <2>4, <2>5, <1>3 DEF RunUpTo
    <2> QED BY <2>2, <2>6 DEF OrderFor, AfterSolve
  <1> QED BY <1>5, <1>6, <1>7, <1>8, <1>9

\* Solve: one more solver has run, the one that the list names next.
LEMMA SolveOrder ==
    ASSUME TypeInv, CommandInv, OrderInv, NEW p \in Benchmarkers, Run!Solve(p)
    PROVE  OrderFor(p, task'[p])
  <1>1. task[p] \in Task /\ task[p].pc = "solve"
    BY DEF TypeInv, Run!Solve, Run!At
  <1>2. List(p) \in Seq(Argument)
    BY <1>1, UsableList
  <1>3. /\ RunUpTo(p, task[p].benchmarked, task[p].index - 1)
        /\ task[p].index \in Positions(p) /\ task[p].solver = Asked(p, task[p].index)
        /\ task[p].argument_count = 1 => IsNumber(p, task[p].index + 1)
    BY <1>1 DEF OrderInv, OrderFor
  <1> DEFINE new == Append(task[p].benchmarked, task[p].solver)
             ran == task[p].benchmarked
             n == task[p].index
  <1>4. task'[p] = [task[p] EXCEPT !.benchmarked = new, !.pc = IF Stores(p) THEN "path" ELSE "evaluate"]
    BY SolveBecomes, OthersStay
  <1>5. /\ task'[p].pc \in {"path", "evaluate"} /\ task'[p].index = n
        /\ task'[p].argument_count = task[p].argument_count /\ task'[p].benchmarked = new
    BY <1>1, <1>4 DEF Task
  <1>6. ran \in Seq(Solver) /\ task[p].solver \in Solver /\ n \in Nat \ {0}
    BY <1>1 DEF Task
  <1>7. /\ Len(new) = Len(ran) + 1
        /\ \A r \in 1..Len(ran) : new[r] = ran[r]
        /\ new[Len(ran) + 1] = task[p].solver
        /\ Len(ran) \in Nat
    BY <1>6
  <1>8. Rank(p, n) = Rank(p, n - 1) + 1 /\ Rank(p, n - 1) = Len(ran)
    BY <1>2, <1>3, RankCounts DEF RunUpTo
  <1>9. ASSUME NEW r \in 1..Rank(p, n)
        PROVE  \E i \in Positions(p) : i <= n /\ Rank(p, i) = r /\ new[r] = Asked(p, i)
    <2>1. CASE r \in 1..Len(ran)
      <3>1. PICK i \in Positions(p) : i <= n - 1 /\ Rank(p, i) = r /\ ran[r] = Asked(p, i)
        BY <2>1, <1>3, <1>8 DEF RunUpTo
      <3>2. i <= n
        <4>1. i \in Nat
          BY <1>2, RankCounts
        <4> QED BY <3>1, <4>1, <1>6
      <3> QED BY <3>1, <3>2, <2>1, <1>7
    <2>2. CASE r = Len(ran) + 1
      BY <2>2, <1>3, <1>6, <1>7, <1>8
    <2>3. r \in 1..Len(ran) \/ r = Len(ran) + 1
      <3> HIDE DEF ran, n
      <3> QED BY <1>7, <1>8
    <2> QED BY <2>1, <2>2, <2>3
  <1>10. RunUpTo(p, new, n)
    BY <1>7, <1>8, <1>9 DEF RunUpTo
  <1> QED BY <1>3, <1>5, <1>10 DEF OrderFor, AfterSolve

\* The steps after a solver change nothing in what has run; the last goes to the next argument.
LEMMA ResultOrder ==
    ASSUME TypeInv, OrderInv, NEW p \in Benchmarkers,
           WritesNow(p) \/ Run!NoDirectory(p) \/ Run!NoModel(p) \/ Run!Evaluate(p)
    PROVE  OrderFor(p, task'[p])
  <1> USE DEF Run!At
  <1>1. task[p] \in Task /\ task[p].index \in Nat \ {0}
    BY DEF TypeInv, Task
  <1>2. task[p].pc \in {"path", "open", "write", "evaluate"}
    BY DEF WritesNow, Run!createOutPathFor, Run!OpenFile, Run!WriteSeed, Run!WritePart, Run!CloseFile,
           Run!NoDirectory, Run!NoModel, Run!Evaluate
  <1>3. /\ RunUpTo(p, task[p].benchmarked, task[p].index)
        /\ task[p].argument_count = 1 => IsNumber(p, task[p].index + 1)
    BY <1>2 DEF OrderInv, OrderFor, AfterSolve
  <1> DEFINE Stay == /\ task'[p].index = task[p].index /\ task'[p].benchmarked = task[p].benchmarked
                     /\ task'[p].argument_count = task[p].argument_count
                     /\ task'[p].pc \in AfterSolve \cup {"terminated"}
  <1>4. ASSUME Stay PROVE OrderFor(p, task'[p])
    BY <1>3, <1>4 DEF OrderFor, AfterSolve
  <1>5. CASE Run!createOutPathFor(p)
    <2>1. task'[p] = [task[p] EXCEPT !.file = [base |-> Run!options(p)["-o"],
                                               solver |-> Run!name(task[p].solver),
                                               number |-> Run!NextNumber(p)],
                                     !.pc = "open"]
      BY <1>5, PathBecomes, OthersStay
    <2>2. Stay
      BY <2>1, <1>1 DEF Task, AfterSolve
    <2> QED BY <2>2, <1>4
  <1>6. CASE Run!OpenFile(p)
    <2>1. task'[p] = [task[p] EXCEPT !.written = 0, !.pc = "write"]
      BY <1>6, OpenBecomes, OthersStay
    <2>2. Stay
      BY <2>1, <1>1 DEF Task, AfterSolve
    <2> QED BY <2>2, <1>4
  <1>7. CASE Run!WriteSeed(p)
    <2>1. task'[p] = [task[p] EXCEPT !.written = @ + 1]
      BY <1>7, WriteBecomes, OthersStay
    <2>2. Stay
      BY <2>1, <1>1, <1>7 DEF Task, AfterSolve, Run!WriteSeed
    <2> QED BY <2>2, <1>4
  <1>12. CASE Run!WritePart(p)
    BY <1>12, <1>4, PartBecomes DEF AfterSolve
  <1>8. CASE Run!CloseFile(p)
    <2>1. task'[p] = [task[p] EXCEPT !.kept = @ \cup {[file |-> task[p].file, index |-> task[p].index]},
                                     !.pc = "evaluate"]
      BY <1>8, CloseBecomes, OthersStay
    <2>2. Stay
      BY <2>1, <1>1 DEF Task, AfterSolve
    <2> QED BY <2>2, <1>4
  <1>9. CASE Run!NoDirectory(p)
    <2>1. task'[p] = [task[p] EXCEPT !.pc = "terminated"]
      BY <1>9, GotoBecomes, OthersStay DEF Run!NoDirectory, Ended
    <2>2. Stay
      BY <2>1, <1>1 DEF Task, AfterSolve
    <2> QED BY <2>2, <1>4
  <1>10. CASE Run!NoModel(p)
    <2>1. task'[p] = [task[p] EXCEPT !.pc = "crashed"]
      BY <1>10, GotoBecomes, OthersStay DEF Run!NoModel, Ended
    <2>2. Stay
      BY <2>1, <1>1 DEF Task, AfterSolve
    <2> QED BY <2>2, <1>4
  <1>11. CASE Run!Evaluate(p)
    <2>1. task'[p] = [task[p] EXCEPT !.index = @ + 1, !.pc = "loop"]
      BY <1>11, EvaluateBecomes, OthersStay
    <2>2. /\ task'[p].pc = "loop" /\ task'[p].index = task[p].index + 1
          /\ task'[p].benchmarked = task[p].benchmarked
          /\ task'[p].argument_count = task[p].argument_count
      BY <2>1, <1>1 DEF Task
    <2>3. task'[p].index - 1 = task[p].index
      BY <2>2, <1>1
    <2> QED BY <2>2, <2>3, <1>3 DEF OrderFor, AfterSolve
  <1> QED BY <1>5, <1>6, <1>7, <1>8, <1>9, <1>10, <1>11, <1>12 DEF WritesNow

\* A benchmarker's step keeps the order.
LEMMA OrderStep ==
    ASSUME TypeInv, CommandInv, OrderInv, NEW p \in Benchmarkers, Run!Step(p)
    PROVE  OrderInv'
  <1>1. PICK run : Becomes(p, run)
    BY StepBecomes
  <1>2. line' = line /\ \A q \in Benchmarkers : q # p => task'[q] = task[q]
    BY <1>1, OthersStay
  <1>3. ASSUME NEW place \in {"exited", "graph", "construct"}, Run!Goto(p, place)
        PROVE  OrderFor(p, task'[p])
    <2>1. place \in Places \cup Ended
      BY DEF Places, Ended
    <2>2. task'[p] = [task[p] EXCEPT !.pc = place] /\ task[p] \in Task
      BY <1>3, <2>1, GotoBecomes, OthersStay DEF TypeInv
    <2>3. task'[p].pc = place
      BY <2>2 DEF Task
    <2> QED BY <2>3 DEF OrderFor, AfterSolve
  <1>4. OrderFor(p, task'[p])
    <2>1. CASE Run!UsageError(p) \/ Run!Start(p) \/ Run!NoGraph(p) \/ Run!ReadGraph(p)
      BY <2>1, <1>3 DEF Run!UsageError, Run!Start, Run!NoGraph, Run!ReadGraph
    <2> QED BY <2>1, ConstructOrder, LoopOrder, SolveOrder, ResultOrder DEF Run!Step, WritesNow
  <1>5. \A q \in Benchmarkers : OrderFor(q, task'[q])
    BY <1>2, <1>4 DEF OrderInv
  <1> QED BY <1>2, <1>5, SameOrder DEF OrderInv

-----------------------------------------------------------------------------
(* Every solver has its file.                                              *)

\* Nothing is kept before the first solver.
LEMMA InitCount == Init => CountInv
  <1>1. ASSUME Init, NEW p \in Benchmarkers PROVE task[p].pc = "start" /\ task[p].kept = {}
    BY <1>1 DEF Init, Run!NewTask
  <1> QED BY <1>1, FS_EmptySet DEF CountInv, CountFor, AfterSolve

\* The count is one of the process alone.
LEMMA SameCount ==
    ASSUME line' = line, NEW p
    PROVE  CountFor(p, task[p])' <=> CountFor(p, task'[p])
  BY LineFixed DEF CountFor

\* Steps that leave the lists as they are, in places of the same kind.
LEMMA SameKindCount ==
    ASSUME NEW p, NEW run, NEW new, CountFor(p, run),
           new.kept = run.kept, new.benchmarked = run.benchmarked,
           \/ new.pc = run.pc /\ new.index = run.index
           \/ new.pc \in {"exited", "graph", "construct", "terminated", "done"} /\ run.pc = "loop"
           \/ new.pc \in {"exited", "graph", "construct", "terminated"}
           \/ new.pc = "solve" /\ run.pc = "loop" /\ new.index = run.index
           \/ /\ {new.pc, run.pc} \subseteq {"path", "open", "write"}
              /\ new.index = run.index
           \/ new.pc = "crashed" /\ run.pc = "evaluate" /\ ~Evaluates(p)
    PROVE  CountFor(p, new)
  BY DEF CountFor, AfterSolve

\* Going on to the next argument.
LEMMA NextCount ==
    ASSUME NEW p, NEW run \in Task, NEW new, CountFor(p, run),
           new.kept = run.kept, new.benchmarked = run.benchmarked,
           new.pc = "loop", new.index = run.index + 1,
           run.pc = "loop" \/ (run.pc = "evaluate" /\ Evaluates(p))
    PROVE  CountFor(p, new)
  <1>1. run.index \in Nat \ {0} /\ \A r \in run.kept : r.index \in Nat
    BY DEF Task
  <1>2. ASSUME NEW r \in run.kept PROVE r.index < new.index
    <2>1. r.index <= run.index
      BY <1>1 DEF CountFor
    <2> QED BY <1>1, <2>1
  <1> QED BY <1>2 DEF CountFor, AfterSolve

\* A solver has run, and its file is still to be made if results are stored.
LEMMA SolveCount ==
    ASSUME TypeInv, CommandInv, CountInv, NEW p \in Benchmarkers, Run!Solve(p)
    PROVE  CountFor(p, task'[p])
  <1>1. task[p] \in Task /\ task[p].pc = "solve" /\ CountFor(p, task[p])
    BY DEF TypeInv, Run!Solve, Run!At, CountInv
  <1> DEFINE new == Append(task[p].benchmarked, task[p].solver)
  <1>2. task'[p] = [task[p] EXCEPT !.benchmarked = new, !.pc = IF Stores(p) THEN "path" ELSE "evaluate"]
    BY SolveBecomes, OthersStay
  <1>3. /\ task'[p].pc = IF Stores(p) THEN "path" ELSE "evaluate"
        /\ task'[p].index = task[p].index
        /\ task'[p].kept = task[p].kept /\ task'[p].benchmarked = new
    BY <1>1, <1>2 DEF Task
  <1>4. Len(new) = Len(task[p].benchmarked) + 1 /\ Len(task[p].benchmarked) \in Nat
    BY <1>1 DEF Task
  <1>5. \A r \in task[p].kept : r.index < task[p].index /\ r.index <= task[p].index
    <2>1. \A r \in task[p].kept : r.index \in Nat /\ r.index < task[p].index
      BY <1>1 DEF Task, CountFor
    <2>2. task[p].index \in Nat
      BY <1>1 DEF Task
    <2> QED BY <2>1, <2>2
  <1>6. Started(p) /\ ~Evaluates(p) => Len(new) = 1
    <2>1. Started(p) /\ ~Evaluates(p) => task[p].benchmarked = <<>>
      BY <1>1 DEF CountFor
    <2> QED BY <2>1, <1>4
  <1>7. Started(p) /\ Stores(p) => Cardinality(task[p].kept) = Len(task[p].benchmarked)
    BY <1>1 DEF CountFor
  <1>8. IsFiniteSet(task[p].kept)
    BY <1>1 DEF CountFor
  <1> HIDE DEF new
  <1>9. CASE Stores(p)
    BY <1>3, <1>4, <1>5, <1>6, <1>7, <1>8, <1>9 DEF CountFor, AfterSolve
  <1>10. CASE ~Stores(p)
    BY <1>3, <1>5, <1>6, <1>8, <1>10 DEF CountFor, AfterSolve
  <1> QED BY <1>9, <1>10

\* The file of a solver is finished.
LEMMA CloseCount ==
    ASSUME TypeInv, CountInv, NEW p \in Benchmarkers, Run!CloseFile(p)
    PROVE  CountFor(p, task'[p])
  <1>1. task[p] \in Task /\ task[p].pc = "write" /\ CountFor(p, task[p])
    BY DEF TypeInv, Run!CloseFile, Run!At, CountInv
  <1> DEFINE r0 == [file |-> task[p].file, index |-> task[p].index]
             new == task[p].kept \cup {r0}
  <1>2. task'[p] = [task[p] EXCEPT !.kept = new, !.pc = "evaluate"]
    BY CloseBecomes, OthersStay
  <1>3. /\ task'[p].pc = "evaluate" /\ task'[p].index = task[p].index
        /\ task'[p].kept = new /\ task'[p].benchmarked = task[p].benchmarked
    BY <1>1, <1>2 DEF Task
  <1>4. /\ IsFiniteSet(task[p].kept)
        /\ \A r \in task[p].kept : r.index < task[p].index /\ r.index \in Nat
        /\ task[p].index \in Nat
    BY <1>1 DEF Task, CountFor
  <1>5. r0 \notin task[p].kept
    <2>1. r0.index = task[p].index
      OBVIOUS
    <2> QED BY <2>1, <1>4
  <1>6. IsFiniteSet(new) /\ Cardinality(new) = Cardinality(task[p].kept) + 1
    BY <1>4, <1>5, FS_AddElement
  <1>7. \A r \in new : r.index <= task[p].index
    <2>1. r0.index = task[p].index
      OBVIOUS
    <2> HIDE DEF r0
    <2> QED BY <2>1, <1>4
  <1> HIDE DEF new
  <1> QED BY <1>1, <1>3, <1>6, <1>7 DEF CountFor, AfterSolve

\* A benchmarker's step keeps the counts.
LEMMA CountStep ==
    ASSUME TypeInv, CommandInv, CountInv, NEW p \in Benchmarkers, Run!Step(p)
    PROVE  CountInv'
  <1>1. PICK run : Becomes(p, run)
    BY StepBecomes
  <1>2. line' = line /\ \A q \in Benchmarkers : q # p => task'[q] = task[q]
    BY <1>1, OthersStay
  <1> SUFFICES CountFor(p, task'[p])
    <2>1. ASSUME CountFor(p, task'[p]) PROVE \A q \in Benchmarkers : CountFor(q, task'[q])
      BY <1>2, <2>1 DEF CountInv
    <2> QED BY <2>1, <1>2, SameCount DEF CountInv
  <1> USE DEF Run!At
  <1>3. task[p] \in Task /\ CountFor(p, task[p])
    BY DEF TypeInv, CountInv
  <1>4. ASSUME NEW place \in Places \cup Ended, Run!Goto(p, place)
        PROVE  /\ task'[p].pc = place /\ task'[p].index = task[p].index
               /\ task'[p].kept = task[p].kept /\ task'[p].benchmarked = task[p].benchmarked
    <2>1. task'[p] = [task[p] EXCEPT !.pc = place]
      BY <1>4, GotoBecomes, OthersStay
    <2> QED BY <2>1, <1>3 DEF Task
  <1>5. ASSUME NEW place \in {"exited", "graph", "construct", "terminated"}, Run!Goto(p, place)
        PROVE  CountFor(p, task'[p])
    <2>1. place \in Places \cup Ended
      BY DEF Places, Ended
    <2>2. /\ task'[p].pc = place
          /\ task'[p].kept = task[p].kept /\ task'[p].benchmarked = task[p].benchmarked
      BY <2>1, <1>4, <1>5
    <2> QED BY <2>2, <1>3, SameKindCount
  <1>6. CASE Run!UsageError(p) \/ Run!Start(p) \/ Run!NoGraph(p) \/ Run!ReadGraph(p)
    BY <1>5, <1>6 DEF Run!UsageError, Run!Start, Run!NoGraph, Run!ReadGraph
  <1>7. CASE Run!Terminate(p) \/ Run!NoDirectory(p)
    BY <1>5, <1>7 DEF Run!Terminate, Run!NoDirectory
  <1>8. CASE Run!Construct(p)
    <2>1. CASE ~Run!NamesModel(p)
      BY <2>1, <1>5, <1>8 DEF Run!Construct
    <2>2. CASE Run!NamesModel(p)
      <3>1. /\ task'[p].pc = "loop"
            /\ task'[p].kept = task[p].kept /\ task'[p].benchmarked = task[p].benchmarked
        BY <2>2, <1>4, <1>8 DEF Run!Construct, Places
      <3>2. task[p].kept = {} /\ task[p].benchmarked = <<>>
        BY <1>8 DEF Run!Construct, CommandInv, CommandOf, BeforeSolvers
      <3> QED BY <3>1, <3>2, FS_EmptySet DEF CountFor, AfterSolve
    <2> QED BY <2>1, <2>2
  <1>9. CASE Run!Done(p)
    <2>1. /\ task'[p].pc = "done" /\ task[p].pc = "loop"
          /\ task'[p].kept = task[p].kept /\ task'[p].benchmarked = task[p].benchmarked
      BY <1>4, <1>9 DEF Run!Done, Ended
    <2> QED BY <2>1, <1>3, SameKindCount
  <1>10. CASE Run!NoModel(p)
    <2>1. /\ task'[p].pc = "crashed" /\ task[p].pc = "evaluate" /\ ~Evaluates(p)
          /\ task'[p].kept = task[p].kept /\ task'[p].benchmarked = task[p].benchmarked
      BY <1>4, <1>10 DEF Run!NoModel, Ended, Evaluates
    <2> QED BY <2>1, <1>3, SameKindCount
  <1>11. CASE Run!SkipParameter(p)
    <2>1. task'[p] = [task[p] EXCEPT !.argument_count = @ - 1, !.index = @ + 1]
      BY <1>11, SkipBecomes, OthersStay
    <2>2. /\ task'[p].pc = "loop" /\ task[p].pc = "loop" /\ task'[p].index = task[p].index + 1
          /\ task'[p].kept = task[p].kept /\ task'[p].benchmarked = task[p].benchmarked
      BY <2>1, <1>3, <1>11 DEF Task, Run!SkipParameter, Run!AtArgument
    <2> QED BY <2>2, <1>3, NextCount
  <1>12. CASE Run!Unknown(p)
    <2>1. task'[p] = [task[p] EXCEPT !.index = @ + 1]
      BY <1>12, UnknownBecomes, OthersStay
    <2>2. /\ task'[p].pc = "loop" /\ task[p].pc = "loop" /\ task'[p].index = task[p].index + 1
          /\ task'[p].kept = task[p].kept /\ task'[p].benchmarked = task[p].benchmarked
      BY <2>1, <1>3, <1>12 DEF Task, Run!Unknown, Run!AtArgument
    <2> QED BY <2>2, <1>3, NextCount
  <1>13. CASE Run!Evaluate(p)
    <2>1. task'[p] = [task[p] EXCEPT !.index = @ + 1, !.pc = "loop"]
      BY <1>13, EvaluateBecomes, OthersStay
    <2>2. /\ task'[p].pc = "loop" /\ task[p].pc = "evaluate" /\ task'[p].index = task[p].index + 1
          /\ task'[p].kept = task[p].kept /\ task'[p].benchmarked = task[p].benchmarked
          /\ Evaluates(p)
      BY <2>1, <1>3, <1>13 DEF Task, Run!Evaluate, Evaluates
    <2> QED BY <2>2, <1>3, NextCount
  <1>14. CASE Run!CreateSolver(p)
    <2>1. task'[p] = [task[p] EXCEPT !.solver = Asked(p, task[p].index),
                                     !.argument_count = IF Run!HasParameter(p) THEN 1 ELSE 0,
                                     !.pc = "solve"]
      BY <1>14, CreateBecomes, OthersStay
    <2>2. /\ task'[p].pc = "solve" /\ task[p].pc = "loop" /\ task'[p].index = task[p].index
          /\ task'[p].kept = task[p].kept /\ task'[p].benchmarked = task[p].benchmarked
      BY <2>1, <1>3, <1>14 DEF Task, Run!CreateSolver, Run!AtArgument
    <2> QED BY <2>2, <1>3, SameKindCount
  <1>15. CASE Run!Solve(p)
    BY <1>15, SolveCount
  <1>16. CASE Run!createOutPathFor(p)
    <2>1. task'[p] = [task[p] EXCEPT !.file = [base |-> Run!options(p)["-o"],
                                               solver |-> Run!name(task[p].solver),
                                               number |-> Run!NextNumber(p)],
                                     !.pc = "open"]
      BY <1>16, PathBecomes, OthersStay
    <2>2. /\ task'[p].pc = "open" /\ task[p].pc = "path" /\ task'[p].index = task[p].index
          /\ task'[p].kept = task[p].kept /\ task'[p].benchmarked = task[p].benchmarked
      BY <2>1, <1>3, <1>16 DEF Task, Run!createOutPathFor
    <2> QED BY <2>2, <1>3, SameKindCount
  <1>17. CASE Run!OpenFile(p)
    <2>1. task'[p] = [task[p] EXCEPT !.written = 0, !.pc = "write"]
      BY <1>17, OpenBecomes, OthersStay
    <2>2. /\ task'[p].pc = "write" /\ task[p].pc = "open" /\ task'[p].index = task[p].index
          /\ task'[p].kept = task[p].kept /\ task'[p].benchmarked = task[p].benchmarked
      BY <2>1, <1>3, <1>17 DEF Task, Run!OpenFile
    <2> QED BY <2>2, <1>3, SameKindCount
  <1>18. CASE Run!WriteSeed(p)
    <2>1. task'[p] = [task[p] EXCEPT !.written = @ + 1]
      BY <1>18, WriteBecomes, OthersStay
    <2>2. /\ task'[p].pc = task[p].pc /\ task'[p].index = task[p].index
          /\ task'[p].kept = task[p].kept /\ task'[p].benchmarked = task[p].benchmarked
      BY <2>1, <1>3 DEF Task
    <2> QED BY <2>2, <1>3, SameKindCount
  <1>19. CASE Run!CloseFile(p)
    BY <1>19, CloseCount
  <1>20. CASE Run!WritePart(p)
    BY <1>20, <1>3, PartBecomes, SameKindCount
  <1> QED BY <1>6, <1>7, <1>8, <1>9, <1>10, <1>11, <1>12, <1>13, <1>14, <1>15, <1>16, <1>17, <1>18, <1>19,
             <1>20
          DEF Run!Step

-----------------------------------------------------------------------------
(* The numbers of the files.                                               *)

\* Directories only grow, by one file at a time.
LEMMA CountGrows ==
    ASSUME NEW names, IsFiniteSet(names), NEW new
    PROVE  /\ \A f : CountIn(names, f) \in Nat
           /\ \A f : CountIn(names, f) <= CountIn(names \cup {new}, f)
           /\ \A f : CountIn(names \cup {new}, f) \in Nat
           /\ new \notin names => CountIn(names \cup {new}, new) = CountIn(names, new) + 1
  <1> DEFINE Of(ns, f) == {g \in ns : g.base = f.base /\ g.solver = f.solver}
  <1>1. IsFiniteSet(names \cup {new})
    BY FS_AddElement
  <1>2. \A f : IsFiniteSet(Of(names, f)) /\ IsFiniteSet(Of(names \cup {new}, f))
    <2>1. \A f : Of(names, f) \subseteq names /\ Of(names \cup {new}, f) \subseteq names \cup {new}
      OBVIOUS
    <2> HIDE DEF Of
    <2> QED BY <1>1, <2>1, FS_Subset
  <1>3. \A f : Of(names, f) \subseteq Of(names \cup {new}, f)
    OBVIOUS
  <1>4. new \notin names => Of(names \cup {new}, new) = Of(names, new) \cup {new} /\ new \notin Of(names, new)
    OBVIOUS
  <1>5. \A ns, f : CountIn(ns, f) = Cardinality(Of(ns, f))
    BY DEF CountIn
  <1> HIDE DEF Of
  <1>6. \A f : CountIn(names, f) \in Nat /\ CountIn(names \cup {new}, f) \in Nat
    BY <1>2, <1>5, FS_CardinalityType
  <1>7. \A f : CountIn(names, f) <= CountIn(names \cup {new}, f)
    BY <1>2, <1>3, <1>5, FS_Subset
  <1>8. new \notin names => CountIn(names \cup {new}, new) = CountIn(names, new) + 1
    BY <1>2, <1>4, <1>5, FS_AddElement
  <1> QED BY <1>6, <1>7, <1>8

\* The files that a scenario starts with are numbered.
LEMMA InitFile == Init => FileInv
  <1> SUFFICES ASSUME NEW s \in Scenarios, Init, files = s.files, before = s.files
               PROVE  FileInv
    BY DEF Init
  <1>1. CountedFrom1(files)
    BY ScenarioAssumption
  <1>2. \A f \in DOMAIN files : f.number \in 1..CountIn(DOMAIN files, f)
    BY <1>1 DEF CountedFrom1, CountIn
  <1>3. \A f \in DOMAIN files : CountIn(DOMAIN files, f) \in Nat
    BY <1>1, CountGrows DEF CountedFrom1
  <1>4. Numbered(DOMAIN files)
    BY <1>2, <1>3 DEF Numbered
  <1>5. \A p \in Benchmarkers : task[p].pc = "start"
    BY DEF Init, Run!NewTask
  <1> QED BY <1>4, <1>5 DEF FileInv, FileFor

\* The next number is above those of all files, so that the path is new.
LEMMA PathIsNew ==
    ASSUME TypeInv, FileInv, NEW p \in Benchmarkers, Run!createOutPathFor(p)
    PROVE  /\ task'[p].pc = "open" /\ task'[p].file \notin DOMAIN files
           /\ FileFor(task'[p], DOMAIN files)
           /\ task'[p].kept = task[p].kept
  <1> DEFINE file == [base |-> Run!options(p)["-o"], solver |-> Run!name(task[p].solver),
                      number |-> Run!NextNumber(p)]
  <1>1. task'[p] = [task[p] EXCEPT !.file = file, !.pc = "open"] /\ task[p] \in Task
    BY PathBecomes, OthersStay DEF TypeInv
  <1>2. task'[p].pc = "open" /\ task'[p].file = file /\ task'[p].kept = task[p].kept
    BY <1>1 DEF Task
  <1>3. Run!NextNumber(p) = CountIn(DOMAIN files, file) + 1
    BY SameCardinality DEF Run!NextNumber, Run!FilesOf, CountIn
  <1>4. CountIn(DOMAIN files, file) \in Nat
    BY CountGrows DEF TypeInv
  <1>5. file.number = CountIn(DOMAIN files, file) + 1
    BY <1>3
  <1> HIDE DEF file
  <1>6. file \notin DOMAIN files
    BY <1>4, <1>5 DEF FileInv, Numbered
  <1>7. file \notin DOMAIN before
    BY <1>6 DEF FileInv
  <1> QED BY <1>2, <1>4, <1>5, <1>6, <1>7 DEF FileFor

\* Creating a file keeps the numbers.
LEMMA OpenIsNumbered ==
    ASSUME TypeInv, FileInv, NEW p \in Benchmarkers, Run!OpenFile(p)
    PROVE  /\ DOMAIN files' = DOMAIN files \cup {task[p].file}
           /\ Numbered(DOMAIN files')
           /\ \A f \in DOMAIN files : CountIn(DOMAIN files, f) <= CountIn(DOMAIN files', f)
           /\ \A f \in DOMAIN files : f # task[p].file => files'[f] = files[f]
  <1> DEFINE file == task[p].file
             names == DOMAIN files
  <1>1. DOMAIN files' = names \cup {file} /\ \A f \in DOMAIN files : f # file => files'[f] = files[f]
    BY DEF Run!OpenFile
  <1>2. /\ \A f : CountIn(names, f) \in Nat /\ CountIn(names \cup {file}, f) \in Nat
        /\ \A f : CountIn(names, f) <= CountIn(names \cup {file}, f)
        /\ file \notin names => CountIn(names \cup {file}, file) = CountIn(names, file) + 1
    BY CountGrows DEF TypeInv
  <1>3. file.number \in 1..(CountIn(names, file) + 1)
    BY DEF FileInv, FileFor, Run!OpenFile, Run!At
  <1>4. \A f \in names : f.number \in Nat /\ f.number <= CountIn(names, f)
    BY DEF TypeInv, FileInv, Numbered
  <1> HIDE DEF file, names
  <1>5. ASSUME NEW f \in names PROVE f.number <= CountIn(names \cup {file}, f)
    BY <1>2, <1>4
  <1>6. ASSUME file \notin names PROVE file.number <= CountIn(names \cup {file}, file)
    BY <1>2, <1>3, <1>6
  <1>7. Numbered(names \cup {file})
    BY <1>5, <1>6 DEF Numbered
  <1> QED BY <1>1, <1>2, <1>7 DEF names, file

\* What is kept of the steps that make no file, and of the one that finishes one.
LEMMA NoNewFile ==
    ASSUME TypeInv, CommandInv, NEW p \in Benchmarkers, Run!Step(p),
           ~Run!createOutPathFor(p), ~Run!OpenFile(p), ~Run!WriteSeed(p), ~Run!WritePart(p)
    PROVE  files' = files /\ task'[p].pc \notin {"open", "write"}
  <1>1. CASE Run!CloseFile(p)
    <2>1. /\ task'[p] = [task[p] EXCEPT !.kept = @ \cup {[file |-> task[p].file, index |-> task[p].index]},
                                        !.pc = "evaluate"]
          /\ task[p] \in Task /\ files' = files
      BY <1>1, CloseBecomes, OthersStay DEF TypeInv
    <2> QED BY <2>1 DEF Task
  <1>2. CASE ~Run!CloseFile(p)
    BY <1>2, QuietStep DEF WritesNow
  <1> QED BY <1>1, <1>2

\* A benchmarker's step keeps the numbers.
LEMMA FileStep ==
    ASSUME TypeInv, CommandInv, FileInv, NEW p \in Benchmarkers, BenchmarkerStep(p)
    PROVE  FileInv'
  <1> USE DEF BenchmarkerStep
  <1>1. PICK run : Becomes(p, run)
    BY StepBecomes
  <1>2. /\ before' = before
        /\ \A q \in Benchmarkers : q # p => task'[q] = task[q]
    BY <1>1, OthersStay DEF Record
  <1> SUFFICES /\ Numbered(DOMAIN files')
               /\ \A f \in DOMAIN before : f \in DOMAIN files' /\ files'[f] = before[f]
               /\ \A q \in Benchmarkers : FileFor(task'[q], DOMAIN files')
    <2>1. ASSUME \A q \in Benchmarkers : FileFor(task'[q], DOMAIN files')
          PROVE  (\A q \in Benchmarkers : FileFor(task[q], DOMAIN files))'
      BY <2>1, <1>2 DEF FileFor, CountIn
    <2>2. Numbered(DOMAIN files') => Numbered(DOMAIN files)'
      BY DEF Numbered, CountIn
    <2> QED BY <2>1, <2>2, <1>2 DEF FileInv
  <1>3. CASE Run!createOutPathFor(p)
    <2>1. files' = files
      BY <1>3, PathBecomes
    <2>2. FileFor(task'[p], DOMAIN files)
      BY <1>3, PathIsNew
    <2> QED BY <2>1, <2>2, <1>2 DEF FileInv
  <1>4. CASE Run!OpenFile(p)
    <2>1. /\ DOMAIN files' = DOMAIN files \cup {task[p].file} /\ Numbered(DOMAIN files')
          /\ \A f \in DOMAIN files : f # task[p].file => files'[f] = files[f]
      BY <1>4, OpenIsNumbered
    <2>2. task[p].file \notin DOMAIN before
      BY <1>4 DEF FileInv, FileFor, Run!OpenFile, Run!At
    <2>3. /\ \A f : CountIn(DOMAIN files, f) \in Nat /\ CountIn(DOMAIN files', f) \in Nat
          /\ \A f : CountIn(DOMAIN files, f) <= CountIn(DOMAIN files', f)
      BY <2>1, CountGrows DEF TypeInv
    <2>4. ASSUME NEW q \in Benchmarkers, q # p PROVE FileFor(task'[q], DOMAIN files')
      <3>1. task'[q] = task[q] /\ FileFor(task[q], DOMAIN files)
        BY <1>2, <2>4 DEF FileInv
      <3>2. task[q].file.number \in 1..(CountIn(DOMAIN files, task[q].file) + 1)
               => task[q].file.number \in 1..(CountIn(DOMAIN files', task[q].file) + 1)
        BY <2>3
      <3> QED BY <3>1, <3>2, <2>1 DEF FileFor
    <2>5. FileFor(task'[p], DOMAIN files')
      <3>1. task'[p] = [task[p] EXCEPT !.written = 0, !.pc = "write"] /\ task[p] \in Task
        BY <1>4, OpenBecomes, OthersStay DEF TypeInv
      <3>2. task'[p].pc = "write" /\ task'[p].file = task[p].file
        BY <3>1 DEF Task
      <3> QED BY <3>2, <2>1, <2>2 DEF FileFor
    <2> QED BY <2>1, <2>2, <2>4, <2>5 DEF FileInv
  <1>5. CASE Run!WriteSeed(p)
    <2>1. DOMAIN files' = DOMAIN files /\ \A f \in DOMAIN files : f # task[p].file => files'[f] = files[f]
      BY <1>5, WriteTypes
    <2>2. task[p].pc = "write" /\ FileFor(task[p], DOMAIN files)
      BY <1>5 DEF FileInv, Run!WriteSeed, Run!At
    <2>3. task'[p] = [task[p] EXCEPT !.written = @ + 1] /\ task[p] \in Task
      BY <1>5, WriteBecomes, OthersStay DEF TypeInv
    <2>4. task'[p].pc = task[p].pc /\ task'[p].file = task[p].file
      BY <2>3 DEF Task
    <2>5. FileFor(task'[p], DOMAIN files)
      BY <2>2, <2>4 DEF FileFor
    <2> QED BY <2>1, <2>2, <2>5, <1>2 DEF FileInv, FileFor
  <1>6. CASE Run!WritePart(p)
    <2>1. DOMAIN files' = DOMAIN files /\ \A f \in DOMAIN files : f # task[p].file => files'[f] = files[f]
      BY <1>6, PartTypes
    <2>2. task[p].pc = "write" /\ task' = task
      BY <1>6, PartBecomes
    <2> QED BY <2>1, <2>2 DEF FileInv, FileFor
  <1>7. CASE ~Run!createOutPathFor(p) /\ ~Run!OpenFile(p) /\ ~Run!WriteSeed(p) /\ ~Run!WritePart(p)
    <2>1. files' = files /\ task'[p].pc \notin {"open", "write"}
      BY <1>7, NoNewFile
    <2> QED BY <2>1, <1>2 DEF FileInv, FileFor
  <1> QED BY <1>3, <1>4, <1>5, <1>6, <1>7

-----------------------------------------------------------------------------
(* A file has one writer, unless it is raced for.                          *)

\* Nobody has chosen a file in the beginning.
LEMMA InitWriter == Init => WriterInv
  <1>1. ASSUME Init, NEW p \in Benchmarkers PROVE task[p].pc = "start" /\ task[p].kept = {}
    BY <1>1 DEF Init, Run!NewTask
  <1> QED BY <1>1 DEF WriterInv, OneHolder, WrittenIsOwn, KeptIsOwn, Holds

\* Whose lines a file has depends on the state of its writer alone.
LEMMA SameWriting ==
    ASSUME line' = line,
           \A q \in Benchmarkers : task'[q].pc = "write" /\ task'[q].file \notin raced' =>
               IsWrittenBy(q, task'[q], files'[task'[q].file])
    PROVE  WrittenIsOwn'
  <1>1. \A q : Run!options(q)' = Run!options(q)
    BY LineFixed
  <1> QED BY <1>1 DEF WrittenIsOwn, IsWrittenBy, LinesBy

\* What the lines of a writer are, one by one.
LEMMA WrittenLines ==
    ASSUME NEW p \in Benchmarkers, NEW run \in Task, NEW lines, IsWrittenBy(p, run, lines)
    PROVE  /\ Len(lines) \in {run.written, run.written + 1}
           /\ DOMAIN lines = 1..Len(lines)
           /\ \A i \in 1..run.written : lines[i] = Run!Seed(p, run.index, i)
           /\ Len(lines) = run.written => lines = LinesBy(p, run)
           /\ Len(lines) = run.written + 1 =>
                 lines[run.written + 1] = Run!Part(p, run.index, run.written + 1)
  <1> DEFINE n == run.written
             own == LinesBy(p, run)
             part == Run!Part(p, run.index, n + 1)
  <1>1. n \in Nat
    BY DEF Task
  <1>2. /\ own \in Seq({Run!Seed(p, run.index, i) : i \in 1..n}) /\ Len(own) = n
        /\ \A i \in 1..n : own[i] = Run!Seed(p, run.index, i)
    BY <1>1 DEF LinesBy
  <1>3. CASE lines = own
    BY <1>1, <1>2, <1>3
  <1>4. CASE lines = Append(own, part)
    <2> HIDE DEF own, n, part
    <2>1. /\ Len(lines) = n + 1 /\ DOMAIN lines = 1..(n + 1) /\ lines[n + 1] = part
          /\ \A i \in 1..n : lines[i] = own[i]
      BY <1>1, <1>2, <1>4
    <2>2. n + 1 # n
      BY <1>1
    <2> QED BY <2>1, <2>2, <1>2 DEF n, part
  <1> QED BY <1>3, <1>4 DEF IsWrittenBy

\* Two processes that have chosen one file before either has created it are recorded.
LEMMA ChosenTwice ==
    ASSUME CommandInv', Record, NEW p \in Benchmarkers, NEW q \in Benchmarkers, p # q,
           task'[p].pc = "open", task'[q].pc = "open", task'[p].file = task'[q].file
    PROVE  task'[p].file \in raced'
  <1>1. p \in DOMAIN line' /\ q \in DOMAIN line'
    BY DEF CommandInv, CommandOf, Started
  <1>2. p \in Choosers(task[p].file)' /\ q \in Choosers(task[p].file)'
    BY <1>1 DEF Choosers
  <1>3. task'[p].file \in RacedNow'
    BY <1>2 DEF RacedNow
  <1> QED BY <1>3 DEF Record

\* Choosing a path.
LEMMA PathWriter ==
    ASSUME TypeInv, CommandInv, CommandInv', FileInv, WriterInv, NEW p \in Benchmarkers,
           Run!createOutPathFor(p), Record
    PROVE  WriterInv'
  <1>1. /\ task'[p].pc = "open" /\ task'[p].file \notin DOMAIN files
        /\ task'[p].kept = task[p].kept
    BY PathIsNew
  <1>2. PICK run : Becomes(p, run)
    BY PathBecomes
  <1>3. line' = line /\ \A q \in Benchmarkers : q # p => task'[q] = task[q]
    BY <1>2, OthersStay
  <1>4. files' = files /\ raced \subseteq raced' /\ \A q : Run!options(q)' = Run!options(q)
    BY <1>3, PathBecomes, LineFixed DEF Record
  <1>5. ASSUME NEW q \in Benchmarkers, q # p, task[q].pc \in {"open", "write"}, task[q].file = task'[p].file
        PROVE  task'[p].file \in raced'
    <2>1. task[q].pc # "write"
      BY <1>1, <1>5 DEF FileInv, FileFor
    <2>2. task'[q].pc = "open" /\ task'[q].file = task'[p].file
      BY <2>1, <1>3, <1>5
    <2> QED BY <2>2, <1>1, <1>5, ChosenTwice
  <1>6. OneHolder'
    BY <1>3, <1>4, <1>5 DEF OneHolder, WriterInv, Holds
  <1>7. WrittenIsOwn'
    BY <1>1, <1>3, <1>4, SameWriting DEF WrittenIsOwn, WriterInv
  <1>8. KeptIsOwn'
    <2> SUFFICES ASSUME NEW q \in Benchmarkers, NEW r \in task'[q].kept
                 PROVE  /\ r.file \in DOMAIN files
                        /\ r.file \notin raced' =>
                              /\ files[r.file] = [j \in 1..Run!options(q)["-k"] |-> Run!Seed(q, r.index, j)]
                              /\ \A x \in Benchmarkers : ~(task'[x].pc \in {"open", "write"} /\ task'[x].file = r.file)
      BY <1>4 DEF KeptIsOwn, Holds
    <2>1. r \in task[q].kept
      BY <1>1, <1>3
    <2> QED BY <2>1, <1>1, <1>3, <1>4 DEF WriterInv, KeptIsOwn, Holds
  <1> QED BY <1>6, <1>7, <1>8 DEF WriterInv

\* A step of the writer of a file touches no other file: what holds of the holders and of the
\* results that are kept stays so.
LEMMA HolderStep ==
    ASSUME TypeInv, WriterInv, NEW p \in Benchmarkers, Holds(p, task[p].file),
           \A q \in Benchmarkers :
              /\ task'[q].file = task[q].file /\ task'[q].kept = task[q].kept
              /\ task'[q].pc \in {"open", "write"} <=> task[q].pc \in {"open", "write"},
           line' = line, raced \subseteq raced', DOMAIN files \subseteq DOMAIN files',
           \A f \in DOMAIN files : f # task[p].file => files'[f] = files[f]
    PROVE  OneHolder' /\ KeptIsOwn'
  <1>1. \A q : Run!options(q)' = Run!options(q)
    BY LineFixed
  <1>2. \A q \in Benchmarkers : \A f :
           (task'[q].pc \in {"open", "write"} /\ task'[q].file = f) <=> Holds(q, f)
    BY DEF Holds
  <1>3. OneHolder'
    BY DEF OneHolder, WriterInv, Holds
  <1>4. KeptIsOwn'
    <2> SUFFICES ASSUME NEW q \in Benchmarkers, NEW r \in task'[q].kept
                 PROVE  /\ r.file \in DOMAIN files'
                        /\ r.file \notin raced' =>
                              /\ files'[r.file] = [j \in 1..Run!options(q)["-k"] |-> Run!Seed(q, r.index, j)]
                              /\ \A x \in Benchmarkers : ~(task'[x].pc \in {"open", "write"} /\ task'[x].file = r.file)
      BY <1>1 DEF KeptIsOwn, Holds
    <2>1. /\ r.file \in DOMAIN files
          /\ r.file \notin raced =>
                /\ files[r.file] = [j \in 1..Run!options(q)["-k"] |-> Run!Seed(q, r.index, j)]
                /\ \A x \in Benchmarkers : ~Holds(x, r.file)
      BY DEF WriterInv, KeptIsOwn
    <2>2. r.file \notin raced => r.file # task[p].file
      BY <2>1
    <2> QED BY <2>1, <2>2, <1>2
  <1> QED BY <1>3, <1>4

\* Creating the file.
LEMMA OpenWriter ==
    ASSUME TypeInv, CommandInv, FileInv, WriterInv, NEW p \in Benchmarkers, Run!OpenFile(p), Record
    PROVE  WriterInv'
  <1>1. /\ line' = line /\ \A q \in Benchmarkers : q # p => task'[q] = task[q]
        /\ task'[p] = [task[p] EXCEPT !.written = 0, !.pc = "write"] /\ task[p] \in Task
    BY OpenBecomes, OthersStay DEF TypeInv
  <1>2. task[p].pc = "open"
    BY DEF Run!OpenFile, Run!At
  <1>3. /\ task'[p].pc = "write" /\ task'[p].written = 0
        /\ task'[p].file = task[p].file /\ task'[p].kept = task[p].kept
    BY <1>1 DEF Task
  <1>4. /\ DOMAIN files' = DOMAIN files \cup {task[p].file} /\ files'[task[p].file] = <<>>
        /\ \A f \in DOMAIN files : f # task[p].file => files'[f] = files[f]
    BY DEF Run!OpenFile
  <1>5. raced \subseteq raced'
    BY DEF Record
  <1>6. OneHolder' /\ KeptIsOwn'
    <2>1. \A q \in Benchmarkers :
             /\ task'[q].file = task[q].file /\ task'[q].kept = task[q].kept
             /\ task'[q].pc \in {"open", "write"} <=> task[q].pc \in {"open", "write"}
      BY <1>1, <1>2, <1>3
    <2> QED BY <2>1, <1>1, <1>2, <1>4, <1>5, HolderStep DEF Holds
  <1>7. WrittenIsOwn'
    <2> SUFFICES ASSUME NEW q \in Benchmarkers, task'[q].pc = "write", task'[q].file \notin raced'
                 PROVE  IsWrittenBy(q, task'[q], files'[task'[q].file])
      BY <1>1, SameWriting
    <2>1. CASE q = p
      <3>1. [j \in 1..0 |-> Run!Seed(q, task'[q].index, j)] = <<>>
        OBVIOUS
      <3> QED BY <2>1, <3>1, <1>3, <1>4 DEF IsWrittenBy, LinesBy
    <2>2. CASE q # p
      <3>1. task'[q] = task[q]
        BY <2>2, <1>1
      <3>2. task[q].file # task[p].file
        BY <3>1, <2>2, <1>2, <1>5 DEF WriterInv, OneHolder, Holds
      <3>3. task[q].file \in DOMAIN files
        BY <3>1 DEF FileInv, FileFor
      <3> QED BY <3>1, <3>2, <3>3, <1>4, <1>5 DEF WriterInv, WrittenIsOwn
    <2> QED BY <2>1, <2>2
  <1> QED BY <1>6, <1>7 DEF WriterInv

\* Writing a line.
LEMMA WriteWriter ==
    ASSUME TypeInv, CommandInv, FileInv, WriterInv, NEW p \in Benchmarkers, Run!WriteSeed(p), Record
    PROVE  WriterInv'
  <1>1. /\ line' = line /\ \A q \in Benchmarkers : q # p => task'[q] = task[q]
        /\ task'[p] = [task[p] EXCEPT !.written = @ + 1] /\ task[p] \in Task
    BY WriteBecomes, OthersStay DEF TypeInv
  <1>2. /\ task[p].pc = "write" /\ task'[p].pc = "write" /\ task'[p].written = task[p].written + 1
        /\ task'[p].file = task[p].file /\ task'[p].kept = task[p].kept /\ task'[p].index = task[p].index
        /\ task[p].written \in Nat
    BY <1>1 DEF Task, Run!WriteSeed, Run!At
  <1>3. /\ DOMAIN files' = DOMAIN files /\ \A f \in DOMAIN files : f # task[p].file => files'[f] = files[f]
        /\ task[p].file \in DOMAIN files
    BY <1>2, WriteTypes DEF FileInv, FileFor
  <1>4. raced \subseteq raced'
    BY DEF Record
  <1>5. OneHolder' /\ KeptIsOwn'
    <2>1. \A q \in Benchmarkers :
             /\ task'[q].file = task[q].file /\ task'[q].kept = task[q].kept
             /\ task'[q].pc \in {"open", "write"} <=> task[q].pc \in {"open", "write"}
      BY <1>1, <1>2
    <2> QED BY <2>1, <1>1, <1>2, <1>3, <1>4, HolderStep DEF Holds
  <1>6. ASSUME task[p].file \notin raced PROVE files'[task[p].file] = LinesBy(p, task'[p])
    <2> DEFINE n == task[p].written
               j == n + 1
               text == files[task[p].file]
               reached == IF Len(text) >= j THEN Len(text) ELSE j
    <2>1. /\ n \in Nat /\ Len(text) \in {n, j}
          /\ \A i \in 1..n : text[i] = Run!Seed(p, task[p].index, i)
      BY <1>1, <1>2, <1>6, WrittenLines DEF WriterInv, WrittenIsOwn
    <2>2. files'[task[p].file] = [i \in 1..reached |->
                                     IF i = j THEN Run!Seed(p, task[p].index, j)
                                     ELSE IF i <= Len(text) THEN text[i] ELSE Run!Hole]
      BY <1>3 DEF Run!WriteSeed
    <2> HIDE DEF text, n
    <2>3. reached = j
      BY <2>1
    <2>4. \A i \in 1..j : (IF i = j THEN Run!Seed(p, task[p].index, j)
                           ELSE IF i <= Len(text) THEN text[i] ELSE Run!Hole) = Run!Seed(p, task[p].index, i)
      <3>1. \A i \in 1..j : i = j \/ i \in 1..n
        BY <2>1
      <3>2. \A i \in 1..n : i <= Len(text)
        BY <2>1
      <3> HIDE DEF j
      <3> QED BY <3>1, <3>2, <2>1
    <2> HIDE DEF reached, j
    <2>5. files'[task[p].file] = [i \in 1..j |-> Run!Seed(p, task[p].index, i)]
      BY <2>2, <2>3, <2>4
    <2> QED BY <2>5, <1>2 DEF j, n, LinesBy
  <1>7. WrittenIsOwn'
    <2> SUFFICES ASSUME NEW q \in Benchmarkers, task'[q].pc = "write", task'[q].file \notin raced'
                 PROVE  IsWrittenBy(q, task'[q], files'[task'[q].file])
      BY <1>1, SameWriting
    <2>1. CASE q = p
      BY <2>1, <1>2, <1>4, <1>6 DEF IsWrittenBy
    <2>2. CASE q # p
      <3>1. task'[q] = task[q]
        BY <2>2, <1>1
      <3>2. task[q].file # task[p].file
        BY <3>1, <2>2, <1>2, <1>4 DEF WriterInv, OneHolder, Holds
      <3>3. task[q].file \in DOMAIN files
        BY <3>1 DEF FileInv, FileFor
      <3> QED BY <3>1, <3>2, <3>3, <1>3, <1>4 DEF WriterInv, WrittenIsOwn
    <2> QED BY <2>1, <2>2
  <1> QED BY <1>5, <1>7 DEF WriterInv

\* Writing a part of a line.
LEMMA PartWriter ==
    ASSUME TypeInv, CommandInv, FileInv, WriterInv, NEW p \in Benchmarkers, Run!WritePart(p), Record
    PROVE  WriterInv'
  <1>1. /\ line' = line /\ task' = task /\ task[p].pc = "write" /\ task[p] \in Task
    BY PartBecomes DEF TypeInv, Becomes
  <1>2. /\ DOMAIN files' = DOMAIN files /\ \A f \in DOMAIN files : f # task[p].file => files'[f] = files[f]
        /\ task[p].file \in DOMAIN files
        /\ files'[task[p].file] = Append(files[task[p].file], Run!Part(p, task[p].index, task[p].written + 1))
    BY <1>1, PartTypes DEF FileInv, FileFor
  <1>3. raced \subseteq raced'
    BY DEF Record
  <1>4. OneHolder' /\ KeptIsOwn'
    BY <1>1, <1>2, <1>3, HolderStep DEF Holds
  <1>5. WrittenIsOwn'
    <2> SUFFICES ASSUME NEW q \in Benchmarkers, task[q].pc = "write", task[q].file \notin raced'
                 PROVE  IsWrittenBy(q, task[q], files'[task[q].file])
      BY <1>1, SameWriting
    <2>1. IsWrittenBy(q, task[q], files[task[q].file])
      BY <1>3 DEF WriterInv, WrittenIsOwn
    <2>2. CASE q = p
      <3>1. /\ Len(files[task[p].file]) = task[p].written
            /\ task[p].written < Run!options(p)["-k"] /\ task[p].written \in Nat
        BY <1>1 DEF Run!WritePart, Task
      <3>2. files[task[p].file] = LinesBy(p, task[p])
        BY <2>1, <2>2, <3>1, <1>1, WrittenLines
      <3>3. task[p].written # Run!options(p)["-k"]
        BY <3>1
      <3> QED BY <2>2, <3>2, <3>3, <1>2 DEF IsWrittenBy
    <2>3. CASE q # p
      <3>1. task[q].file # task[p].file
        BY <2>3, <1>1, <1>3 DEF WriterInv, OneHolder, Holds
      <3>2. task[q].file \in DOMAIN files
        BY DEF FileInv, FileFor
      <3> QED BY <2>1, <3>1, <3>2, <1>2
    <2> QED BY <2>2, <2>3
  <1> QED BY <1>4, <1>5 DEF WriterInv

\* Finishing the file.
LEMMA CloseWriter ==
    ASSUME TypeInv, CommandInv, FileInv, WriterInv, NEW p \in Benchmarkers, Run!CloseFile(p), Record
    PROVE  WriterInv'
  <1> DEFINE r0 == [file |-> task[p].file, index |-> task[p].index]
  <1>1. /\ line' = line /\ \A q \in Benchmarkers : q # p => task'[q] = task[q]
        /\ task'[p] = [task[p] EXCEPT !.kept = @ \cup {r0}, !.pc = "evaluate"] /\ task[p] \in Task
        /\ files' = files
    BY CloseBecomes, OthersStay DEF TypeInv
  <1>2. task[p].pc = "write" /\ task[p].written = Run!options(p)["-k"]
    BY DEF Run!CloseFile, Run!At
  <1>3. task'[p].pc = "evaluate" /\ task'[p].kept = task[p].kept \cup {r0}
    BY <1>1 DEF Task
  <1>4. raced \subseteq raced'
    BY DEF Record
  <1>5. \A q : Run!options(q)' = Run!options(q)
    BY <1>1, LineFixed
  <1>6. \A q \in Benchmarkers : \A f :
           task'[q].pc \in {"open", "write"} /\ task'[q].file = f => Holds(q, f)
    BY <1>1, <1>3 DEF Holds
  <1>7. OneHolder'
    BY <1>1, <1>3, <1>4 DEF OneHolder, WriterInv, Holds
  <1>8. WrittenIsOwn'
    <2>1. \A q \in Benchmarkers : task'[q].pc = "write" => q # p /\ task'[q] = task[q]
      BY <1>1, <1>3
    <2> QED BY <2>1, <1>1, <1>4, SameWriting DEF WrittenIsOwn, WriterInv
  <1>9. KeptIsOwn'
    <2> SUFFICES ASSUME NEW q \in Benchmarkers, NEW r \in task'[q].kept
                 PROVE  /\ r.file \in DOMAIN files
                        /\ r.file \notin raced' =>
                              /\ files[r.file] = [j \in 1..Run!options(q)["-k"] |-> Run!Seed(q, r.index, j)]
                              /\ \A x \in Benchmarkers : ~(task'[x].pc \in {"open", "write"} /\ task'[x].file = r.file)
      BY <1>1, <1>5 DEF KeptIsOwn, Holds
    <2>1. CASE r \in task[q].kept
      <3>1. /\ r.file \in DOMAIN files
            /\ r.file \notin raced =>
                  /\ files[r.file] = [j \in 1..Run!options(q)["-k"] |-> Run!Seed(q, r.index, j)]
                  /\ \A x \in Benchmarkers : ~Holds(x, r.file)
        BY <2>1 DEF WriterInv, KeptIsOwn
      <3> QED BY <3>1, <1>4, <1>6
    <2>2. CASE r \notin task[q].kept
      <3>1. q = p /\ r = r0
        BY <2>2, <1>1, <1>3
      <3>2. r.file = task[p].file /\ r.index = task[p].index
        BY <3>1
      <3>3. task[p].file \in DOMAIN files
        BY <1>2 DEF FileInv, FileFor
      <3>4. task[p].file \notin raced =>
               files[task[p].file] = [j \in 1..Run!options(p)["-k"] |-> Run!Seed(p, task[p].index, j)]
        <4>1. ASSUME task[p].file \notin raced PROVE files[task[p].file] = LinesBy(p, task[p])
          BY <1>2, <4>1 DEF WriterInv, WrittenIsOwn, IsWrittenBy
        <4> QED BY <4>1, <1>2 DEF LinesBy
      <3>5. ASSUME task[p].file \notin raced', NEW x \in Benchmarkers,
                   task'[x].pc \in {"open", "write"}, task'[x].file = task[p].file
            PROVE  FALSE
        <4>1. x # p
          BY <3>5, <1>3
        <4>2. Holds(x, task[p].file)
          BY <3>5, <1>6
        <4> QED BY <4>1, <4>2, <3>5, <1>2, <1>4 DEF WriterInv, OneHolder
      <3> QED BY <3>1, <3>2, <3>3, <3>4, <3>5, <1>4
    <2> QED BY <2>1, <2>2
  <1> QED BY <1>7, <1>8, <1>9 DEF WriterInv

\* All other steps.
LEMMA QuietWriter ==
    ASSUME TypeInv, CommandInv, WriterInv, NEW p \in Benchmarkers, Run!Step(p), ~WritesNow(p), Record
    PROVE  WriterInv'
  <1>1. /\ files' = files /\ task'[p].kept = task[p].kept /\ task'[p].pc \notin {"open", "write"}
    BY QuietStep
  <1>2. PICK run : Becomes(p, run)
    BY StepBecomes
  <1>3. line' = line /\ \A q \in Benchmarkers : q # p => task'[q] = task[q]
    BY <1>2, OthersStay
  <1>4. raced \subseteq raced' /\ \A q : Run!options(q)' = Run!options(q)
    BY <1>3, LineFixed DEF Record
  <1>5. OneHolder'
    BY <1>1, <1>3, <1>4 DEF OneHolder, WriterInv, Holds
  <1>6. WrittenIsOwn'
    BY <1>1, <1>3, <1>4, SameWriting DEF WrittenIsOwn, WriterInv
  <1>7. KeptIsOwn'
    <2> SUFFICES ASSUME NEW q \in Benchmarkers, NEW r \in task'[q].kept
                 PROVE  /\ r.file \in DOMAIN files
                        /\ r.file \notin raced' =>
                              /\ files[r.file] = [j \in 1..Run!options(q)["-k"] |-> Run!Seed(q, r.index, j)]
                              /\ \A x \in Benchmarkers : ~(task'[x].pc \in {"open", "write"} /\ task'[x].file = r.file)
      BY <1>1, <1>4 DEF KeptIsOwn, Holds
    <2>1. r \in task[q].kept
      BY <1>1, <1>3
    <2> QED BY <2>1, <1>1, <1>3, <1>4 DEF WriterInv, KeptIsOwn, Holds
  <1> QED BY <1>5, <1>6, <1>7 DEF WriterInv

\* A benchmarker's step keeps the writers apart.
LEMMA WriterStep ==
    ASSUME TypeInv, CommandInv, FileInv, WriterInv, NEW p \in Benchmarkers, BenchmarkerStep(p)
    PROVE  WriterInv'
  <1>1. Run!Step(p) /\ Record
    BY DEF BenchmarkerStep
  <1>2. CommandInv'
    BY <1>1, CommandStep
  <1> QED BY <1>1, <1>2, PathWriter, OpenWriter, WriteWriter, PartWriter, CloseWriter, QuietWriter
         DEF WritesNow

-----------------------------------------------------------------------------
(* What a reader sees.                                                     *)

\* The files of a scenario are those of the beginning.
LEMMA InitOrigin == Init => OriginInv
  BY DEF Init, OriginInv

\* Results are never taken back.
LEMMA KeptGrows ==
    ASSUME TypeInv, CommandInv, NEW p \in Benchmarkers, Run!Step(p)
    PROVE  \A q \in Benchmarkers : task[q].kept \subseteq task'[q].kept
  <1>1. PICK run : Becomes(p, run)
    BY StepBecomes
  <1>2. \A q \in Benchmarkers : q # p => task'[q] = task[q]
    BY <1>1, OthersStay
  <1>3. task[p] \in Task
    BY DEF TypeInv
  <1>4. task[p].kept \subseteq task'[p].kept
    <2>1. CASE ~WritesNow(p)
      BY <2>1, QuietStep
    <2>2. CASE Run!createOutPathFor(p)
      <3>1. task'[p] = [task[p] EXCEPT !.file = [base |-> Run!options(p)["-o"],
                                                 solver |-> Run!name(task[p].solver),
                                                 number |-> Run!NextNumber(p)],
                                       !.pc = "open"]
        BY <2>2, PathBecomes, OthersStay
      <3> QED BY <3>1, <1>3 DEF Task
    <2>3. CASE Run!OpenFile(p)
      <3>1. task'[p] = [task[p] EXCEPT !.written = 0, !.pc = "write"]
        BY <2>3, OpenBecomes, OthersStay
      <3> QED BY <3>1, <1>3 DEF Task
    <2>4. CASE Run!WriteSeed(p)
      <3>1. task'[p] = [task[p] EXCEPT !.written = @ + 1]
        BY <2>4, WriteBecomes, OthersStay
      <3> QED BY <3>1, <1>3 DEF Task
    <2>5. CASE Run!CloseFile(p)
      <3>1. task'[p] = [task[p] EXCEPT !.kept = @ \cup {[file |-> task[p].file, index |-> task[p].index]},
                                       !.pc = "evaluate"]
        BY <2>5, CloseBecomes, OthersStay
      <3> QED BY <3>1, <1>3 DEF Task
    <2>6. CASE Run!WritePart(p)
      BY <2>6, PartBecomes
    <2> QED BY <2>1, <2>2, <2>3, <2>4, <2>5, <2>6 DEF WritesNow
  <1> QED BY <1>2, <1>4

\* Every file is still one of the beginning, one that is written or one that is kept.
LEMMA OriginStep ==
    ASSUME TypeInv, CommandInv, OriginInv, NEW p \in Benchmarkers, BenchmarkerStep(p)
    PROVE  OriginInv'
  <1>1. Run!Step(p) /\ before' = before
    BY DEF BenchmarkerStep, Record
  <1>2. PICK run : Becomes(p, run)
    BY <1>1, StepBecomes
  <1>3. \A q \in Benchmarkers : q # p => task'[q] = task[q]
    BY <1>2, OthersStay
  <1>4. \A q \in Benchmarkers : task[q].kept \subseteq task'[q].kept
    BY <1>1, KeptGrows
  <1> SUFFICES ASSUME NEW f \in DOMAIN files'
               PROVE  \/ f \in DOMAIN before
                      \/ \E q \in Benchmarkers : task'[q].pc = "write" /\ task'[q].file = f
                      \/ \E q \in Benchmarkers : \E r \in task'[q].kept : r.file = f
    BY <1>1 DEF OriginInv
  <1> DEFINE Found == \/ f \in DOMAIN before
                      \/ \E q \in Benchmarkers : task'[q].pc = "write" /\ task'[q].file = f
                      \/ \E q \in Benchmarkers : \E r \in task'[q].kept : r.file = f
  <1>5. ASSUME f \in DOMAIN files, ~(task[p].pc = "write" /\ task[p].file = f) PROVE Found
    BY <1>3, <1>4, <1>5 DEF OriginInv
  <1>6. CASE Run!OpenFile(p)
    <2>1. task'[p] = [task[p] EXCEPT !.written = 0, !.pc = "write"] /\ task[p] \in Task
      BY <1>6, OpenBecomes, OthersStay DEF TypeInv
    <2>2. task'[p].pc = "write" /\ task'[p].file = task[p].file
      BY <2>1 DEF Task
    <2>3. DOMAIN files' = DOMAIN files \cup {task[p].file} /\ task[p].pc = "open"
      BY <1>6 DEF Run!OpenFile, Run!At
    <2> QED BY <2>2, <2>3, <1>5
  <1>7. CASE Run!WriteSeed(p)
    <2>1. task'[p] = [task[p] EXCEPT !.written = @ + 1] /\ task[p] \in Task
      BY <1>7, WriteBecomes, OthersStay DEF TypeInv
    <2>2. task'[p].pc = task[p].pc /\ task'[p].file = task[p].file
      BY <2>1 DEF Task
    <2>3. DOMAIN files' = DOMAIN files
      BY <1>7, WriteTypes
    <2> QED BY <2>2, <2>3, <1>5
  <1>8. CASE Run!CloseFile(p)
    <2> DEFINE r0 == [file |-> task[p].file, index |-> task[p].index]
    <2>1. task'[p] = [task[p] EXCEPT !.kept = @ \cup {r0}, !.pc = "evaluate"] /\ task[p] \in Task
          /\ files' = files
      BY <1>8, CloseBecomes, OthersStay DEF TypeInv
    <2>2. r0 \in task'[p].kept /\ r0.file = task[p].file
      BY <2>1 DEF Task
    <2> QED BY <2>1, <2>2, <1>5
  <1>9. CASE Run!createOutPathFor(p)
    <2>1. files' = files /\ task[p].pc = "path"
      BY <1>9, PathBecomes DEF Run!createOutPathFor, Run!At
    <2> QED BY <2>1, <1>5
  <1>10. CASE ~WritesNow(p)
    <2>1. files' = files /\ task[p].pc # "write"
      BY <1>1, <1>10, QuietStep
    <2> QED BY <2>1, <1>5
  <1>11. CASE Run!WritePart(p)
    <2>1. DOMAIN files' = DOMAIN files /\ task' = task
      BY <1>11, PartBecomes, PartTypes
    <2> QED BY <2>1 DEF OriginInv
  <1> QED BY <1>6, <1>7, <1>8, <1>9, <1>10, <1>11 DEF WritesNow

\* A line that is complete is not torn.
LEMMA SeedIsWhole == \A p, index, j : Run!Seed(p, index, j) \notin Run!TornLines
  BY DEF Run!Seed, Run!TornLines

\* The files that a process has opened stay its own.
LEMMA OutputsGrow ==
    ASSUME TypeInv, CommandInv, NEW p \in Benchmarkers, Run!Step(p)
    PROVE  \A q \in Benchmarkers : Outputs(q) \subseteq Outputs(q)'
  <1>1. PICK run : Becomes(p, run)
    BY StepBecomes
  <1>2. \A q \in Benchmarkers : q # p => task'[q] = task[q]
    BY <1>1, OthersStay
  <1>3. task[p].kept \subseteq task'[p].kept /\ task[p] \in Task
    BY KeptGrows DEF TypeInv
  <1> DEFINE written == [file |-> task[p].file, index |-> task[p].index]
  <1>4. ASSUME task[p].pc = "write" PROVE written \in Outputs(p)'
    <2>1. CASE Run!WriteSeed(p)
      <3>1. task'[p] = [task[p] EXCEPT !.written = @ + 1]
        BY <2>1, WriteBecomes, OthersStay
      <3>2. task'[p].pc = "write" /\ task'[p].file = task[p].file /\ task'[p].index = task[p].index
        BY <1>3, <1>4, <3>1 DEF Task
      <3> QED BY <3>2 DEF Outputs
    <2>2. CASE Run!WritePart(p)
      BY <2>2, <1>4, PartBecomes DEF Outputs
    <2>3. CASE Run!CloseFile(p)
      <3>1. task'[p] = [task[p] EXCEPT !.kept = @ \cup {written}, !.pc = "evaluate"]
        BY <2>3, CloseBecomes, OthersStay
      <3>2. written \in task'[p].kept
        BY <1>3, <3>1 DEF Task
      <3> QED BY <3>2 DEF Outputs
    <2>4. CASE Run!createOutPathFor(p) \/ Run!OpenFile(p)
      BY <2>4, <1>4 DEF Run!createOutPathFor, Run!OpenFile, Run!At
    <2>5. CASE ~WritesNow(p)
      BY <2>5, <1>4, QuietStep
    <2> QED BY <2>1, <2>2, <2>3, <2>4, <2>5 DEF WritesNow
  <1>5. Outputs(p) \subseteq Outputs(p)'
    <2>1. \A r \in Outputs(p) : r \in task[p].kept \/ (task[p].pc = "write" /\ r = written)
      BY DEF Outputs
    <2>2. task'[p].kept \subseteq Outputs(p)'
      BY DEF Outputs
    <2> QED BY <2>1, <2>2, <1>3, <1>4
  <1>6. ASSUME NEW q \in Benchmarkers, q # p PROVE Outputs(q) \subseteq Outputs(q)'
    BY <1>2, <1>6 DEF Outputs
  <1> QED BY <1>5, <1>6

\* The file f has become longer, and no line of it has changed but a torn one of a result.
Grows(f) == /\ f \in DOMAIN files' /\ Len(files[f]) <= Len(files'[f])
            /\ \A i \in 1..Len(files[f]) :
                  files'[f][i] = files[f][i] \/ (f \notin DOMAIN before /\ files[f][i] \in Run!TornLines)

\* A file that nobody has raced for only grows.
LEMMA FilesGrow ==
    ASSUME TypeInv, CommandInv, FileInv, WriterInv, OriginInv, NEW p \in Benchmarkers, BenchmarkerStep(p),
           NEW f \in DOMAIN files, f \notin raced'
    PROVE  Grows(f)
  <1>1. Run!Step(p) /\ raced \subseteq raced' /\ WriterInv'
    BY WriterStep DEF BenchmarkerStep, Record
  <1>2. files[f] \in Seq(Line) /\ Len(files[f]) \in Nat
    BY DEF TypeInv
  <1>3. ASSUME f \in DOMAIN files', files'[f] = files[f] PROVE Grows(f)
    BY <1>2, <1>3 DEF Grows
  <1>4. CASE Run!OpenFile(p)
    <2>1. task[p].pc = "open" /\ task[p].file \notin DOMAIN before
      BY <1>4 DEF Run!OpenFile, Run!At, FileInv, FileFor
    <2>2. task[p].file # f
      <3> SUFFICES ASSUME task[p].file = f PROVE FALSE
        OBVIOUS
      <3>1. CASE \E q \in Benchmarkers : task[q].pc = "write" /\ task[q].file = f
        BY <3>1, <2>1, <1>1 DEF WriterInv, OneHolder, Holds
      <3>2. CASE \E q \in Benchmarkers : \E r \in task[q].kept : r.file = f
        BY <3>2, <2>1, <1>1 DEF WriterInv, KeptIsOwn, Holds
      <3> QED BY <3>1, <3>2, <2>1 DEF OriginInv
    <2> QED BY <2>2, <1>3, <1>4, OpenIsNumbered
  <1>5. CASE Run!WriteSeed(p)
    <2>1. /\ DOMAIN files' = DOMAIN files
          /\ \A g \in DOMAIN files : g # task[p].file => files'[g] = files[g]
      BY <1>5, WriteTypes
    <2>2. CASE task[p].file = f
      <3>1. task'[p] = [task[p] EXCEPT !.written = @ + 1] /\ task[p] \in Task
        BY <1>5, WriteBecomes, OthersStay DEF TypeInv
      <3>2. task[p].pc = "write" /\ task[p].written \in Nat
        BY <1>5, <3>1 DEF Run!WriteSeed, Run!At, Task
      <3>3. /\ task'[p].pc = "write" /\ task'[p].file = f /\ task'[p].index = task[p].index
            /\ task'[p].written = task[p].written + 1 /\ task'[p] \in Task
        BY <3>1, <3>2, <2>2 DEF Task
      <3>4. IsWrittenBy(p, task[p], files[f])
        BY <2>2, <3>2, <1>1 DEF WriterInv, WrittenIsOwn
      <3>5. IsWrittenBy(p, task'[p], files'[f])
        <4>1. IsWrittenBy(p, task[p], files[f])'
          BY <3>3, <1>1 DEF WriterInv, WrittenIsOwn
        <4>2. line' = line
          BY <1>5 DEF Run!WriteSeed
        <4> QED BY <4>1, <4>2, LineFixed DEF IsWrittenBy, LinesBy
      <3>6. /\ Len(files[f]) \in {task[p].written, task[p].written + 1}
            /\ \A i \in 1..task[p].written : files[f][i] = Run!Seed(p, task[p].index, i)
            /\ Len(files[f]) = task[p].written + 1 =>
                  files[f][task[p].written + 1] = Run!Part(p, task[p].index, task[p].written + 1)
        BY <3>1, <3>4, WrittenLines
      <3>7. /\ Len(files'[f]) \in {task[p].written + 1, task[p].written + 1 + 1}
            /\ \A i \in 1..(task[p].written + 1) : files'[f][i] = Run!Seed(p, task[p].index, i)
        BY <3>3, <3>5, WrittenLines
      <3>8. ASSUME NEW i \in 1..Len(files[f])
            PROVE  files'[f][i] = files[f][i] \/ (f \notin DOMAIN before /\ files[f][i] \in Run!TornLines)
        <4>1. CASE i \in 1..task[p].written
          BY <4>1, <3>2, <3>6, <3>7
        <4>2. CASE i \notin 1..task[p].written
          <5>1. i = task[p].written + 1 /\ Len(files[f]) = task[p].written + 1
            BY <4>2, <3>2, <3>6
          <5>2. files[f][i] = Run!Part(p, task[p].index, task[p].written + 1)
            BY <5>1, <3>6
          <5>3. task[p].index \in Nat /\ task[p].written + 1 \in Nat
            BY <3>1, <3>2 DEF Task
          <5>4. files[f][i] \in Run!TornLines
            BY <5>2, <5>3 DEF Run!Part, Run!TornLines
          <5> QED BY <5>4, <2>2, <3>2 DEF FileInv, FileFor
        <4> QED BY <4>1, <4>2
      <3>9. Len(files[f]) <= Len(files'[f])
        BY <3>2, <3>6, <3>7
      <3> QED BY <2>1, <3>8, <3>9 DEF Grows
    <2> QED BY <2>1, <2>2, <1>3
  <1>6. CASE Run!WritePart(p)
    <2>1. /\ DOMAIN files' = DOMAIN files
          /\ \A g \in DOMAIN files : g # task[p].file => files'[g] = files[g]
          /\ task[p].file = f =>
                files'[f] = Append(files[f], Run!Part(p, task[p].index, task[p].written + 1))
      BY <1>6, PartTypes
    <2>2. task[p].file = f => Grows(f)
      <3> DEFINE part == Run!Part(p, task[p].index, task[p].written + 1)
      <3> HIDE DEF part
      <3> QED BY <2>1, <1>2 DEF Grows, part
    <2> QED BY <2>1, <2>2, <1>3
  <1>7. CASE ~Run!OpenFile(p) /\ ~Run!WriteSeed(p) /\ ~Run!WritePart(p)
    BY <1>1, <1>3, <1>7, FilesStay
  <1> QED BY <1>4, <1>5, <1>6, <1>7

\* The lines of f are a beginning of what p has written, or writes.
Holding(f, p, out) ==
    /\ out \in Outputs(p) /\ out.file = f /\ AreBeginning(files[f], p, out.index)
    /\ \/ /\ out \in task[p].kept
          /\ files[f] = [j \in 1..Run!options(p)["-k"] |-> Run!Seed(p, out.index, j)]
       \/ task[p].pc = "write" /\ task[p].file = f

\* What a file holds that nobody has raced for.
LEMMA Contents ==
    ASSUME TypeInv, FileInv, WriterInv, OriginInv, NEW f \in DOMAIN files, f \notin raced
    PROVE  \/ f \in DOMAIN before /\ files[f] = before[f]
           \/ \E p \in Benchmarkers : \E out \in Outputs(p) : Holding(f, p, out)
  <1>1. CASE f \in DOMAIN before
    BY <1>1 DEF FileInv
  <1>2. CASE \E p \in Benchmarkers : task[p].pc = "write" /\ task[p].file = f
    <2>1. PICK p \in Benchmarkers : task[p].pc = "write" /\ task[p].file = f
      BY <1>2
    <2> DEFINE out == [file |-> task[p].file, index |-> task[p].index]
    <2>2. task[p] \in Task /\ task[p].written \in Nat
      BY DEF TypeInv, Task
    <2>3. IsWrittenBy(p, task[p], files[f])
      BY <2>1 DEF WriterInv, WrittenIsOwn
    <2>4. /\ Len(files[f]) \in {task[p].written, task[p].written + 1}
          /\ DOMAIN files[f] = 1..Len(files[f])
          /\ \A i \in 1..task[p].written : files[f][i] = Run!Seed(p, task[p].index, i)
          /\ Len(files[f]) = task[p].written + 1 =>
                files[f][task[p].written + 1] = Run!Part(p, task[p].index, task[p].written + 1)
      BY <2>2, <2>3, WrittenLines
    <2>5. \A i \in DOMAIN files[f] :
             i \in 1..task[p].written \/ (i = task[p].written + 1 /\ Len(files[f]) = task[p].written + 1)
      BY <2>2, <2>4
    <2>6. AreBeginning(files[f], p, task[p].index)
      BY <2>4, <2>5 DEF AreBeginning
    <2>7. out \in Outputs(p) /\ out.file = f /\ out.index = task[p].index
      BY <2>1 DEF Outputs
    <2> HIDE DEF out
    <2> QED BY <2>1, <2>6, <2>7 DEF Holding
  <1>3. CASE \E p \in Benchmarkers : \E r \in task[p].kept : r.file = f
    <2>1. PICK p \in Benchmarkers : \E r \in task[p].kept : r.file = f
      BY <1>3
    <2>2. PICK r \in task[p].kept : r.file = f
      BY <2>1
    <2>3. files[f] = [j \in 1..Run!options(p)["-k"] |-> Run!Seed(p, r.index, j)]
      BY <2>2 DEF WriterInv, KeptIsOwn
    <2>4. r \in Outputs(p)
      BY <2>2 DEF Outputs
    <2>5. AreBeginning(files[f], p, r.index)
      BY <2>3 DEF AreBeginning
    <2> QED BY <2>2, <2>3, <2>4, <2>5 DEF Holding
  <1> QED BY <1>1, <1>2, <1>3 DEF OriginInv

\* Nobody has read anything in the beginning.
LEMMA InitReader == Init => ReaderInv
  BY DEF Init, ReaderInv, ReaderOf, Eval!NewEvaluation

\* What an evaluator has seen stays, as files only grow and results stay.
LEMMA SeesStays ==
    ASSUME NEW e, Sees(e), line' = line, before' = before, evaluation'[e].seed_set = evaluation[e].seed_set,
           disturbed \subseteq disturbed',
           \A p \in Benchmarkers :
              Outputs(p) \subseteq Outputs(p)' /\ task[p].kept \subseteq task'[p].kept,
           line[e]["-p"] \in DOMAIN files',
           Len(evaluation[e].seed_set) <= Len(files'[line[e]["-p"]])
    PROVE  Sees(e)'
  <1>1. \A p : Run!options(p)' = Run!options(p)
    BY LineFixed
  <1> DEFINE path == line[e]["-p"]
             seed_set == evaluation[e].seed_set
  <1>2. CASE path \in DOMAIN before /\ seed_set = before[path]
    BY <1>2 DEF Sees
  <1>3. CASE \E p \in Benchmarkers : \E out \in Outputs(p) :
                /\ path = out.file /\ AreBeginning(seed_set, p, out.index)
                /\ e \notin disturbed => out \in task[p].kept /\ Wrote(e, p, out.index)
    <2>1. PICK p \in Benchmarkers : \E out \in Outputs(p) :
                /\ path = out.file /\ AreBeginning(seed_set, p, out.index)
                /\ e \notin disturbed => out \in task[p].kept /\ Wrote(e, p, out.index)
      BY <1>3
    <2>2. PICK out \in Outputs(p) :
                /\ path = out.file /\ AreBeginning(seed_set, p, out.index)
                /\ e \notin disturbed => out \in task[p].kept /\ Wrote(e, p, out.index)
      BY <2>1
    <2>3. AreBeginning(evaluation[e].seed_set, p, out.index)'
      BY <2>2 DEF AreBeginning
    <2>4. Wrote(e, p, out.index) => Wrote(e, p, out.index)'
      BY <1>1 DEF Wrote
    <2>5. /\ out \in Outputs(p)' /\ line'[e]["-p"] = out.file
          /\ e \notin disturbed' => out \in task'[p].kept /\ Wrote(e, p, out.index)'
      BY <2>2, <2>4
    <2> QED BY <2>3, <2>5 DEF Sees
  <1> QED BY <1>2, <1>3 DEF Sees

\* A benchmarker's step changes nothing of what a reader has read.
LEMMA ReaderKeeps ==
    ASSUME TypeInv, CommandInv, FileInv, WriterInv, OriginInv, ReaderInv,
           NEW p \in Benchmarkers, BenchmarkerStep(p)
    PROVE  ReaderInv'
  <1>1. Run!Step(p) /\ evaluation' = evaluation /\ Record
    BY DEF BenchmarkerStep
  <1>2. PICK run : Becomes(p, run)
    BY <1>1, StepBecomes
  <1>3. line' = line /\ \A q \in Benchmarkers : q # p => task'[q] = task[q]
    BY <1>2, OthersStay
  <1>4. \A q \in Benchmarkers : Outputs(q) \subseteq Outputs(q)' /\ task[q].kept \subseteq task'[q].kept
    BY <1>1, OutputsGrow, KeptGrows
  <1>5. CommandInv' /\ TypeInv'
    BY <1>1, CommandStep, BenchmarkerTypes
  <1>6. /\ before' = before /\ raced \subseteq raced' /\ disturbed \subseteq disturbed'
        /\ DisturbedNow' \subseteq disturbed'
    BY <1>1 DEF Record
  <1>7. DOMAIN files \subseteq DOMAIN files'
    <2>1. CASE Run!OpenFile(p)
      BY <2>1, OpenIsNumbered
    <2>2. CASE Run!WriteSeed(p) \/ Run!WritePart(p)
      BY <2>2, WriteTypes, PartTypes
    <2>3. CASE ~Run!OpenFile(p) /\ ~Run!WriteSeed(p) /\ ~Run!WritePart(p)
      BY <1>1, <2>3, FilesStay
    <2> QED BY <2>1, <2>2, <2>3
  <1> SUFFICES ASSUME NEW e \in Evaluators PROVE ReaderOf(e)'
    BY DEF ReaderInv
  <1>8. ReaderOf(e) /\ evaluation[e] \in Evaluation
    BY DEF ReaderInv, TypeInv
  <1> DEFINE path == line[e]["-p"]
             seed_set == evaluation[e].seed_set
  <1>9. ASSUME evaluation[e].pc = "read", e \notin disturbed'
        PROVE  \A q \in Benchmarkers : ~(task'[q].pc = "write" /\ task'[q].file = path)
    <2>1. e \in DOMAIN line
      BY <1>8, <1>9 DEF ReaderOf, Started
    <2>2. Writers(path)' = {}
      BY <2>1, <1>1, <1>3, <1>6, <1>9 DEF DisturbedNow
    <2>3. \A q \in Benchmarkers : task'[q].pc = "write" => q \in DOMAIN line'
      BY <1>5 DEF CommandInv, CommandOf, Started
    <2> QED BY <2>2, <2>3, <1>3 DEF Writers
  <1>10. Started(e)' <=> Started(e)
    BY <1>3, LineFixed
  <1>11. ASSUME path \in DOMAIN files, path \notin raced'
         PROVE  /\ Grows(path)
                /\ Len(seed_set) \in Nat /\ Len(files[path]) \in Nat /\ Len(files'[path]) \in Nat
    <2>1. Grows(path)
      BY <1>11, FilesGrow
    <2>2. path \in DOMAIN files'
      BY <2>1 DEF Grows
    <2>3. files[path] \in Seq(Line) /\ files'[path] \in Seq(Line') /\ seed_set \in Seq(Line)
      BY <1>5, <1>8, <1>11, <2>2 DEF TypeInv, Evaluation
    <2> QED BY <2>1, <2>3
  <1>12. ASSUME evaluation[e].pc = "read", path \notin raced' PROVE Follows(e)'
    <2>1. Follows(e) /\ path \in DOMAIN files
      BY <1>6, <1>8, <1>12 DEF ReaderOf
    <2>2. Len(seed_set) <= Len(files'[path])
      BY <2>1, <1>11, <1>12 DEF Follows, Grows
    <2>3. ASSUME NEW i \in 1..Len(seed_set)
          PROVE  /\ seed_set[i] = files'[path][i]
                 /\ path \in DOMAIN before \/ files'[path][i] \notin Run!TornLines
      <3>1. i \in 1..Len(files[path])
        BY <2>1, <1>11, <1>12 DEF Follows
      <3>2. /\ seed_set[i] = files[path][i]
            /\ path \in DOMAIN before \/ files[path][i] \notin Run!TornLines
        BY <2>1 DEF Follows
      <3> QED BY <3>1, <3>2, <2>1, <1>11, <1>12 DEF Grows
    <2> QED BY <2>2, <2>3, <1>1, <1>3, <1>6 DEF Follows, Run!TornLines
  <1>13. ASSUME evaluation[e].pc \in {"evaluate", "done"}, path \notin raced' PROVE Sees(e)'
    <2>1. Sees(e)
      BY <1>6, <1>8, <1>13 DEF ReaderOf
    <2>2. path \in DOMAIN files /\ Len(seed_set) <= Len(files[path])
      BY <2>1 DEF Sees
    <2>3. path \in DOMAIN files' /\ Len(seed_set) <= Len(files'[path])
      BY <2>2, <1>11, <1>13 DEF Grows
    <2> QED BY <2>1, <2>3, <1>1, <1>3, <1>4, <1>6, SeesStays
  <1> HIDE DEF path, seed_set
  <1>14. path' = path
    BY <1>3 DEF path
  <1> QED BY <1>1, <1>6, <1>7, <1>8, <1>9, <1>10, <1>12, <1>13, <1>14 DEF ReaderOf, path

\* An evaluator that has read its file to the end sees what it should.
LEMMA SeesAll ==
    ASSUME TypeInv, FileInv, WriterInv, OriginInv, NEW e, NEW path, path = line[e]["-p"],
           path \in DOMAIN files, path \notin raced,
           evaluation'[e].seed_set = files[path],
           e \notin disturbed' => \A p \in Benchmarkers : ~(task[p].pc = "write" /\ task[p].file = path),
           line' = line, files' = files, task' = task, before' = before
    PROVE  Sees(e)'
  <1>1. \A p : Run!options(p)' = Run!options(p)
    BY LineFixed
  <1>2. Len(files[path]) <= Len(files[path])
    BY DEF TypeInv
  <1>3. CASE path \in DOMAIN before /\ files[path] = before[path]
    BY <1>2, <1>3 DEF Sees
  <1>4. CASE \E p \in Benchmarkers : \E out \in Outputs(p) : Holding(path, p, out)
    <2>1. PICK p \in Benchmarkers : \E out \in Outputs(p) : Holding(path, p, out)
      BY <1>4
    <2>2. PICK out \in Outputs(p) : Holding(path, p, out)
      BY <2>1
    <2>3. AreBeginning(evaluation[e].seed_set, p, out.index)'
      BY <2>2 DEF Holding, AreBeginning
    <2>4. e \notin disturbed' =>
             /\ out \in task[p].kept
             /\ files[path] = [j \in 1..Run!options(p)["-k"] |-> Run!Seed(p, out.index, j)]
      BY <2>2 DEF Holding
    <2>5. e \notin disturbed' => out \in task'[p].kept /\ Wrote(e, p, out.index)'
      BY <2>4, <1>1 DEF Wrote
    <2>6. out \in Outputs(p)' /\ line'[e]["-p"] = out.file
      BY <2>2 DEF Holding, Outputs
    <2> QED BY <1>2, <2>3, <2>5, <2>6 DEF Sees
  <1> QED BY <1>3, <1>4, Contents

\* An evaluator's step shows it no more than its file.
LEMMA ReaderStep ==
    ASSUME TypeInv, CommandInv, FileInv, WriterInv, OriginInv, ReaderInv, NEW e \in Evaluators, EvaluatorStep(e)
    PROVE  ReaderInv'
  <1>1. /\ line' = line /\ files' = files /\ task' = task /\ before' = before
        /\ raced \subseteq raced' /\ disturbed \subseteq disturbed' /\ DisturbedNow' \subseteq disturbed'
        /\ Eval!Step(e)
    BY EvaluatorStays DEF EvaluatorStep, Record
  <1> DEFINE path == line[e]["-p"]
             reader == evaluation[e]
  <1>2. \/ /\ Reads(e) /\ reader.pc = "read" /\ path \in DOMAIN files
           /\ Len(reader.seed_set) < Len(files[path])
           /\ ReaderBecomes(e, [reader EXCEPT !.seed_set = Append(@, Eval!NextLine(e)), !.pc = PlaceAfter(e)])
        \/ /\ ~Reads(e)
           /\ \E place \in ReaderPlaces \cup Ended :
                 Eval!Goto(e, place) /\ ReaderBecomes(e, [reader EXCEPT !.pc = place])
    BY <1>1, ReaderSteps
  <1>3. \A x \in Evaluators : x # e => evaluation'[x] = evaluation[x]
    BY <1>2 DEF ReaderBecomes, TypeInv
  <1>4. reader \in Evaluation /\ ReaderOf(e)
    BY DEF TypeInv, ReaderInv
  <1>5. ASSUME NEW x \in Evaluators, evaluation'[x].seed_set = evaluation[x].seed_set, Sees(x)
        PROVE  Sees(x)'
    <2>1. \A p \in Benchmarkers : Outputs(p) \subseteq Outputs(p)' /\ task[p].kept \subseteq task'[p].kept
      BY <1>1 DEF Outputs
    <2> QED BY <1>1, <1>5, <2>1, SeesStays DEF Sees
  <1>6. ASSUME NEW x \in Evaluators, x # e PROVE ReaderOf(x)'
    <2>1. evaluation'[x] = evaluation[x] /\ ReaderOf(x)
      BY <1>3, <1>6 DEF ReaderInv
    <2>2. Sees(x) => Sees(x)'
      BY <2>1, <1>5
    <2>3. Started(x)' <=> Started(x)
      BY <1>1, LineFixed
    <2>4. Follows(x)' <=> Follows(x)
      BY <2>1, <1>1 DEF Follows, Run!TornLines
    <2> QED BY <2>1, <2>2, <2>3, <2>4, <1>1 DEF ReaderOf
  <1>7. ReaderOf(e)'
    <2>1. CASE Reads(e)
      <3> DEFINE read == reader.seed_set
                 lines == files[path]
                 next == lines[Len(read) + 1]
                 new == Append(read, next)
      <3>1. /\ path \in DOMAIN files /\ Len(read) < Len(lines) /\ reader.pc = "read"
            /\ evaluation'[e] = [reader EXCEPT !.seed_set = new, !.pc = PlaceAfter(e)]
        BY <2>1, <1>2 DEF ReaderBecomes, TypeInv, Eval!NextLine
      <3>2. evaluation'[e].pc = PlaceAfter(e) /\ evaluation'[e].seed_set = new
        <4> HIDE DEF new
        <4> QED BY <3>1, <1>4 DEF Evaluation
      <3>3. read \in Seq(Line) /\ lines \in Seq(Line)
        BY <3>1, <1>4 DEF Evaluation, TypeInv
      <3>4. next \in Line /\ Len(read) \in Nat /\ Len(lines) \in Nat
        BY <3>1, <3>3
      <3>5. /\ Len(new) = Len(read) + 1 /\ new[Len(read) + 1] = next
            /\ \A i \in 1..Len(read) : new[i] = read[i]
            /\ new \in Seq(Line)
        BY <3>3, <3>4
      <3>6. Started(e)
        BY <3>1, <1>4 DEF ReaderOf
      <3>7. \A i \in 1..Len(new) : i \in 1..Len(read) \/ i = Len(read) + 1
        BY <3>4, <3>5
      <3>8. Len(new) <= Len(lines)
        BY <3>1, <3>4, <3>5
      <3>9. ASSUME path \notin raced' PROVE \A i \in 1..Len(new) : new[i] = lines[i]
        <4>1. \A i \in 1..Len(read) : read[i] = lines[i]
          BY <3>1, <3>9, <1>1, <1>4 DEF ReaderOf, Follows
        <4> HIDE DEF new, read, lines
        <4> QED BY <4>1, <3>5, <3>7 DEF next
      <3>10. CASE Eval!EndsWithin(e)
        <4>1. evaluation'[e].pc = "evaluate" /\ Len(lines) = Len(read) + 1
          BY <3>2, <3>10 DEF PlaceAfter, Eval!EndsWithin
        <4>2. ASSUME path \notin raced' PROVE Sees(e)'
          <5>1. new = lines
            <6> HIDE DEF new, lines
            <6> QED BY <3>3, <3>5, <3>9, <4>1, <4>2
          <5>2. e \notin disturbed' => \A p \in Benchmarkers : ~(task[p].pc = "write" /\ task[p].file = path)
            BY <3>1, <1>1, <1>4 DEF ReaderOf
          <5> HIDE DEF new
          <5> QED BY <5>1, <5>2, <4>2, <3>1, <3>2, <1>1, SeesAll
        <4> QED BY <4>1, <4>2, <3>6, <1>1 DEF ReaderOf, Started
      <3>11. CASE ~Eval!EndsWithin(e)
        <4>1. evaluation'[e].pc = "read"
          BY <3>2, <3>11 DEF PlaceAfter
        <4>2. e \notin disturbed' => \A p \in Benchmarkers : ~(task[p].pc = "write" /\ task[p].file = path)
          BY <3>1, <1>1, <1>4 DEF ReaderOf
        <4>3. ASSUME path \notin raced' PROVE path \in DOMAIN before \/ next \notin Run!TornLines
          <5>1. CASE next \notin Run!TornLines
            BY <5>1
          <5>2. CASE Len(read) + 1 # Len(lines)
            <6>1. CASE path \in DOMAIN before
              BY <6>1
            <6>2. CASE \E p \in Benchmarkers : \E out \in Outputs(p) : Holding(path, p, out)
              <7>1. PICK p \in Benchmarkers : \E out \in Outputs(p) : Holding(path, p, out)
                BY <6>2
              <7>2. PICK out \in Outputs(p) : Holding(path, p, out)
                BY <7>1
              <7>3. Len(read) + 1 \in DOMAIN lines
                BY <3>1, <3>3, <3>4
              <7>4. next = Run!Seed(p, out.index, Len(read) + 1)
                BY <7>2, <7>3, <5>2 DEF Holding, AreBeginning
              <7> QED BY <7>4, SeedIsWhole
            <6> QED BY <6>1, <6>2, <4>3, <3>1, <1>1, Contents
          <5> QED BY <5>1, <5>2, <3>11 DEF Eval!EndsWithin, Eval!NextLine
        <4>4. ASSUME path \notin raced'
              PROVE  \A i \in 1..Len(new) : path \in DOMAIN before \/ lines[i] \notin Run!TornLines
          <5>1. \A i \in 1..Len(read) : path \in DOMAIN before \/ lines[i] \notin Run!TornLines
            BY <3>1, <4>4, <1>1, <1>4 DEF ReaderOf, Follows
          <5> HIDE DEF new, read, lines
          <5> QED BY <5>1, <4>3, <4>4, <3>7 DEF next
        <4>5. ASSUME path \notin raced' PROVE Follows(e)'
          <5> HIDE DEF new
          <5> QED BY <3>2, <3>8, <3>9, <4>4, <4>5, <1>1 DEF Follows, Run!TornLines
        <4> QED BY <4>1, <4>2, <4>5, <3>1, <3>6, <1>1 DEF ReaderOf, Started
      <3> QED BY <3>10, <3>11
    <2>2. CASE ~Reads(e)
      <3>1. PICK place \in ReaderPlaces \cup Ended :
                Eval!Goto(e, place) /\ ReaderBecomes(e, [reader EXCEPT !.pc = place])
        BY <2>2, <1>2
      <3>2. evaluation'[e] = [reader EXCEPT !.pc = place]
        BY <3>1 DEF ReaderBecomes, TypeInv
      <3>3. evaluation'[e].pc = place /\ evaluation'[e].seed_set = reader.seed_set
        BY <3>2, <1>4 DEF Evaluation
      <3>4. e \in DOMAIN line
        BY <1>1 DEF Eval!Step, Eval!At, Eval!UsageError, Eval!Start, Eval!NoGraph, Eval!ReadGraph,
                    Eval!NoSeedFile, Eval!OpenSeedFile, Eval!ReadSeed, Eval!ReadTornLine, Eval!ReadGarbage,
                    Eval!EndOfSeeds, Eval!Evaluate, Eval!NoModel
      <3> USE DEF Eval!At
      <3>5. CASE Eval!OpenSeedFile(e)
        <4>1. reader.pc = "open" /\ evaluation'[e].pc = "read" /\ path \in DOMAIN files
          <5>1. evaluation' = [evaluation EXCEPT ![e].pc = "read"]
            BY <3>5 DEF Eval!OpenSeedFile, Eval!Goto
          <5>2. evaluation'[e] = [reader EXCEPT !.pc = "read"]
            BY <5>1 DEF TypeInv
          <5>3. evaluation'[e].pc = "read"
            BY <5>2, <1>4 DEF Evaluation
          <5> QED BY <5>3, <3>5 DEF Eval!OpenSeedFile, Eval!SeedFile
        <4>2. evaluation'[e].seed_set = <<>>
          BY <4>1, <3>3, <1>4 DEF ReaderOf
        <4>3. e \notin disturbed' => \A p \in Benchmarkers : ~(task[p].pc = "write" /\ task[p].file = path)
          <5>1. e \notin disturbed' => Writers(path)' = {}
            BY <4>1, <3>4, <1>1 DEF DisturbedNow
          <5>2. \A p \in Benchmarkers : task[p].pc = "write" => p \in DOMAIN line
            BY DEF CommandInv, CommandOf, Started
          <5> QED BY <5>1, <5>2, <1>1 DEF Writers
        <4>4. Follows(e)'
          <5>1. files'[path] \in Seq(Line) /\ line'[e]["-p"] = path
            BY <4>1, <1>1 DEF TypeInv
          <5>2. Len(evaluation'[e].seed_set) = 0 /\ Len(files'[path]) \in Nat
            BY <4>2, <5>1
          <5> HIDE DEF path
          <5> QED BY <5>1, <5>2 DEF Follows
        <4> QED BY <4>1, <4>3, <4>4, <3>4, <1>1 DEF ReaderOf, Started
      <3>6. CASE Eval!EndOfSeeds(e)
        <4>1. reader.pc = "read" /\ Len(reader.seed_set) >= Len(files[path])
          BY <3>6 DEF Eval!EndOfSeeds, Eval!AtEnd
        <4>2. evaluation'[e].pc = "evaluate"
          <5>1. evaluation' = [evaluation EXCEPT ![e].pc = "evaluate"]
            BY <3>6 DEF Eval!EndOfSeeds, Eval!Goto
          <5>2. evaluation'[e] = [reader EXCEPT !.pc = "evaluate"]
            BY <5>1 DEF TypeInv
          <5> QED BY <5>2, <1>4 DEF Evaluation
        <4>3. path \in DOMAIN files
          BY <4>1, <1>4 DEF ReaderOf
        <4>4. ASSUME path \notin raced' PROVE Sees(e)'
          <5>1. /\ e \notin disturbed' => \A p \in Benchmarkers : ~(task[p].pc = "write" /\ task[p].file = path)
                /\ Len(reader.seed_set) <= Len(files[path])
                /\ \A i \in 1..Len(reader.seed_set) : reader.seed_set[i] = files[path][i]
            BY <4>1, <4>4, <1>1, <1>4 DEF ReaderOf, Follows
          <5>2. reader.seed_set \in Seq(Line) /\ files[path] \in Seq(Line)
            BY <4>3, <1>4 DEF Evaluation, TypeInv
          <5>3. evaluation'[e].seed_set = files[path]
            BY <4>1, <5>1, <5>2, <3>3
          <5> QED BY <5>1, <5>3, <4>3, <4>4, <1>1, SeesAll
        <4> QED BY <4>2, <4>4, <3>4, <1>1 DEF ReaderOf, Started
      <3>7. CASE Eval!Evaluate(e)
        <4>1. reader.pc = "evaluate"
          BY <3>7 DEF Eval!Evaluate
        <4>2. evaluation'[e].pc = "done"
          <5>1. evaluation' = [evaluation EXCEPT ![e].pc = "done"]
            BY <3>7 DEF Eval!Evaluate, Eval!Goto
          <5>2. evaluation'[e] = [reader EXCEPT !.pc = "done"]
            BY <5>1 DEF TypeInv
          <5> QED BY <5>2, <1>4 DEF Evaluation
        <4>3. ASSUME path \notin raced' PROVE Sees(e)'
          BY <4>1, <4>3, <1>1, <1>4, <1>5, <3>3 DEF ReaderOf
        <4> QED BY <4>2, <4>3, <3>4, <1>1 DEF ReaderOf, Started
      <3>8. CASE Eval!Start(e) \/ Eval!ReadGraph(e)
        <4>1. reader.pc \in {"start", "graph"} /\ evaluation'[e].pc \in {"graph", "open"}
          <5>1. PICK to \in {"graph", "open"} : evaluation' = [evaluation EXCEPT ![e].pc = to]
            BY <3>8 DEF Eval!Start, Eval!ReadGraph, Eval!Goto
          <5>2. evaluation'[e] = [reader EXCEPT !.pc = to]
            BY <5>1 DEF TypeInv
          <5>3. evaluation'[e].pc = to
            BY <5>2, <1>4 DEF Evaluation
          <5> QED BY <5>3, <3>8 DEF Eval!Start, Eval!ReadGraph
        <4>2. evaluation'[e].seed_set = <<>>
          BY <4>1, <3>3, <1>4 DEF ReaderOf
        <4> QED BY <4>1, <4>2, <3>4, <1>1 DEF ReaderOf, Started
      <3>9. CASE Eval!UsageError(e) \/ Eval!NoGraph(e) \/ Eval!NoSeedFile(e) \/ Eval!ReadGarbage(e) \/ Eval!NoModel(e)
        <4>1. evaluation'[e].pc \in {"exited", "terminated", "crashed"}
          <5>1. PICK to \in {"exited", "terminated", "crashed"} : evaluation' = [evaluation EXCEPT ![e].pc = to]
            BY <3>9 DEF Eval!UsageError, Eval!NoGraph, Eval!NoSeedFile, Eval!ReadGarbage, Eval!NoModel, Eval!Goto
          <5>2. evaluation'[e] = [reader EXCEPT !.pc = to]
            BY <5>1 DEF TypeInv
          <5> QED BY <5>2, <1>4 DEF Evaluation
        <4> QED BY <4>1, <3>4, <1>1 DEF ReaderOf, Started
      <3> QED BY <2>2, <3>5, <3>6, <3>7, <3>8, <3>9, <1>1 DEF Eval!Step, Reads
    <2> QED BY <2>1, <2>2
  <1> QED BY <1>6, <1>7 DEF ReaderInv

-----------------------------------------------------------------------------
(* The theorems.                                                           *)

Inv == /\ TypeInv /\ CommandInv /\ OrderInv /\ CountInv
       /\ FileInv /\ WriterInv /\ OriginInv /\ ReaderInv

\* The scenarios start with the invariant.
LEMMA InitInv == Init => Inv
  BY InitTypeInv, InitCommand, InitOrder, InitCount, InitFile, InitWriter, InitOrigin, InitReader DEF Inv

\* An evaluator's step changes nothing that the benchmarkers depend on.
LEMMA EvaluatorKeeps ==
    ASSUME Inv, NEW e \in Evaluators, EvaluatorStep(e)
    PROVE  Inv'
  <1>1. /\ line' = line /\ files' = files /\ task' = task /\ before' = before
        /\ raced \subseteq raced'
    BY EvaluatorStays DEF EvaluatorStep, Record
  <1>2. TypeInv'
    BY EvaluatorTypes DEF Inv
  <1>3. CommandInv'
    BY <1>1, LineFixed DEF Inv, CommandInv, CommandOf
  <1>4. OrderInv'
    BY <1>1, SameOrder DEF Inv, OrderInv
  <1>5. CountInv'
    BY <1>1, SameCount DEF Inv, CountInv
  <1>6. FileInv'
    BY <1>1 DEF Inv, FileInv, FileFor, Numbered, CountIn
  <1>7. WriterInv'
    <2>1. \A p : Run!options(p)' = Run!options(p)
      BY <1>1, LineFixed
    <2>2. OneHolder'
      BY <1>1 DEF Inv, WriterInv, OneHolder, Holds
    <2>3. WrittenIsOwn'
      BY <1>1, SameWriting DEF Inv, WriterInv, WrittenIsOwn
    <2>4. KeptIsOwn'
      BY <1>1, <2>1 DEF Inv, WriterInv, KeptIsOwn, Holds
    <2> QED BY <2>2, <2>3, <2>4 DEF WriterInv
  <1>8. OriginInv'
    BY <1>1 DEF Inv, OriginInv
  <1>9. ReaderInv'
    BY ReaderStep DEF Inv
  <1> QED BY <1>2, <1>3, <1>4, <1>5, <1>6, <1>7, <1>8, <1>9 DEF Inv

\* Every step keeps the invariant.
LEMMA NextInv == Inv /\ [Next]_vars => Inv'
  <1> SUFFICES ASSUME Inv, [Next]_vars PROVE Inv'
    OBVIOUS
  <1>1. ASSUME NEW p \in Benchmarkers, BenchmarkerStep(p) PROVE Inv'
    <2>1. Run!Step(p)
      BY <1>1 DEF BenchmarkerStep
    <2> QED BY <1>1, <2>1, BenchmarkerTypes, CommandStep, OrderStep, CountStep, FileStep, WriterStep,
               OriginStep, ReaderKeeps DEF Inv
  <1>2. ASSUME NEW e \in Evaluators, EvaluatorStep(e) PROVE Inv'
    BY <1>2, EvaluatorKeeps
  <1>3. CASE UNCHANGED vars
    <2>1. line' = line
      BY <1>3 DEF vars
    <2>2. TypeInv'
      <3>1. Task' = Task
        BY <2>1, LineFixed DEF Task, FileName
      <3>2. \A q \in Benchmarkers \cap DOMAIN line' : "-a" \in DOMAIN line'[q] => List(q)' \in Seq(Argument)
        BY <2>1, LineFixed DEF Inv, TypeInv
      <3> QED BY <3>1, <3>2, <1>3 DEF Inv, TypeInv, vars
    <2>3. CommandInv'
      BY <1>3, <2>1, LineFixed DEF Inv, CommandInv, CommandOf, vars
    <2>4. OrderInv' /\ CountInv'
      BY <1>3, <2>1, SameOrder, SameCount DEF Inv, OrderInv, CountInv, vars
    <2>5. FileInv' /\ OriginInv'
      BY <1>3 DEF Inv, FileInv, FileFor, Numbered, CountIn, OriginInv, vars
    <2>6. WriterInv'
      <3>1. \A p : Run!options(p)' = Run!options(p)
        BY <2>1, LineFixed
      <3>2. OneHolder' /\ WrittenIsOwn'
        BY <1>3, SameWriting DEF Inv, WriterInv, OneHolder, WrittenIsOwn, Holds, vars
      <3>3. KeptIsOwn'
        BY <1>3, <3>1 DEF Inv, WriterInv, KeptIsOwn, Holds, vars
      <3> QED BY <3>2, <3>3 DEF WriterInv
    <2>7. ReaderInv'
      <3>1. \A e \in Evaluators : Sees(e) => Sees(e)'
        <4>1. \A p \in Benchmarkers : Outputs(p) \subseteq Outputs(p)'
          BY <1>3 DEF Outputs, vars
        <4> QED BY <4>1, <1>3, SeesStays DEF Sees, vars
      <3>2. \A e : Started(e)' <=> Started(e)
        BY <2>1, LineFixed
      <3>3. \A e : Follows(e)' <=> Follows(e)
        BY <1>3 DEF Follows, Run!TornLines, vars
      <3> QED BY <3>1, <3>2, <3>3, <1>3 DEF Inv, ReaderInv, ReaderOf, vars
    <2> QED BY <2>2, <2>3, <2>4, <2>5, <2>6, <2>7 DEF Inv
  <1> QED BY <1>1, <1>2, <1>3 DEF Next

\* The invariant holds always.
LEMMA InvHolds == Spec => []Inv
  BY InitInv, NextInv, PTL DEF Spec

\* The records, counters and paths of all processes keep their types.
THEOREM TypeCorrect == Spec => []TypeOK
  <1>1. Inv => TypeOK
    BY DEF Inv, TypeInv, TypeOK, Task, Evaluation, Places, ReaderPlaces, FileName
  <1> QED BY <1>1, InvHolds, PTL

\* A benchmarker runs exactly the solvers that its list names, in the list's order and with the
\* parameters that stand behind them, and nothing when its command line, graph or model is refused.
THEOREM RunsAsked == Spec => []RunsWhatIsAsked
  <1>1. Inv => TypeOK
    BY DEF Inv, TypeInv, TypeOK, Task, Evaluation, Places, ReaderPlaces, FileName
  <1>2. ASSUME Inv, NEW p \in Benchmarkers, Started(p)
        PROVE  LET run == task[p]
               IN  /\ run.benchmarked # <<>> => GetsToSolvers(p) /\ IsPrefix(run.benchmarked, AskedFor(p))
                   /\ run.pc = "exited" => run.benchmarked = <<>> /\ ~GetsToSolvers(p)
                   /\ run.pc = "done" => run.benchmarked = AskedFor(p)
                   /\ run.pc = "crashed" => /\ Len(run.benchmarked) = 1 /\ ~Evaluates(p)
                                            /\ Stores(p) => Cardinality(run.kept) = 1
    <2> DEFINE run == task[p]
    <2>1. /\ run \in Task /\ CommandOf(p) /\ OrderFor(p, run) /\ CountFor(p, run)
      BY <1>2 DEF Inv, TypeInv, CommandInv, OrderInv, CountInv
    <2>2. run.benchmarked \in Seq(Solver) /\ run.index \in Nat \ {0} /\ run.pc \in Places \cup Ended
      BY <2>1 DEF Task
    <2>3. run.pc \notin {"start", "exited"} => List(p) \in Seq(Argument) /\ Len(List(p)) \in Nat
      BY <1>2, UsableList DEF Inv
    <2>4. run.pc \in BeforeSolvers => run.benchmarked = <<>>
      BY <2>1 DEF CommandOf
    <2>5. run.pc \notin BeforeSolvers => GetsToSolvers(p)
      BY <2>1 DEF CommandOf, BeforeSolvers, GetsToSolvers, IsUsable
    <2>6. ASSUME run.pc \notin BeforeSolvers PROVE \E n \in Nat : RunUpTo(p, run.benchmarked, n)
      <3>1. run.index - 1 \in Nat /\ run.index \in Nat /\ Len(List(p)) \in Nat
        BY <2>2, <2>3, <2>6 DEF BeforeSolvers
      <3>2. run.pc \in {"loop", "solve", "done", "terminated"} \cup AfterSolve
        BY <2>2, <2>6 DEF Places, Ended, BeforeSolvers, AfterSolve
      <3> QED BY <2>1, <3>1, <3>2 DEF OrderFor
    <2>7. run.pc \notin BeforeSolvers => IsPrefix(run.benchmarked, AskedFor(p))
      BY <2>2, <2>3, <2>6, AskedInOrder DEF BeforeSolvers
    <2>8. run.pc = "done" => run.benchmarked = AskedFor(p)
      <3>1. ASSUME run.pc = "done" PROVE RunUpTo(p, run.benchmarked, Len(List(p))) /\ List(p) \in Seq(Argument)
        BY <3>1, <2>1, <2>3 DEF OrderFor
      <3> QED BY <3>1, <2>2, <2>3, AskedInOrder
    <2>9. run.pc = "exited" => ~GetsToSolvers(p)
      BY <2>1 DEF CommandOf
    <2>10. run.pc = "crashed" => /\ Len(run.benchmarked) = 1 /\ ~Evaluates(p)
                                 /\ Stores(p) => Cardinality(run.kept) = 1
      BY <1>2, <2>1 DEF CountFor, AfterSolve
    <2> QED BY <2>4, <2>5, <2>7, <2>8, <2>9, <2>10 DEF BeforeSolvers
  <1>3. Inv => RunsWhatIsAsked
    BY <1>1, <1>2 DEF RunsWhatIsAsked
  <1> QED BY <1>3, InvHolds, PTL

\* What a run has finished, and what was there before, is never changed, whatever else is executed,
\* except where two runs have chosen one path before either had created its file.
THEOREM ResultsKept == Spec => []EveryResultIsKept
  <1>1. Inv => EveryResultIsKept
    BY DEF Inv, FileInv, WriterInv, KeptIsOwn, CountInv, CountFor, EveryResultIsKept
  <1> QED BY <1>1, InvHolds, PTL

\* What an evaluator evaluates is a beginning of one run's seeds, whatever has been written while it
\* read, and all of them if nobody wrote; only a file that two runs share can be a mixture.
THEOREM EvaluatorSees == Spec => []EvaluatorSeesTheRun
  <1>1. Inv => EvaluatorSeesTheRun
    BY DEF Inv, ReaderInv, ReaderOf, Sees, EvaluatorSeesTheRun
  <1> QED BY <1>1, InvHolds, PTL

=============================================================================
