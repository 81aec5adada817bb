---------------------------- MODULE BenchmarkRun ----------------------------
(***************************************************************************)
(* Executions of the benchmarker, several at a time: main parses the       *)
(* command line and the graph, SolverFactory::benchmarkAll interprets the  *)
(* comma separated list of -a, a solver and possibly its parameter at a    *)
(* time, and Benchmarker runs each solver, writes its seeds to a new file  *)
(* of the solver's directory and evaluates them.  An argument is a word    *)
(* (in lower case, which is how the code compares it) or digits; the value *)
(* of digits that do not fit into an int is TooLarge.  What a solver       *)
(* computes is left out: a seed is the line that some run writes for it.   *)
(***************************************************************************)
EXTENDS ProgramOptions, Sequences, FiniteSets

CONSTANTS Benchmarkers, \* the processes that may execute the program
          RegularFiles  \* paths of regular files

VARIABLES line,  \* the command line of each process that is started
          task,  \* the state of each benchmarker
          files  \* the result files: from [base, solver, number] to their lines

TooLarge == -1

options(p) == parseArguments(line[p])

\* What the code compares with, one spelling for each solver.
Words == {"pr", "wpr", "degree", "highdegree", "random", "celf", "wd", "ipa",
          "easyim-delta", "easyim", "ua", "imm"}

TakesParameter == {"pr", "celf", "ipa", "easyim-delta", "easyim", "ua"}

\* The default arguments of the solvers' constructors.
simulations == 10000
divider == 320
EaSyIMIterations == 3
EasyImDeltaIterations == 3
UpdateApproximationIterations == 3

\* What a solver that is constructed from the graph alone has as its parameter.
Default(word) == CASE word = "celf" -> simulations
                   [] word = "ipa" -> divider
                   [] word = "easyim" -> EaSyIMIterations
                   [] word = "easyim-delta" -> EasyImDeltaIterations
                   [] word = "ua" -> UpdateApproximationIterations
                   [] OTHER -> 0

\* name(): which runs share a directory.  The names of the solvers that take a parameter hold it
\* (CelfGreedy.cpp:78, PageRankSolver.cpp:36, EaSyIM.cpp:100, ...), but IPA's its divider not.
name(s) == IF s.word = "ipa" THEN [s EXCEPT !.parameter = 0] ELSE s

NoSolver == [word |-> "", parameter |-> 0]

NoFile == [base |-> NotGiven, solver |-> NoSolver, number |-> 0]

\* A process about to start.  "benchmarked", the solvers that were run, and "kept", the files it has
\* finished with the arguments they are for, are history.
NewTask == [pc |-> "start", index |-> 1, argument_count |-> 0, solver |-> NoSolver,
            file |-> NoFile, written |-> 0, benchmarked |-> <<>>, kept |-> {}]

At(p, place) == p \in DOMAIN line /\ task[p].pc = place

Goto(p, place) == /\ task' = [task EXCEPT ![p].pc = place]
                  /\ UNCHANGED <<line, files>>

-----------------------------------------------------------------------------
(* main, and the constructor of Benchmarker.                               *)

UsageError(p) == /\ At(p, "start") /\ IsUsageError(line[p], Required, Defaults)
                 /\ Goto(p, "exited")

Start(p) == /\ At(p, "start") /\ ~IsUsageError(line[p], Required, Defaults)
            /\ Goto(p, "graph")

\* How the graph is built from its file and the other flags is what GraphBuild models.
CanReadGraph(p) == IsParseMode(options(p)["-f"]) /\ options(p)["-g"] \in RegularFiles

NoGraph(p) == /\ At(p, "graph") /\ ~CanReadGraph(p)
              /\ Goto(p, "exited")

ReadGraph(p) == /\ At(p, "graph") /\ CanReadGraph(p)
                /\ Goto(p, "construct")

\* The name of the diffusion model is looked up only for the pretty output.
NamesModel(p) == options(p)["-r"] \/ IsDiffusionModel(options(p)["-d"])

Construct(p) == /\ At(p, "construct")
                /\ Goto(p, IF NamesModel(p) THEN "loop" ELSE "exited")

-----------------------------------------------------------------------------
(* SolverFactory::benchmarkAll.                                            *)

arguments(p) == options(p)["-a"]

Argument(p) == arguments(p)[task[p].index]

AtArgument(p) == At(p, "loop") /\ task[p].index <= Len(arguments(p))

SkipParameter(p) ==
    /\ AtArgument(p) /\ task[p].argument_count > 0
    /\ task' = [task EXCEPT ![p].argument_count = @ - 1, ![p].index = @ + 1]
    /\ UNCHANGED <<line, files>>

\* Mutant: the last argument is not looked at.
NextIsNumberButLast(p) ==
    LET next == task[p].index + 1 IN Len(arguments(p)) > next /\ arguments(p)[next].digits

NextIsNumber(p) ==
    LET next == task[p].index + 1 IN Len(arguments(p)) >= next /\ arguments(p)[next].digits

Known(argument) == ~argument.digits /\ argument.word \in Words

HasParameter(p) == Argument(p).word \in TakesParameter /\ NextIsNumber(p)

Parameter(p) == IF HasParameter(p) THEN arguments(p)[task[p].index + 1].value
                ELSE Default(Argument(p).word)

CreateSolver(p) ==
    /\ AtArgument(p) /\ task[p].argument_count = 0 /\ Known(Argument(p))
    /\ Parameter(p) # TooLarge
    /\ task' = [task EXCEPT ![p].solver = [word |-> Argument(p).word, parameter |-> Parameter(p)],
                            ![p].argument_count = IF HasParameter(p) THEN 1 ELSE 0,
                            ![p].pc = "solve"]
    /\ UNCHANGED <<line, files>>

\* extractParameter finds no int, in too many digits or in an empty argument, and
\* value() throws out of a noexcept function.
Terminate(p) ==
    /\ AtArgument(p) /\ task[p].argument_count = 0 /\ Known(Argument(p))
    /\ Parameter(p) = TooLarge
    /\ Goto(p, "terminated")

\* Mutant: the first unknown solver is the last argument.
UnknownEnds(p) == /\ AtArgument(p) /\ task[p].argument_count = 0 /\ ~Known(Argument(p))
                  /\ UNCHANGED <<line, task, files>>

Unknown(p) == /\ AtArgument(p) /\ task[p].argument_count = 0 /\ ~Known(Argument(p))
              /\ task' = [task EXCEPT ![p].index = @ + 1]
              /\ UNCHANGED <<line, files>>

Done(p) == /\ At(p, "loop") /\ task[p].index > Len(arguments(p))
           /\ Goto(p, "done")

-----------------------------------------------------------------------------
(* Benchmarker::benchmark.                                                 *)

Solve(p) ==
    /\ At(p, "solve")
    /\ task' = [task EXCEPT ![p].benchmarked = Append(@, task[p].solver),
                            ![p].pc = IF options(p)["-o"] # NotGiven THEN "path" ELSE "evaluate"]
    /\ UNCHANGED <<line, files>>

\* create_directories throws below a regular file, out of benchmarkAll.
NoDirectory(p) == /\ At(p, "path") /\ options(p)["-o"] \in RegularFiles
                  /\ Goto(p, "terminated")

FilesOf(base, solver) == {f \in DOMAIN files : f.base = base /\ f.solver = solver}

\* Mutant: numbers are counted per base directory and not per solver.
NumberOfBase(p) == Cardinality({r \in task[p].kept : r.file.base = options(p)["-o"]}) + 1

\* Lines 149 to 159 of Benchmarker.hpp: one more than there are regular files.
NextNumber(p) == Cardinality(FilesOf(options(p)["-o"], name(task[p].solver))) + 1

createOutPathFor(p) ==
    /\ At(p, "path") /\ options(p)["-o"] \notin RegularFiles
    /\ task' = [task EXCEPT ![p].file = [base |-> options(p)["-o"], solver |-> name(task[p].solver),
                                         number |-> NextNumber(p)],
                            ![p].pc = "open"]
    /\ UNCHANGED <<line, files>>

\* The constructor of the stream creates the file, or empties it.
OpenFile(p) == /\ At(p, "open")
               /\ files' = [f \in DOMAIN files \cup {task[p].file} |->
                               IF f = task[p].file THEN <<>> ELSE files[f]]
               /\ task' = [task EXCEPT ![p].written = 0, ![p].pc = "write"]
               /\ UNCHANGED line

Seed(p, index, j) == <<p, index, j>>

\* What a file holds where nobody has written, below an offset that is beyond its end.
Hole == Seed("", 0, 0)

\* What a file ends with while a line is written: a beginning of the line's digits, and no newline.
Part(p, index, j) == <<p, index, j, "part">>

TornLines == Benchmarkers \X Nat \X Nat \X {"part"}

\* Every stream has an offset of its own: where another process has written in the
\* meantime, its lines are overwritten.  The lines are written as the buffer of the stream has it: one
\* or several at once, and the last of them possibly in two parts.  What a file that
\* two processes write looks like within a line is left out.  Every solver returns k
\* seeds: k is at most the number of nodes (a ranking would return fewer).
WriteSeed(p) ==
    /\ At(p, "write") /\ task[p].written < options(p)["-k"]
    /\ LET j == task[p].written + 1
           text == files[task[p].file]
           reached == IF Len(text) >= j THEN Len(text) ELSE j
       IN  files' = [files EXCEPT ![task[p].file] =
                         [i \in 1..reached |->
                             IF i = j THEN Seed(p, task[p].index, j)
                             ELSE IF i <= Len(text) THEN text[i] ELSE Hole]]
    /\ task' = [task EXCEPT ![p].written = @ + 1]
    /\ UNCHANGED line

WritePart(p) ==
    /\ At(p, "write") /\ task[p].written < options(p)["-k"]
    /\ Len(files[task[p].file]) = task[p].written
    /\ files' = [files EXCEPT ![task[p].file] = Append(@, Part(p, task[p].index, task[p].written + 1))]
    /\ UNCHANGED <<line, task>>

CloseFile(p) == /\ At(p, "write") /\ task[p].written = options(p)["-k"]
                /\ task' = [task EXCEPT ![p].kept = @ \cup {[file |-> task[p].file, index |-> task[p].index]},
                                        ![p].pc = "evaluate"]
                /\ UNCHANGED <<line, files>>

Evaluate(p) == /\ At(p, "evaluate") /\ IsDiffusionModel(options(p)["-d"])
               /\ task' = [task EXCEPT ![p].index = @ + 1, ![p].pc = "loop"]
               /\ UNCHANGED <<line, files>>

\* A call on the null pointer that the factory has returned.
NoModel(p) == /\ At(p, "evaluate") /\ ~IsDiffusionModel(options(p)["-d"])
              /\ Goto(p, "crashed")

Step(p) == \/ UsageError(p) \/ Start(p) \/ NoGraph(p) \/ ReadGraph(p) \/ Construct(p)
           \/ SkipParameter(p) \/ CreateSolver(p) \/ Terminate(p) \/ Unknown(p) \/ Done(p)
           \/ Solve(p) \/ NoDirectory(p) \/ createOutPathFor(p)
           \/ OpenFile(p) \/ WriteSeed(p) \/ WritePart(p) \/ CloseFile(p) \/ Evaluate(p) \/ NoModel(p)

=============================================================================
