----------------------------- MODULE Evaluator -----------------------------
(***************************************************************************)
(* Executions of the evaluator: it parses its command line and the graph,  *)
(* reads a file of seeds, such as a benchmarker writes, and computes the   *)
(* averages of a diffusion model.                                          *)
(***************************************************************************)
EXTENDS ProgramOptions, Sequences

CONSTANTS Evaluators,   \* the processes that may execute the program
          RegularFiles, \* paths of regular files
          Garbage,      \* lines that std::stol does not take, such as the empty one
          Torn          \* lines that are not complete: digits without a newline behind them

VARIABLES line,       \* the command line of each process that is started
          evaluation, \* the state of each evaluator
          files       \* files of seeds, from their paths to their lines

args(e) == parseEvaluatorArguments(line[e])

\* A process about to start.
NewEvaluation == [pc |-> "start", seed_set |-> <<>>]

At(e, place) == e \in DOMAIN line /\ evaluation[e].pc = place

Goto(e, place) == /\ evaluation' = [evaluation EXCEPT ![e].pc = place]
                  /\ UNCHANGED <<line, files>>

UsageError(e) == /\ At(e, "start") /\ IsUsageError(line[e], RequiredByEvaluator, EvaluatorDefaults)
                 /\ Goto(e, "exited")

Start(e) == /\ At(e, "start") /\ ~IsUsageError(line[e], RequiredByEvaluator, EvaluatorDefaults)
            /\ Goto(e, "graph")

CanReadGraph(e) == IsParseMode(args(e)["-f"]) /\ args(e)["-g"] \in RegularFiles

NoGraph(e) == /\ At(e, "graph") /\ ~CanReadGraph(e)
              /\ Goto(e, "exited")

ReadGraph(e) == /\ At(e, "graph") /\ CanReadGraph(e)
                /\ Goto(e, "open")

-----------------------------------------------------------------------------
(* read_seed_set.                                                          *)

SeedFile(e) == IF "-p" \in DOMAIN line[e] THEN {line[e]["-p"]} \cap DOMAIN files ELSE {}

NoSeedFile(e) == /\ At(e, "open") /\ SeedFile(e) = {}
                 /\ Goto(e, "exited")

OpenSeedFile(e) == /\ At(e, "open") /\ SeedFile(e) # {}
                   /\ Goto(e, "read")

\* Mutant: the last line is not read.
AtEndEarly(e) == Len(evaluation[e].seed_set) + 1 >= Len(files[line[e]["-p"]])

\* getline continues behind the last line it has read, in what the file is by now.
AtEnd(e) == Len(evaluation[e].seed_set) >= Len(files[line[e]["-p"]])

NextLine(e) == files[line[e]["-p"]][Len(evaluation[e].seed_set) + 1]

\* The file ends within the line.
EndsWithin(e) == /\ NextLine(e) \in Torn
                 /\ Len(evaluation[e].seed_set) + 1 = Len(files[line[e]["-p"]])

ReadSeed(e) == /\ At(e, "read") /\ ~AtEnd(e) /\ NextLine(e) \notin Garbage /\ ~EndsWithin(e)
               /\ evaluation' = [evaluation EXCEPT ![e].seed_set = Append(@, NextLine(e))]
               /\ UNCHANGED <<line, files>>

\* getline takes what there is of the line; the stream is at its end then, and getline reads no more
\* even if the rest has been written by now.
ReadTornLine(e) ==
    /\ At(e, "read") /\ ~AtEnd(e) /\ NextLine(e) \notin Garbage /\ EndsWithin(e)
    /\ evaluation' = [evaluation EXCEPT ![e].seed_set = Append(@, NextLine(e)), ![e].pc = "evaluate"]
    /\ UNCHANGED <<line, files>>

\* stol throws and nobody catches.
ReadGarbage(e) == /\ At(e, "read") /\ ~AtEnd(e) /\ NextLine(e) \in Garbage
                  /\ Goto(e, "terminated")

EndOfSeeds(e) == /\ At(e, "read") /\ AtEnd(e)
                 /\ Goto(e, "evaluate")

Evaluate(e) == /\ At(e, "evaluate") /\ IsDiffusionModel(args(e)["-d"])
               /\ Goto(e, "done")

\* A call on the null pointer that the factory has returned.
NoModel(e) == /\ At(e, "evaluate") /\ ~IsDiffusionModel(args(e)["-d"])
              /\ Goto(e, "crashed")

Step(e) == \/ UsageError(e) \/ Start(e) \/ NoGraph(e) \/ ReadGraph(e)
           \/ NoSeedFile(e) \/ OpenSeedFile(e) \/ ReadSeed(e) \/ ReadTornLine(e) \/ ReadGarbage(e)
           \/ EndOfSeeds(e) \/ Evaluate(e) \/ NoModel(e)

=============================================================================
