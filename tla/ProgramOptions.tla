--------------------------- MODULE ProgramOptions ---------------------------
(***************************************************************************)
(* The command lines of the two programs, parsed by the library CLI11: a   *)
(* command line is a function from the options on it to their values.  A   *)
(* number that is no value of its option is Unconvertible; enum options    *)
(* take any other number.  The number of threads, on which nothing here    *)
(* depends, is left out.                                                   *)
(***************************************************************************)
EXTENDS Integers, TLC

Unconvertible == -1

\* The value of an option that has no default and is not given.
NotGiven == ""

\* parseArguments and parseEvaluatorArguments: the options that must be given.
Required == {"-g", "-f", "-a"}

RequiredByEvaluator == {"-g", "-f"}

Flags == "-r" :> FALSE @@ "-e" :> FALSE @@ "-i" :> FALSE @@ "-b" :> FALSE

Defaults == "-o" :> NotGiven @@ "-d" :> 0 @@ "-s" :> 20000 @@ "-k" :> 50 @@ Flags

EvaluatorDefaults == "-p" :> NotGiven @@ "-a" :> "Unknown" @@ "-d" :> 0 @@ "-s" :> 20000
                         @@ "-m" :> FALSE @@ Flags

\* Whether app.parse throws a ParseError, with which the program exits.
IsUsageError(line, required, defaults) ==
    \/ ~(required \subseteq DOMAIN line)
    \/ ~(DOMAIN line \subseteq required \cup DOMAIN defaults)
    \/ \E option \in {"-f", "-d", "-s", "-k"} \cap DOMAIN line : line[option] = Unconvertible

\* IMBProgramOptions, and the struct arguments of the evaluator.
Overridden(defaults, line) == [option \in DOMAIN line \cup DOMAIN defaults |->
    IF option \in DOMAIN line THEN line[option] ELSE defaults[option]]

parseArguments(line) == Overridden(Defaults, line)

parseEvaluatorArguments(line) == Overridden(EvaluatorDefaults, line)

VERTEX_LIST == 0
EDGE_LIST   == 1

IsParseMode(format) == format \in {VERTEX_LIST, EDGE_LIST}

INDEPENDENT_CASCADE == 0
LINEAR_THRESHOLD    == 1

\* For other numbers diffusionModelToString exits, and the factory returns nullptr.
IsDiffusionModel(type) == type \in {INDEPENDENT_CASCADE, LINEAR_THRESHOLD}

=============================================================================
