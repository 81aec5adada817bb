--------------------------- MODULE MCExecutions ---------------------------
(* One benchmarker with every list of up to three arguments: two solvers     *)
(* with and two without a parameter, an unknown word, and a small, a default *)
(* and a too large number; one with each option missing or impossible; two   *)
(* that write below one directory or not; and evaluators of their results.   *)
EXTENDS Executions

Word(w) == [digits |-> FALSE, word |-> w, value |-> 0]

Number(v) == [digits |-> TRUE, word |-> "", value |-> v]

MCLists ==
    BoundedSeq({Word("ua"), Word("ipa"), Word("wd"), Word("celf"), Word("pagerank"),
                Number(2), Number(3), Number(TooLarge)}, 3) \ {<<>>}

With(list, k) == "-g" :> "graph" @@ "-f" :> 0 @@ "-a" :> list @@ "-k" :> k

Out == "-o" :> "out"

ua == Word("ua")
wd == Word("wd")
UA3 == [word |-> "ua", parameter |-> 3]
IPA == [word |-> "ipa", parameter |-> 0]

File(solver, n) == [base |-> "out", solver |-> solver, number |-> n]

NoFiles == [f \in {} |-> <<>>]

\* Results of earlier executions, and a file that ends with an empty line.
Earlier(n) == [f \in {File(s, i) : s \in {UA3, IPA}, i \in 1..n} |-> <<Run!Seed("earlier", f.number, 1)>>]

Notes == File([word |-> "notes", parameter |-> 0], 1)

EmptyLine == Run!Seed("empty", 0, 0)

MCGarbage == {Run!Hole, EmptyLine}

Scenario(lines, found) == [line |-> lines, files |-> found]

ListScenarios ==
    {Scenario("b1" :> (Out @@ With(list, 1)), Earlier(n)) : list \in MCLists, n \in {0, 2}}
        \cup {Scenario("b1" :> With(list, 1), NoFiles) : list \in MCLists}

Variants == {"-d" :> 1, "-d" :> 2, "-d" :> 2 @@ "-r" :> TRUE, "-d" :> 2 @@ "-r" :> TRUE @@ Out,
             "-f" :> 1, "-f" :> 2, "-f" :> Run!Unconvertible, "-g" :> "nowhere", "-o" :> "graph",
             "--raw" :> TRUE, "-k" :> Run!Unconvertible, "-k" :> 0 @@ Out, "-k" :> 2 @@ Out}

OptionScenarios ==
    {Scenario("b1" :> (v @@ With(<<ua, wd>>, 1)), NoFiles) : v \in Variants}
        \cup {Scenario("b1" :> ("-g" :> "graph" @@ "-f" :> 0), NoFiles)}

PairScenarios ==
    {Scenario("b1" :> (Out @@ With(list, k)) @@ "b2" :> (base @@ With(<<ua>>, 2)), Earlier(n)) :
        list \in {<<ua>>, <<ua, ua>>, <<wd, ua>>}, k \in {1, 2}, base \in {Out, "-o" :> "other"}, n \in {0, 1}}

EvaluatorLine(path) == "-g" :> "graph" @@ "-f" :> 0 @@ "-p" :> path

EvaluatorVariants ==
    {With(<<>>, 1) @@ "-p" :> File(UA3, 1), "-g" :> "graph" @@ "-f" :> 0,
     "-d" :> 2 @@ EvaluatorLine(File(UA3, 1)), "-m" :> TRUE @@ EvaluatorLine(File(UA3, 1)),
     "-f" :> 2 @@ EvaluatorLine(File(UA3, 1)), "-i" :> TRUE @@ EvaluatorLine(File(UA3, 1)),
     EvaluatorLine(Notes), EvaluatorLine(File(UA3, 1))}

NotesFile == Notes :> <<Run!Seed("notes", 1, 1), EmptyLine>>

EvaluatorScenarios ==
    {Scenario("b1" :> (flags @@ Out @@ With(<<ua>>, 2)) @@ "e" :> e, Earlier(n) @@ NotesFile) :
        e \in EvaluatorVariants, flags \in {"-r" :> TRUE, "-i" :> TRUE, "-e" :> TRUE}, n \in {0, 1}}
     \cup
    {Scenario("b1" :> (Out @@ With(<<ua>>, 2)) @@ "b2" :> (Out @@ With(<<ua>>, 1))
                  @@ "e" :> EvaluatorLine(File(UA3, n)), NoFiles) : n \in {1, 2}}

MCScenarios == ListScenarios \cup OptionScenarios \cup PairScenarios \cup EvaluatorScenarios

=============================================================================
