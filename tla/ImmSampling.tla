---------------------------- MODULE ImmSampling ----------------------------
(***************************************************************************)
(* IMM::solve: sample RR sets in rounds of growing size until the result   *)
(* of nodeSelection is good enough to bound the optimum from below, then   *)
(* sample as many as that bound asks for, and select.  Each round is a     *)
(* parallel for_each: a task per index creates an RR set (module RrSet)    *)
(* from its own copy of the generator and inserts it under the mutex.  A   *)
(* step is what one task does between two accesses to shared state, or a   *)
(* piece of solve between two rounds.                                      *)
(*                                                                         *)
(* nodeSelection (module NodeSelection) is a step that covers any number   *)
(* of RR sets.  The real quantities are exact: (1 + epsilon_a) is          *)
(* 1707/1000, x is n / power, and the comparisons are multiplied out.      *)
(*                                                                         *)
(* The vector rr_sets_ and the result_set that solve has from its last     *)
(* selection are named apart from those that NodeSelection works on, so    *)
(* that one module can speak of both.                                      *)
(***************************************************************************)
EXTENDS Integers, SequencesExt, FiniteSetsExt

CONSTANTS NodeNumbers, \* the values of graph_.getNumberOfNodes()
          LambdaA,     \* the values of lambda_a, rounded down
          LambdaStar   \* the values of lambda_star, rounded down

ASSUME SamplingAssumption == /\ NodeNumbers \subseteq Nat \ {0}
                             /\ LambdaA \subseteq Nat \ {0}
                             /\ LambdaStar \subseteq Nat \ {0}

VARIABLES
    n, lambda_a, lambda_star,
    power,           \* 2^i in the round i, the only form in which i is used
    lower_bound,
    dsfmt,           \* the position of the generator in its stream
    all_rr_sets,     \* rr_sets_; each is [task, first_draw]: the index it was created
                     \* for (history) and the position of the generator it drew from
    rr_sets_changed,
    influence,       \* the covered sets of the last selection; f_r is their share
    selected_from,   \* the RR sets that the last selection was made from
    solve_pc,        \* "rounds": at the for loop; "sample": in the for_each of a
                     \* round; "more"; "last": in the second for_each;
                     \* "finish"; "done"
    tasks,           \* index -> "ready", "created", "locked", "joined"
    temp,            \* index -> the RR sets of the task that are not inserted yet
    end              \* index -> rr_sets_.end(), as the insertion read it

sequential_vars == <<n, lambda_a, lambda_star, power, lower_bound, dsfmt, rr_sets_changed,
                     influence, selected_from, solve_pc>>
task_vars == <<all_rr_sets, tasks, temp, end>>
solve_vars == <<sequential_vars, task_vars>>

D == 1000
E == 707

NoTasks == tasks = << >> /\ temp = << >> /\ end = << >>

SolveInit == /\ n \in NodeNumbers
             /\ lambda_a \in LambdaA
             /\ lambda_star \in LambdaStar
             /\ power = 2
             /\ lower_bound = 1
             /\ dsfmt = 0
             /\ all_rr_sets = <<>>
             /\ rr_sets_changed = FALSE
             /\ influence = 0
             /\ selected_from = <<>>
             /\ solve_pc = "rounds"
             /\ NoTasks

\* The parallel for_each over utils::range(size, size + 1 + theta - size).
StartTasks(theta) ==
    LET indices == Len(all_rr_sets)..theta
    IN  /\ tasks' = [y \in indices |-> "ready"]
        /\ temp' = [y \in indices |-> <<>>]
        /\ end' = [y \in indices |-> 0]
        /\ UNCHANGED all_rr_sets

\* Line 47: i < log2(n) - 1.
MoreRounds == 2 * power < n

theta_i == (lambda_a * power) \div n

Round == /\ solve_pc = "rounds" /\ MoreRounds
         /\ StartTasks(theta_i)
         /\ solve_pc' = "sample"
         /\ UNCHANGED <<n, lambda_a, lambda_star, power, lower_bound, dsfmt,
                        rr_sets_changed, influence, selected_from>>

RoundsEnd == /\ solve_pc = "rounds" /\ ~MoreRounds
             /\ solve_pc' = "more"
             /\ UNCHANGED <<n, lambda_a, lambda_star, power, lower_bound, dsfmt,
                            rr_sets_changed, influence, selected_from, task_vars>>

-----------------------------------------------------------------------------
(* The tasks.                                                              *)

\* createRrSet takes the generator by value: the caller's does not move.
Create(y) == /\ tasks[y] = "ready"
             /\ tasks' = [tasks EXCEPT ![y] = "created"]
             /\ temp' = [temp EXCEPT ![y] = <<[task |-> y, first_draw |-> dsfmt]>>]
             /\ UNCHANGED <<sequential_vars, all_rr_sets, end>>

\* Mutant: the lock_guard is missing.
LockIsAlwaysFree == TRUE

\* Mutant: the mutex is locked and never unlocked.
LockWasNeverTaken == \A y \in DOMAIN tasks : tasks[y] \notin {"locked", "joined"}

LockIsFree == \A y \in DOMAIN tasks : tasks[y] # "locked"

Lock(y) == /\ tasks[y] = "created"
           /\ LockIsFree
           /\ tasks' = [tasks EXCEPT ![y] = "locked"]
           /\ end' = [end EXCEPT ![y] = Len(all_rr_sets)]
           /\ UNCHANGED <<sequential_vars, all_rr_sets, temp>>

\* The insertion at the end that was read; unlocks.
Insert(y) == /\ tasks[y] = "locked"
             /\ all_rr_sets' = SubSeq(all_rr_sets, 1, end[y]) \o temp[y]
             /\ temp' = [temp EXCEPT ![y] = <<>>]
             /\ tasks' = [tasks EXCEPT ![y] = "joined"]
             /\ UNCHANGED <<sequential_vars, end>>

Task(y) == Create(y) \/ Lock(y) \/ Insert(y)

Joined == \A y \in DOMAIN tasks : tasks[y] = "joined"

-----------------------------------------------------------------------------
(* Between the rounds.                                                     *)

\* nodeSelection on the RR sets there are.
Select == /\ selected_from' = all_rr_sets
          /\ influence' \in 0..Len(all_rr_sets)

\* Line 73: n * f_r >= (1 + epsilon_a) * x, with f_r the share of the sets.
GoodEnough == influence' * power * D >= (D + E) * Len(all_rr_sets)

\* Line 74, truncated to the int that lower_bound is.
NewLowerBound == (n * influence' * D) \div ((D + E) * Len(all_rr_sets))

Check == /\ solve_pc = "sample" /\ Joined
         /\ Select
         /\ IF GoodEnough
            THEN lower_bound' = NewLowerBound /\ solve_pc' = "more" /\ UNCHANGED power
            ELSE power' = 2 * power /\ solve_pc' = "rounds" /\ UNCHANGED lower_bound
         /\ tasks' = << >> /\ temp' = << >> /\ end' = << >>
         /\ UNCHANGED <<n, lambda_a, lambda_star, dsfmt, all_rr_sets, rr_sets_changed>>

\* Mutant: theta is rounded down before the comparison.
MissingOfRounded == Len(all_rr_sets) < lambda_star \div lower_bound

\* Line 83: rr_sets_.size() < theta, with theta = lambda_star / lower_bound.
Missing == Len(all_rr_sets) * lower_bound < lambda_star

\* Mutant: line 85 is missing.
KeepsFlag == FALSE

SetsFlag == TRUE

More == /\ solve_pc = "more" /\ Missing
        /\ rr_sets_changed' = SetsFlag
        /\ StartTasks(lambda_star \div lower_bound)
        /\ solve_pc' = "last"
        /\ UNCHANGED <<n, lambda_a, lambda_star, power, lower_bound, dsfmt, influence,
                       selected_from>>

NoMore == /\ solve_pc = "more" /\ ~Missing
          /\ solve_pc' = "finish"
          /\ UNCHANGED <<n, lambda_a, lambda_star, power, lower_bound, dsfmt,
                         rr_sets_changed, influence, selected_from, task_vars>>

LastJoined == /\ solve_pc = "last" /\ Joined
              /\ solve_pc' = "finish"
              /\ tasks' = << >> /\ temp' = << >> /\ end' = << >>
              /\ UNCHANGED <<n, lambda_a, lambda_star, power, lower_bound, dsfmt, all_rr_sets,
                             rr_sets_changed, influence, selected_from>>

ReturnResult == /\ solve_pc = "finish"
                /\ IF rr_sets_changed THEN Select ELSE UNCHANGED <<selected_from, influence>>
                /\ solve_pc' = "done"
                /\ UNCHANGED <<n, lambda_a, lambda_star, power, lower_bound, dsfmt,
                               rr_sets_changed, task_vars>>

SolveNext == \/ Round \/ RoundsEnd \/ Check \/ More \/ NoMore \/ LastJoined \/ ReturnResult
             \/ \E y \in DOMAIN tasks : Task(y)

SolveSpec == SolveInit /\ [][SolveNext]_solve_vars

\* The calling thread works on the tasks itself, so that one of them is always
\* advanced; for_each returns when all have ended.
FairSolveSpec == SolveSpec /\ WF_solve_vars(SolveNext)

-----------------------------------------------------------------------------
(* Properties.                                                             *)

RrSet == [task : Nat, first_draw : Nat]

SolveTypeOK == /\ n \in NodeNumbers /\ lambda_a \in LambdaA /\ lambda_star \in LambdaStar
               /\ power \in Nat \ {0}
               /\ lower_bound \in 1..n
               /\ dsfmt \in Nat
               /\ all_rr_sets \in Seq(RrSet) /\ selected_from \in Seq(RrSet)
               /\ rr_sets_changed \in BOOLEAN
               /\ influence \in Nat
               /\ solve_pc \in {"rounds", "sample", "more", "last", "finish", "done"}
               /\ tasks \in [DOMAIN tasks -> {"ready", "created", "locked", "joined"}]
               /\ temp \in [DOMAIN tasks -> Seq(RrSet)]
               /\ end \in [DOMAIN tasks -> Nat]

Kept == {r.task : r \in Range(all_rr_sets)}

\* However the tasks interleave, each RR set that was created is inserted once
\* and stays: all_rr_sets holds one for every task that ended, of this round and of
\* the earlier ones, whose indices are those below the range of this round.
EveryRrSetIsKept ==
    /\ SolveTypeOK
    /\ Cardinality(Kept) = Len(all_rr_sets)
    /\ \A y \in DOMAIN tasks : tasks[y] = "joined" <=> y \in Kept
    /\ tasks = << >> => Kept = 0..(Len(all_rr_sets) - 1)

\* The result is selected from theta = lambda_star / lower_bound RR sets or more,
\* the number from which the guarantee of the algorithm follows.
EnoughRrSets == solve_pc = "done" => Len(all_rr_sets) * lower_bound >= lambda_star

\* The selection that solve returns, possibly kept from the last round, was made
\* from all the RR sets: it was repeated if the second loop added any.
ResultIsUpToDate == solve_pc = "done" => selected_from = all_rr_sets

\* All tasks end, also those that wait for the mutex, and solve returns.
Terminates == <>(solve_pc = "done")

\* IMM.hpp:25, "creates and returns a random rr set": an RR set does not repeat
\* the random numbers of another one.
EachRrSetIsRandom ==
    \A j, l \in 1..Len(all_rr_sets) :
        j # l => all_rr_sets[j].first_draw # all_rr_sets[l].first_draw

=============================================================================
