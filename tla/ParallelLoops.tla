--------------------------- MODULE ParallelLoops ---------------------------
(***************************************************************************)
(* The parallel loops over a range: "reduce" is the transform_reduce of    *)
(* cascadeForwardN, cascadeBackwardN and evaluateSpread, which runs one    *)
(* simulation per index and adds up what they return (the division of each *)
(* by their number is left out); "each" is the for_each of the solvers.    *)
(* The algorithms are the ones of the C++ library: the range is split into *)
(* parts, several tasks run them in any order, a part on its own or as the *)
(* continuation of the part to its left, and neighbours are joined.        *)
(***************************************************************************)
EXTENDS Integers, SequencesExt

CONSTANTS Loops,    \* records [kind, from, to]
          MostNodes \* a simulation returns a number from 1 to MostNodes

VARIABLES loop,
          parts,   \* the parts of the range, from left to right
          calls,   \* history: how often the body was called
          visits,  \* history: and how often with an index
          returned \* history: the sum of all that the simulations returned

vars == <<loop, parts, calls, visits, returned>>

-----------------------------------------------------------------------------
(* utils::range and its iterators, as the parallel algorithms use them.  A   *)
(* counter is an integer here, as no loop reaches the end of its type.  Left *)
(* out: it++ and it--, which call themselves without end, and the members of *)
(* a RangeWrapper other than begin and end, none of which is used.           *)

Iterator == [current : Int, start : Int]

RangeIterator(counter) == [current |-> counter, start |-> counter]

\* ++it
Incremented(it) == [it EXCEPT !.current = @ + 1]

\* Mutant: the distance is ignored.
AdvancedByOne(it, distance) == [it EXCEPT !.current = @ + 1]

\* it += distance
Advanced(it, distance) == [it EXCEPT !.current = @ + distance]

\* it + distance: a new iterator, that starts where it stands.
Plus(it, distance) == RangeIterator(it.current + distance)

\* it - other
Difference(it, other) == it.current - other.current

NotEqual(it, other) == it.current # other.current

Dereferenced(it) == it.current

\* it[index] counts from the start of the iterator, which an increment leaves alone.
Subscript(it, index) == it.start + index

range(from, to) == [begin |-> RangeIterator(from), end |-> RangeIterator(to)]

-----------------------------------------------------------------------------
(* The loops.                                                              *)

Reduction(n) == [kind |-> "reduce", from |-> 0, to |-> n]

\* Both diffusion models run n simulations for the average in either direction.
cascadeForwardN(n) == Reduction(n)

cascadeBackwardN(n) == Reduction(n)

evaluateSpread(simulations_) == Reduction(simulations_)

\* The nodes of a graph, and the RR sets that IMM adds to size ones.
getNodes(numberOfNodes) == [kind |-> "each", from |-> 0, to |-> numberOfNodes]

rrSets(size, missing) == [kind |-> "each", from |-> size, to |-> size + missing]

Indices == loop.from..(loop.to - 1)

Bounds == range(loop.from, loop.to)

Part(first, last) == [first |-> first, last |-> last, done |-> FALSE, sum |-> 0]

\* The task that calls the algorithm has a sum, 0, before it runs any part.
InitialPart == [Part(Bounds.begin, Bounds.begin) EXCEPT !.done = TRUE]

Init == /\ loop \in Loops
        /\ parts = <<InitialPart>> \o
                       (IF NotEqual(Bounds.begin, Bounds.end)
                        THEN <<Part(Bounds.begin, Bounds.end)>> ELSE <<>>)
        /\ calls = 0
        /\ visits = [index \in Indices |-> 0]
        /\ returned = 0

\* The parts with those from i to j replaced.
Replaced(i, j, new) == SubSeq(parts, 1, i - 1) \o new \o SubSeq(parts, j + 1, Len(parts))

\* A part of this size or less is not split any more.
Grain == IF loop.kind = "reduce" THEN 3 ELSE 1

Size(part) == Difference(part.last, part.first)

Split == \E i \in DOMAIN parts :
    LET part   == parts[i]
        middle == Plus(part.first, Size(part) \div 2)
    IN  /\ ~part.done /\ Size(part) > Grain
        /\ parts' = Replaced(i, i, <<Part(part.first, middle), Part(middle, part.last)>>)
        /\ UNCHANGED <<loop, calls, visits, returned>>

\* The indices with which the sequential loop over a part calls the body.
OneByOne(first, last) ==
    LET it[n \in Nat] == IF n = 0 THEN first ELSE Incremented(it[n - 1])
    IN  [i \in 1..Difference(last, first) |-> Dereferenced(it[i - 1])]

\* The sequential transform_reduce makes four calls at a time as long as it can.
FourByFour(first, last) ==
    LET it[n \in Nat] == IF n = 0 THEN first ELSE Advanced(it[n - 1], 4)
        fours == Difference(last, first) \div 4
    IN  [i \in 1..(4 * fours) |-> Subscript(it[(i - 1) \div 4], (i - 1) % 4)]
            \o OneByOne(it[fours], last)

\* A task without a sum starts with that of the first two calls.
TwoFirst(first, last) ==
    <<Dereferenced(first), Dereferenced(Plus(first, 1))>> \o FourByFour(Advanced(first, 2), last)

\* The calls of the body with these indices, and what they return in sum.
Call(indices, sum) ==
    /\ sum \in IF loop.kind = "reduce" THEN Len(indices)..(Len(indices) * MostNodes) ELSE {0}
    /\ calls' = calls + Len(indices)
    /\ visits' = [index \in Indices |->
                     visits[index] + Cardinality({i \in DOMAIN indices : indices[i] = index})]
    /\ returned' = returned + sum

Sums == 0..((loop.to - loop.from) * MostNodes)

\* What becomes of two neighbours of which the task of the left one runs the right one.
Continued(left, right, sum) ==
    <<[right EXCEPT !.first = left.first, !.done = TRUE, !.sum = left.sum + sum]>>

\* A task runs the part behind the one it ran last.
Continue == \E i \in 1..(Len(parts) - 1) : \E sum \in Sums :
    LET left  == parts[i]
        right == parts[i + 1]
    IN  /\ left.done /\ ~right.done
        /\ Call(IF loop.kind = "reduce" THEN FourByFour(right.first, right.last)
                ELSE OneByOne(right.first, right.last), sum)
        /\ parts' = Replaced(i, i + 1, Continued(left, right, sum))
        /\ UNCHANGED loop

\* Another task takes over a part that was split off.
RunSeparately == \E i \in 3..Len(parts) : \E sum \in Sums :
    LET part == parts[i]
    IN  /\ ~part.done
        /\ Call(IF loop.kind = "reduce" THEN TwoFirst(part.first, part.last)
                ELSE OneByOne(part.first, part.last), sum)
        /\ parts' = ReplaceAt(parts, i, [part EXCEPT !.done = TRUE, !.sum = sum])
        /\ UNCHANGED loop

Join == \E i \in 1..(Len(parts) - 1) :
    LET left  == parts[i]
        right == parts[i + 1]
    IN  /\ left.done /\ right.done
        /\ parts' = Replaced(i, i + 1, Continued(left, right, right.sum))
        /\ UNCHANGED <<loop, calls, visits, returned>>

\* No loop is running.
Idle == /\ loop = [kind |-> "each", from |-> 0, to |-> 0]
        /\ parts = <<>>
        /\ calls = 0 /\ visits = <<>> /\ returned = 0

Next == Split \/ Continue \/ RunSeparately \/ Join

-----------------------------------------------------------------------------
(* Properties, checked by module Diffusion.                                *)

Finished == Len(parts) = 1

\* However a loop is split, its body is called once for every index, and the sum
\* that is divided by the number of simulations is that of all they returned.
\* The simulations ignore the index they are called with: a reduction repeats
\* indices, as the subscript of an iterator that was advanced is wrong.
EveryIndexRunsOnce ==
    Finished => /\ calls = Cardinality(Indices)
                /\ loop.kind = "each" => \A index \in Indices : visits[index] = 1
                /\ parts[1].sum = returned

=============================================================================
