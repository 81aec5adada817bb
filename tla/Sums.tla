-------------------------------- MODULE Sums --------------------------------
(***************************************************************************)
(* std::transform_reduce with std::plus over a list: what the library adds *)
(* up does not depend on the order, so that one order stands for all.      *)
(***************************************************************************)
EXTENDS Integers, Sequences

\* The sum of a list of numbers.
SumOfSeq(s) ==
    LET sum[i \in 0..Len(s)] == IF i = 0 THEN 0 ELSE sum[i - 1] + s[i]
    IN  sum[Len(s)]

\* The sum of what each edge of a list contributes.
SumOver(edges, value(_)) == SumOfSeq([i \in 1..Len(edges) |-> value(edges[i])])

=============================================================================
