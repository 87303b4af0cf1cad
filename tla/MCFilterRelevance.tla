-------------------------- MODULE MCFilterRelevance -------------------------
(* Small instance of FilterRelevance for TLC.                               *)
EXTENDS FilterRelevance, TLC

CONSTANTS n1, n2, f1, f2, a2, b1, b0

\* b0 is a lot without a year, b1 one below the odometer_min of a filter.
MCCarOf == a2 :> [model |-> "a", year |-> 2, miles |-> 1]
           @@ b1 :> [model |-> "b", year |-> 1, miles |-> 0]
           @@ b0 :> [model |-> "b", year |-> None, miles |-> 1]

\* The first accepts b1 and does not match it; the second has no bound for b0 to lack.
MCForms == {[model |-> None, from |-> 1, low |-> 1],
            [model |-> "b", from |-> None, low |-> 0]}

Symmetric == Permutations(Calls) \cup Permutations(FilterIds)
=============================================================================
