---------------------------- MODULE MCCarPricing ----------------------------
(* Small instance of CarPricing for TLC.                                    *)
EXTENDS CarPricing, TLC

CONSTANTS c1, c2, p1, p2, u1, u2

\* A part may have a value below zero.
PartValues == {-1, 3}

\* Both replacements are uploads of an administrator.
Uploads == [u \in Replacements |-> "iaai"]

Symmetric == Permutations(Calls) \cup Permutations(Parts) \cup Permutations(Replacements)
=============================================================================
