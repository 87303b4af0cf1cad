--------------------------- MODULE MCCarParsing ---------------------------
(* Small instances of CarParsing for TLC.                                   *)
EXTENDS CarParsing, TLC

CONSTANTS t1, t2, b1, f1, s1

\* Parse tasks are interchangeable.
Symmetric == Permutations(Tasks)
=============================================================================
