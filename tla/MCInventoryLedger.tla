-------------------------- MODULE MCInventoryLedger -------------------------
(* Small instance of InventoryLedger for TLC.                               *)
EXTENDS InventoryLedger, TLC

CONSTANTS c1, c2, i1, i2

\* Calls are interchangeable, and so are ids.
Symmetric == Permutations(Calls) \cup Permutations(Investments)
=============================================================================
