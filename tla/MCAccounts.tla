----------------------------- MODULE MCAccounts -----------------------------
(* Small instance of Accounts for TLC.                                      *)
EXTENDS Accounts, TLC

CONSTANTS c1, c2, b1, b2

Admins == <<"hansel", "admin">>

Symmetric == Permutations(Calls) \cup Permutations(Browsers)
=============================================================================
