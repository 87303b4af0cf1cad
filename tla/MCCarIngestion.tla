-------------------------- MODULE MCCarIngestion --------------------------
(* Small instances of CarIngestion for TLC.                                 *)
EXTENDS CarIngestion, TLC

CONSTANTS t1, t2, b1, f1, s1, m1, u1
=============================================================================
