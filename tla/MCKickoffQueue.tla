--------------------------- MODULE MCKickoffQueue ---------------------------
(* Small instances of KickoffQueue for TLC; each cfg takes its sets of      *)
(* requests, dispatch runs and workers from these model values.             *)
EXTENDS KickoffQueue, TLC

CONSTANTS r1, r2, d1, d2, w1, w2

\* Calls, dispatch runs and workers are interchangeable.
Symmetric == Permutations(Requests) \cup Permutations(Dispatchers)
               \cup Permutations(Workers)
=============================================================================
