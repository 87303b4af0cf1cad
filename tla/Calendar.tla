------------------------------ MODULE Calendar ------------------------------
(***************************************************************************)
(* What the filter kickoff queue promises, without filters, transactions,  *)
(* brokers or workers: a calendar of kickoffs.  A job is booked at most    *)
(* once, its slot lies at least Interval behind every slot booked at that  *)
(* moment, the slot never moves, and a job that is over never comes back.  *)
(***************************************************************************)
EXTENDS Integers

CONSTANTS Jobs, Interval

VARIABLES
  stage,  \* of each job
  slot    \* of each booked job, 0 for the others

vars == <<stage, slot>>

Stages == {"unused", "booked", "over"}

TypeOK == stage \in [Jobs -> Stages] /\ slot \in [Jobs -> Nat]

Booked == {j \in Jobs : stage[j] = "booked"}

Init == /\ stage = [j \in Jobs |-> "unused"]
        /\ slot = [j \in Jobs |-> 0]

Book(j) ==
  /\ stage[j] = "unused"
  /\ stage' = [stage EXCEPT ![j] = "booked"]
  /\ slot'[j] \in Nat
  /\ \A k \in Booked : slot'[j] >= slot[k] + Interval
  /\ slot' = [slot EXCEPT ![j] = slot'[j]]

\* Jobs end for many reasons: done, failed, deleted, or given up while still
\* being booked.
End(S) ==
  /\ stage' = [j \in Jobs |-> IF j \in S THEN "over" ELSE stage[j]]
  /\ slot' = [j \in Jobs |-> IF j \in S THEN 0 ELSE slot[j]]

Next == \/ \E j \in Jobs : Book(j)
        \/ \E S \in SUBSET Jobs : End(S)

Spec == Init /\ [][Next]_vars

\* Any two booked jobs are at least Interval apart.
Spaced ==
  \A i, j \in Booked : i # j => \/ slot[i] >= slot[j] + Interval
                                \/ slot[j] >= slot[i] + Interval
=============================================================================
