------------------------------ MODULE FeeTable ------------------------------
(***************************************************************************)
(* The fee rows of the auctions.  A replacement - the Celery task for      *)
(* copart (update_car_fees, which beat no longer sends: its entry is       *)
(* commented out), an administrator's upload for iaai                      *)
(* (proxy_upload) - deletes the rows of its auction and inserts those of   *)
(* the parsers' answer in one transaction.  Under READ COMMITTED its       *)
(* DELETE sees the rows committed when it starts, and waits for a          *)
(* transaction that is deleting one of them.  Rows are also added, changed *)
(* and deleted one by one (routers/fee.py).  A row here stands for all     *)
(* rows one answer brings; what a price depends on is the sum of the       *)
(* amounts.                                                                *)
(***************************************************************************)
EXTENDS Integers, FiniteSets, FiniteSetsExt

CONSTANTS
  Replacements,  \* replacements of either kind
  AuctionOf,     \* the auction each is of: copart of the task, iaai of the upload
  Amounts,       \* sums of fees an answer, or a row entered by hand, may bring
  DefaultFee,    \* the fixed fees proxy_upload falls back to
  MaxFeeEdits    \* bound: rows entered, changed or deleted by hand

ASSUME FeeAssumption ==
  Amounts \subseteq Nat /\ DefaultFee \in Nat /\ MaxFeeEdits \in Nat

VARIABLES
  fees,      \* table fees: the rows of each auction
  replace,   \* what each replacement is doing
  overlaps,  \* replacements that ran while another one of the auction did
  feeEdits

feeVars == <<fees, replace, overlaps, feeEdits>>

-----------------------------------------------------------------------------
Auctions == {"copart", "iaai"}

ASSUME AuctionAssumption == AuctionOf \in [Replacements -> Auctions]

Manual == "manual"
ASSUME ManualIsNoReplacement == Manual \notin Replacements

Row == [by : Replacements \cup {Manual}, amount : Amounts \cup {DefaultFee}]

NoReplacement == [pc |-> "idle", auction |-> "copart", rows |-> {}]

FeeTypeOK ==
  /\ fees \in [Auctions -> SUBSET Row]
  /\ replace \in [Replacements ->
       [pc : {"idle", "deleting", "deleted", "done"}, auction : Auctions,
        rows : SUBSET Row]]
  /\ overlaps \subseteq Replacements
  /\ feeEdits \in 0 .. MaxFeeEdits

FeeInit ==
  /\ fees = [a \in Auctions |-> {}]
  /\ replace = [u \in Replacements |-> NoReplacement]
  /\ overlaps = {} /\ feeEdits = 0

-----------------------------------------------------------------------------
\* Replacements of auction a between the start of their DELETE and the commit.
Replacing(a) == {u \in Replacements : /\ replace[u].auction = a
                                      /\ replace[u].pc \in {"deleting", "deleted"}}

\* _load_fees and _apply_fees: what the committed rows amount to.
FeeTotal(a) == MapThenSumSet(LAMBDA r : r.amount, fees[a])

\* The parsers have answered; the DELETE takes its snapshot.  A failing
\* scrape ends update_car_fees before it has deleted anything.
ReplaceBegin(u, a) ==
  /\ replace[u].pc = "idle"
  /\ replace' = [replace EXCEPT ![u] = [pc |-> "deleting", auction |-> a,
                                        rows |-> fees[a]]]
  /\ overlaps' = overlaps \cup
       (IF Replacing(a) = {} THEN {} ELSE Replacing(a) \cup {u})
  /\ UNCHANGED <<fees, feeEdits>>

\* It waits for those who are deleting the same rows, and skips what is gone.
ReplaceDelete(u) ==
  LET a == replace[u].auction
  IN /\ replace[u].pc = "deleting"
     /\ \A v \in Replacing(a) \ {u} :
          replace[v].pc = "deleted" => replace[v].rows \cap replace[u].rows = {}
     /\ replace' = [replace EXCEPT ![u].pc = "deleted", ![u].rows = @ \cap fees[a]]
     /\ UNCHANGED <<fees, overlaps, feeEdits>>

\* Mutant: the rows of earlier answers are left where they are.
AppendRows(u, amount) ==
  /\ replace[u].pc = "deleted"
  /\ fees' = [fees EXCEPT ![replace[u].auction] =
                @ \cup {[by |-> u, amount |-> amount]}]
  /\ replace' = [replace EXCEPT ![u].pc = "done", ![u].rows = {}]
  /\ UNCHANGED <<overlaps, feeEdits>>

\* INSERT and COMMIT.  An answer of the parsers without fees makes proxy_upload
\* insert its fixed fees only; update_car_fees has failed before.
ReplaceCommit(u, amount) ==
  LET a == replace[u].auction
  IN /\ replace[u].pc = "deleted"
     /\ amount \in Amounts \/ a = "iaai"
     /\ fees' = [fees EXCEPT ![a] = (@ \ replace[u].rows)
                                      \cup {[by |-> u, amount |-> amount]}]
     /\ replace' = [replace EXCEPT ![u].pc = "done", ![u].rows = {}]
     /\ UNCHANGED <<overlaps, feeEdits>>

\* An answer out of shape, or a lost connection, rolls the DELETE back.
ReplaceFail(u) ==
  /\ replace[u].pc \in {"deleting", "deleted"}
  /\ replace' = [replace EXCEPT ![u].pc = "done", ![u].rows = {}]
  /\ UNCHANGED <<fees, overlaps, feeEdits>>

\* POST, DELETE and PUT on /fees; a row another transaction is deleting is waited
\* for and then gone.
CreateFee(a, amount) ==
  /\ feeEdits < MaxFeeEdits /\ feeEdits' = feeEdits + 1
  /\ fees' = [fees EXCEPT ![a] = @ \cup {[by |-> Manual, amount |-> amount]}]
  /\ UNCHANGED <<replace, overlaps>>

DeleteFee(a) ==
  /\ feeEdits < MaxFeeEdits /\ feeEdits' = feeEdits + 1
  /\ \E r \in fees[a] :
       /\ \A u \in Replacing(a) :
            replace[u].pc = "deleted" => r \notin replace[u].rows
       /\ fees' = [fees EXCEPT ![a] = @ \ {r}]
  /\ UNCHANGED <<replace, overlaps>>

\* The change of a row, one entered by hand from then on, may move it to another
\* auction.  A DELETE that has seen the row looks at it again, and takes it if
\* it is still of its auction.
UpdateFee(a, b, amount) ==
  LET new == [by |-> Manual, amount |-> amount]
  IN /\ feeEdits < MaxFeeEdits /\ feeEdits' = feeEdits + 1
     /\ \E r \in fees[a] :
          /\ \A u \in Replacing(a) :
               replace[u].pc = "deleted" => r \notin replace[u].rows
          /\ fees' = [c \in Auctions |-> (fees[c] \ (IF c = a THEN {r} ELSE {}))
                                          \cup (IF c = b THEN {new} ELSE {})]
          /\ replace' = [u \in Replacements |->
               IF a = b /\ u \in Replacing(a) /\ r \in replace[u].rows
               THEN [replace[u] EXCEPT !.rows = @ \cup {new}] ELSE replace[u]]
     /\ UNCHANGED overlaps

FeeNext ==
  \/ \E u \in Replacements : ReplaceBegin(u, AuctionOf[u])
  \/ \E u \in Replacements : ReplaceDelete(u)
  \/ \E u \in Replacements, amount \in Amounts \cup {DefaultFee} :
       ReplaceCommit(u, amount)
  \/ \E u \in Replacements : ReplaceFail(u)
  \/ \E a \in Auctions, amount \in Amounts : CreateFee(a, amount)
  \/ \E a \in Auctions : DeleteFee(a)
  \/ \E a, b \in Auctions, amount \in Amounts : UpdateFee(a, b, amount)

-----------------------------------------------------------------------------
(* Properties.                                                              *)

\* A car is charged the fees of one answer: the rows of two replacements are in
\* the table together only if these have overlapped, which nothing prevents
\* (admin.py:607-662, task.py:952-1010): the later DELETE does not see the rows the
\* earlier transaction inserts.
FeesOfOneAnswer ==
  \A a \in Auctions : \A r, s \in fees[a] :
    r.by # s.by /\ {r.by, s.by} \subseteq Replacements
      => {r.by, s.by} \subseteq overlaps
=============================================================================
