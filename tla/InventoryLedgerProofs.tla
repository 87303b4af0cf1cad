------------------------ MODULE InventoryLedgerProofs -----------------------
(***************************************************************************)
(* Proofs about InventoryLedger for every number of calls, investments,    *)
(* types and costs and every bound.  Nothing here depends on what a sum    *)
(* is, only on which rows it was taken of.                                 *)
(***************************************************************************)
EXTENDS InventoryLedger, TLAPS

USE DEF callVars

-----------------------------------------------------------------------------
(* Shapes of the state                                                     *)

Pcs == {"idle", "insert", "refresh", "deleting", "recompute", "summed", "locked",
        "sale", "dropping"}
HasSums == {"insert", "summed", "locked"}

\* What the proofs need of the types: rows, and the fields steps read.
Shape ==
  /\ inventory = [present |-> inventory.present, totals |-> inventory.totals,
                  vehicle_cost |-> inventory.vehicle_cost,
                  final_sale_price |-> inventory.final_sale_price,
                  net_profit |-> inventory.net_profit]
  /\ inventory.present \in BOOLEAN
  /\ investments \in [Investments -> Row \cup {NoRow}]
  /\ call = [c \in Calls |-> call[c]]
  /\ \A c \in Calls :
       /\ call[c].pc \in Pcs
       /\ call[c].pc \in {"insert", "refresh", "deleting"} => call[c].id \in Investments
       /\ call[c].pc = "insert" => call[c].row \in Row

\* A step of call c sets it to new, and writes rows of the right form.
LEMMA KeepShape ==
  ASSUME Shape, NEW c \in Calls, NEW new, Become(c, new), new.pc \in Pcs,
         new.pc \in {"insert", "refresh", "deleting"} => new.id \in Investments,
         new.pc = "insert" => new.row \in Row,
         inventory' = [present |-> inventory'.present, totals |-> inventory'.totals,
                       vehicle_cost |-> inventory'.vehicle_cost,
                       final_sale_price |-> inventory'.final_sale_price,
                       net_profit |-> inventory'.net_profit],
         inventory'.present \in BOOLEAN,
         investments' \in [Investments -> Row \cup {NoRow}]
  PROVE  /\ Shape'
         /\ call'[c] = new
         /\ \A d \in Calls : d # c => call'[d] = call[d]
<1>1. call'[c] = new /\ \A d \in Calls : d # c => call'[d] = call[d]
  BY DEF Shape, Become
<1>2. call' = [d \in Calls |-> call'[d]]
  BY DEF Shape, Become
<1>3. QED
  BY <1>1, <1>2 DEF Shape

\* The same for a step that leaves the inventory row and the investments alone.
LEMMA KeepShapeOfRows ==
  ASSUME Shape, NEW c \in Calls, NEW new, Become(c, new), new.pc \in Pcs,
         new.pc \in {"insert", "refresh", "deleting"} => new.id \in Investments,
         new.pc = "insert" => new.row \in Row,
         UNCHANGED <<inventory, investments>>
  PROVE  /\ Shape'
         /\ call'[c] = new
         /\ \A d \in Calls : d # c => call'[d] = call[d]
BY KeepShape DEF Shape

-----------------------------------------------------------------------------
(* The inductive invariant                                                 *)

\* An insert holds its inventory; without an inventory nothing is stored.
OrphanInv ==
  /\ NoOrphanInvestments
  /\ \A d \in Calls : call[d].pc = "insert" => inventory.present

\* A call about to delete an investment has put that on record.
RecordInv ==
  /\ DeletionsRecorded
  /\ \A d \in Calls :
       call[d].pc = "deleting" => call[d].id \in history \/ ~inventory.present

\* The sums of a call no commit has overlapped are the sums of the rows that
\* are stored once the call is through.
FreshInv ==
  \A d \in Calls \ overlapped :
    /\ call[d].pc \in {"summed", "locked"} => call[d].sums = SumsOf(investments)
    /\ call[d].pc = "insert"
       => call[d].sums = SumsOf([investments EXCEPT ![call[d].id] = call[d].row])

\* Call d will still write the totals if it lives.
Owes(d) ==
  \/ call[d].pc \in {"recompute", "summed"}
  \/ call[d].pc = "refresh" /\ Stored(call[d].id)

TotalsInv ==
  inventory.present /\ ~tainted
  => inventory.totals = SumsOf(investments) \/ \E d \in Calls : Owes(d)

LedgerInv == Shape /\ OrphanInv /\ RecordInv /\ FreshInv /\ TotalsInv

\* The rows of the table are told from its gaps by their type.
LEMMA RowsAreStored == \A row \in Row : row # NoRow
BY NoneAssumption DEF Row, NoRow

\* A step of call c that reads: it writes neither the inventory nor an
\* investment, may add to the history, and gives up no write it owes unless
\* the totals count as tainted from then on.
LEMMA ReadingStep ==
  ASSUME LedgerInv, NEW c \in Calls, NEW new, Become(c, new), new.pc \in Pcs,
         new.pc \in {"insert", "refresh", "deleting"} => new.id \in Investments,
         new.pc = "insert" => new.row \in Row /\ inventory.present,
         new.pc = "deleting" => new.id \in history',
         c \notin overlapped' =>
           /\ new.pc \in {"summed", "locked"} => new.sums = SumsOf(investments)
           /\ new.pc = "insert"
              => new.sums = SumsOf([investments EXCEPT ![new.id] = new.row]),
         Owes(c) => tainted' \/ new.pc = "summed",
         tainted => tainted',
         overlapped \subseteq overlapped' \cup {c}, history \subseteq history',
         UNCHANGED <<inventory, investments, deleted>>
  PROVE  LedgerInv'
<1>1. /\ Shape'
      /\ call'[c] = new
      /\ \A d \in Calls : d # c => call'[d] = call[d]
  BY KeepShapeOfRows DEF LedgerInv
<1>2. OrphanInv'
  BY <1>1 DEF LedgerInv, OrphanInv, NoOrphanInvestments, Stored
<1>3. RecordInv'
  <2>1. DeletionsRecorded'
    BY DEF LedgerInv, RecordInv, DeletionsRecorded
  <2>2. ASSUME NEW d \in Calls, call'[d].pc = "deleting"
        PROVE  call'[d].id \in history' \/ ~inventory'.present
    BY <1>1, <2>2 DEF LedgerInv, RecordInv
  <2>3. QED
    BY <2>1, <2>2 DEF RecordInv
<1>4. FreshInv'
  <2>1. ASSUME NEW d \in Calls, d \notin overlapped'
        PROVE  /\ call'[d].pc \in {"summed", "locked"}
                  => call'[d].sums = SumsOf(investments')
               /\ call'[d].pc = "insert"
                  => call'[d].sums
                     = SumsOf([investments' EXCEPT ![call'[d].id] = call'[d].row])
    <3>1. CASE d = c
      BY <1>1, <2>1, <3>1
    <3>2. CASE d # c
      BY <1>1, <2>1, <3>2 DEF LedgerInv, FreshInv
    <3>3. QED
      BY <3>1, <3>2
  <2>2. QED
    BY <2>1 DEF FreshInv
<1>5. TotalsInv'
  <2>1. SUFFICES ASSUME inventory'.present, ~tainted',
                        inventory'.totals # SumsOf(investments')
                 PROVE  \E d \in Calls : Owes(d)'
    BY DEF TotalsInv
  <2>2. PICK d \in Calls : Owes(d)
    BY <2>1 DEF LedgerInv, TotalsInv
  <2>3. CASE d = c
    BY <1>1, <2>1, <2>2, <2>3 DEF Owes
  <2>4. CASE d # c
    BY <1>1, <2>2, <2>4 DEF Owes, Stored
  <2>5. QED
    BY <2>3, <2>4
<1>6. QED
  BY <1>1, <1>2, <1>3, <1>4, <1>5 DEF LedgerInv

\* A step of call c that leaves all investments alone and writes the inventory
\* row, with sums of its own (stored) or without.
LEMMA WritingStep ==
  ASSUME LedgerInv, NEW c \in Calls, Become(c, Idle),
         inventory' = [present |-> inventory'.present, totals |-> inventory'.totals,
                       vehicle_cost |-> inventory'.vehicle_cost,
                       final_sale_price |-> inventory'.final_sale_price,
                       net_profit |-> inventory'.net_profit],
         inventory'.present = inventory.present,
         \/ /\ call[c].pc \in {"summed", "locked"}
            /\ inventory.present
            /\ inventory'.totals = call[c].sums
            /\ c \in overlapped => tainted'
         \/ /\ ~Owes(c)
            /\ inventory'.totals = inventory.totals
            /\ tainted => tainted'
         \/ ~inventory.present,
         overlapped \subseteq overlapped' \cup {c},
         UNCHANGED <<investments, deleted, history>>
  PROVE  LedgerInv'
<1>1. /\ Shape'
      /\ call'[c] = Idle
      /\ \A d \in Calls : d # c => call'[d] = call[d]
  BY KeepShape DEF LedgerInv, Shape, Idle, Pcs
<1>2. OrphanInv'
  BY <1>1 DEF LedgerInv, OrphanInv, NoOrphanInvestments, Stored, Idle
<1>3. RecordInv'
  BY <1>1 DEF LedgerInv, RecordInv, DeletionsRecorded, Idle
<1>4. FreshInv'
  <2>1. ASSUME NEW d \in Calls, d \notin overlapped'
        PROVE  /\ call'[d].pc \in {"summed", "locked"}
                  => call'[d].sums = SumsOf(investments')
               /\ call'[d].pc = "insert"
                  => call'[d].sums
                     = SumsOf([investments' EXCEPT ![call'[d].id] = call'[d].row])
    <3>1. CASE d = c
      BY <1>1, <2>1, <3>1 DEF Idle
    <3>2. CASE d # c
      BY <1>1, <2>1, <3>2 DEF LedgerInv, FreshInv
    <3>3. QED
      BY <3>1, <3>2
  <2>2. QED
    BY <2>1 DEF FreshInv
<1>5. TotalsInv'
  <2>1. SUFFICES ASSUME inventory'.present, ~tainted',
                        inventory'.totals # SumsOf(investments')
                 PROVE  \E d \in Calls : Owes(d)'
    BY DEF TotalsInv
  <2>2. ~(call[c].pc \in {"summed", "locked"} /\ inventory'.totals = call[c].sums
          /\ c \notin overlapped)
    BY <2>1 DEF LedgerInv, FreshInv
  <2>3. ~Owes(c) /\ ~tainted /\ inventory'.totals = inventory.totals
    BY <2>1, <2>2
  <2>4. PICK d \in Calls : Owes(d)
    BY <2>1, <2>3 DEF LedgerInv, TotalsInv
  <2>5. QED
    BY <1>1, <2>3, <2>4 DEF Owes, Stored
<1>6. QED
  BY <1>1, <1>2, <1>3, <1>4, <1>5 DEF LedgerInv

\* A step of call c that changes investments: every other call that has its
\* sums is overlapped from then on.
LEMMA ChangingStep ==
  ASSUME LedgerInv, NEW c \in Calls, NEW new, Become(c, new), new.pc \in Pcs,
         new.pc \in {"insert", "refresh", "deleting"} => new.id \in Investments,
         new.pc \notin {"insert", "deleting", "summed", "locked"},
         inventory' = [present |-> inventory'.present, totals |-> inventory'.totals,
                       vehicle_cost |-> inventory'.vehicle_cost,
                       final_sale_price |-> inventory'.final_sale_price,
                       net_profit |-> inventory'.net_profit],
         inventory'.present \in BOOLEAN,
         inventory'.present => inventory.present,
         investments' \in [Investments -> Row \cup {NoRow}],
         ~inventory'.present
         => /\ \A i \in Investments : investments'[i] = NoRow
            /\ \A d \in Calls \ {c} : call[d].pc # "insert",
         inventory'.present => deleted' \subseteq history' /\ history' = history,
         inventory'.present /\ ~tainted'
         => \/ inventory'.totals = SumsOf(investments')
            \/ Owes(c)',
         overlapped \cup HaveSums(c) \subseteq overlapped' \cup {c}
  PROVE  LedgerInv'
<1>1. /\ Shape'
      /\ call'[c] = new
      /\ \A d \in Calls : d # c => call'[d] = call[d]
  BY KeepShape DEF LedgerInv
<1>2. OrphanInv'
  BY <1>1 DEF LedgerInv, Shape, OrphanInv, NoOrphanInvestments, Stored
<1>3. RecordInv'
  BY <1>1 DEF LedgerInv, RecordInv, DeletionsRecorded
<1>4. FreshInv'
  BY <1>1 DEF FreshInv, HaveSums
<1>5. TotalsInv'
  BY DEF TotalsInv
<1>6. QED
  BY <1>1, <1>2, <1>3, <1>4, <1>5 DEF LedgerInv

-----------------------------------------------------------------------------
(* Every step keeps it                                                     *)

\* The inventory row keeps its form when single columns are replaced.
LEMMA RowKeepsForm ==
  ASSUME Shape, NEW a, NEW b
  PROVE  /\ inventory = [present |-> inventory.present, totals |-> inventory.totals,
                         vehicle_cost |-> inventory.vehicle_cost,
                         final_sale_price |-> inventory.final_sale_price,
                         net_profit |-> inventory.net_profit]
         /\ [inventory EXCEPT !.totals = a]
            = [present |-> inventory.present, totals |-> a,
               vehicle_cost |-> inventory.vehicle_cost,
               final_sale_price |-> inventory.final_sale_price,
               net_profit |-> inventory.net_profit]
         /\ [inventory EXCEPT !.final_sale_price = a, !.net_profit = b]
            = [present |-> inventory.present, totals |-> inventory.totals,
               vehicle_cost |-> inventory.vehicle_cost,
               final_sale_price |-> a, net_profit |-> b]
         /\ [inventory EXCEPT !.present = a]
            = [present |-> a, totals |-> inventory.totals,
               vehicle_cost |-> inventory.vehicle_cost,
               final_sale_price |-> inventory.final_sale_price,
               net_profit |-> inventory.net_profit]
<1>1. PICK p, t, v, f, n :
        inventory = [present |-> p, totals |-> t, vehicle_cost |-> v,
                     final_sale_price |-> f, net_profit |-> n]
  BY DEF Shape
<1>2. /\ inventory.present = p /\ inventory.totals = t /\ inventory.vehicle_cost = v
      /\ inventory.final_sale_price = f /\ inventory.net_profit = n
  BY <1>1
<1>3. [inventory EXCEPT !.totals = a]
      = [present |-> p, totals |-> a, vehicle_cost |-> v,
         final_sale_price |-> f, net_profit |-> n]
  BY <1>1
<1>4. [inventory EXCEPT !.final_sale_price = a, !.net_profit = b]
      = [present |-> p, totals |-> t, vehicle_cost |-> v,
         final_sale_price |-> a, net_profit |-> b]
  <2>1. [inventory EXCEPT !.final_sale_price = a]
        = [present |-> p, totals |-> t, vehicle_cost |-> v,
           final_sale_price |-> a, net_profit |-> n]
    BY <1>1
  <2>2. PICK sold : sold = [inventory EXCEPT !.final_sale_price = a]
    OBVIOUS
  <2>3. [sold EXCEPT !.net_profit = b]
        = [present |-> p, totals |-> t, vehicle_cost |-> v,
           final_sale_price |-> a, net_profit |-> b]
    <3>1. sold = [present |-> p, totals |-> t, vehicle_cost |-> v,
                  final_sale_price |-> a, net_profit |-> n]
      BY <2>1, <2>2
    <3>2. QED
      BY ONLY <3>1
  <2>4. [inventory EXCEPT !.final_sale_price = a, !.net_profit = b]
        = [sold EXCEPT !.net_profit = b]
    BY <2>2
  <2>5. QED
    BY <2>3, <2>4
<1>5. [inventory EXCEPT !.present = a]
      = [present |-> a, totals |-> t, vehicle_cost |-> v,
         final_sale_price |-> f, net_profit |-> n]
  BY <1>1
<1>6. QED
  BY <1>1, <1>2, <1>3, <1>4, <1>5

\* What StoreTotals writes.
LEMMA StoringTotals ==
  ASSUME Shape, NEW c \in Calls, NEW a, NEW b,
         \/ StoreTotals(c, inventory)
         \/ StoreTotals(c, [inventory EXCEPT !.vehicle_cost = a,
                                             !.final_sale_price = b])
  PROVE  /\ inventory' = [present |-> inventory'.present, totals |-> inventory'.totals,
                          vehicle_cost |-> inventory'.vehicle_cost,
                          final_sale_price |-> inventory'.final_sale_price,
                          net_profit |-> inventory'.net_profit]
         /\ inventory'.present = inventory.present
         /\ inventory'.totals = call[c].sums
         /\ tainted' = (c \in overlapped)
BY DEF Shape, StoreTotals

\* The steps that only read, and a call that dies.
LEMMA ReadingActions ==
  ASSUME LedgerInv, NEW c \in Calls,
         \/ \E i \in Investments, row \in Row : CreateInvestment(c, i, row)
         \/ RefreshInvestment(c) \/ RefreshFails(c)
         \/ \E i \in Investments : RecordDeletion(c, i)
         \/ ReadSums(c)
         \/ \E cost \in Prices, price \in Prices \cup {None} :
              UpdateInventory(c, cost, price)
         \/ \E price \in Prices : ReadForSale(c, price)
         \/ RecordInventoryDeletion(c)
         \/ Crash(c)
  PROVE  LedgerInv'
<1>1. CASE \E i \in Investments, row \in Row : CreateInvestment(c, i, row)
  <2>1. PICK i \in Investments, row \in Row : CreateInvestment(c, i, row)
    BY <1>1
  <2> DEFINE new == [Idle EXCEPT !.pc = "insert", !.id = i, !.row = row,
                                 !.sums = SumsWith(i, row)]
  <2>2. /\ new.pc = "insert" /\ new.id = i /\ new.row = row
        /\ new.sums = SumsOf([investments EXCEPT ![i] = row])
    BY DEF Idle, SumsWith
  <2>3. ~Owes(c)
    BY <2>1 DEF CreateInvestment, Owes
  <2>4. /\ Become(c, new) /\ inventory.present /\ overlapped' = overlapped \ {c}
        /\ UNCHANGED <<inventory, investments, history, deleted, tainted>>
    BY <2>1 DEF CreateInvestment
  <2> HIDE DEF new
  <2>5. QED
    BY <2>2, <2>3, <2>4, ReadingStep DEF Pcs
<1>2. CASE RefreshInvestment(c) \/ ReadSums(c)
  <2> DEFINE new == [Idle EXCEPT !.pc = "summed", !.sums = SumsOf(investments)]
  <2>1. new.pc = "summed" /\ new.sums = SumsOf(investments)
    BY DEF Idle
  <2>2. /\ Become(c, new) /\ overlapped' = overlapped \ {c}
        /\ UNCHANGED <<inventory, investments, history, deleted, tainted>>
    BY <1>2 DEF RefreshInvestment, ReadSums
  <2> HIDE DEF new
  <2>3. QED
    BY <2>1, <2>2, ReadingStep DEF Pcs
<1>3. CASE RefreshFails(c)
  <2>1. Idle.pc = "idle"
    BY DEF Idle
  <2>2. ~Owes(c)
    BY <1>3 DEF RefreshFails, Owes
  <2>3. /\ Become(c, Idle)
        /\ UNCHANGED <<inventory, investments, history, deleted, overlapped, tainted>>
    BY <1>3 DEF RefreshFails
  <2>4. QED
    BY <2>1, <2>2, <2>3, ReadingStep DEF Pcs
<1>4. CASE \E i \in Investments : RecordDeletion(c, i)
  <2>1. PICK i \in Investments : RecordDeletion(c, i)
    BY <1>4
  <2> DEFINE new == [Idle EXCEPT !.pc = "deleting", !.id = i]
  <2>2. new.pc = "deleting" /\ new.id = i
    BY DEF Idle
  <2>3. ~Owes(c)
    BY <2>1 DEF RecordDeletion, Owes
  <2>4. /\ Become(c, new) /\ history' = history \cup {i}
        /\ UNCHANGED <<inventory, investments, deleted, overlapped, tainted>>
    BY <2>1 DEF RecordDeletion
  <2> HIDE DEF new
  <2>5. QED
    BY <2>2, <2>3, <2>4, ReadingStep DEF Pcs
<1>5. CASE \E cost \in Prices, price \in Prices \cup {None} :
             UpdateInventory(c, cost, price)
  <2>1. PICK cost \in Prices, price \in Prices \cup {None} :
               UpdateInventory(c, cost, price)
    BY <1>5
  <2> DEFINE held == [Idle EXCEPT !.pc = "locked", !.vehicle_cost = cost,
                                  !.final_sale_price = price,
                                  !.sums = SumsOf(investments)]
             free == [Idle EXCEPT !.pc = "summed", !.sums = SumsOf(investments)]
  <2>2. /\ held.pc = "locked" /\ held.sums = SumsOf(investments)
        /\ free.pc = "summed" /\ free.sums = SumsOf(investments)
    BY DEF Idle
  <2>3. ~Owes(c)
    BY <2>1 DEF UpdateInventory, Owes
  <2>4. /\ overlapped' = overlapped \ {c}
        /\ UNCHANGED <<inventory, investments, history, deleted, tainted>>
        /\ Become(c, held) \/ Become(c, free)
    BY <2>1 DEF UpdateInventory
  <2> HIDE DEF held, free
  <2>5. CASE Become(c, held)
    BY <2>2, <2>3, <2>4, <2>5, ReadingStep DEF Pcs
  <2>6. CASE Become(c, free)
    BY <2>2, <2>3, <2>4, <2>6, ReadingStep DEF Pcs
  <2>7. QED
    BY <2>4, <2>5, <2>6
<1>6. CASE \E price \in Prices : ReadForSale(c, price)
  <2>1. PICK price \in Prices : ReadForSale(c, price)
    BY <1>6
  <2> DEFINE new == [Idle EXCEPT !.pc = "sale", !.final_sale_price = price,
                                 !.net_profit = price - TotalInvestments]
  <2>2. new.pc = "sale"
    BY DEF Idle
  <2>3. ~Owes(c)
    BY <2>1 DEF ReadForSale, Owes
  <2>4. /\ Become(c, new)
        /\ UNCHANGED <<inventory, investments, history, deleted, overlapped, tainted>>
    BY <2>1 DEF ReadForSale
  <2> HIDE DEF new
  <2>5. QED
    BY <2>2, <2>3, <2>4, ReadingStep DEF Pcs
<1>7. CASE RecordInventoryDeletion(c)
  <2> DEFINE new == [Idle EXCEPT !.pc = "dropping"]
  <2>1. new.pc = "dropping"
    BY DEF Idle
  <2>2. ~Owes(c)
    BY <1>7 DEF RecordInventoryDeletion, Owes
  <2>3. /\ Become(c, new) /\ history \subseteq history'
        /\ UNCHANGED <<inventory, investments, deleted, overlapped, tainted>>
    BY <1>7 DEF RecordInventoryDeletion
  <2> HIDE DEF new
  <2>4. QED
    BY <2>1, <2>2, <2>3, ReadingStep DEF Pcs
<1>8. CASE Crash(c)
  <2>1. Idle.pc = "idle"
    BY DEF Idle
  <2>2. (tainted \/ Owes(c)) => tainted'
    BY <1>8, Zenon DEF Crash, Owes
  <2>3. /\ Become(c, Idle) /\ overlapped' = overlapped \ {c}
        /\ UNCHANGED <<inventory, investments, history, deleted>>
    BY <1>8 DEF Crash
  <2>4. QED
    BY <2>1, <2>2, <2>3, ReadingStep DEF Pcs
<1>9. QED
  BY <1>1, <1>2, <1>3, <1>4, <1>5, <1>6, <1>7, <1>8

\* The steps that write the inventory row only.
LEMMA WritingActions ==
  ASSUME LedgerInv, NEW c \in Calls,
         WriteSums(c) \/ CommitInventory(c) \/ CommitSale(c)
  PROVE  LedgerInv'
<1> USE DEF LedgerInv
<1>1. CASE WriteSums(c) /\ inventory.present
  <2>1. StoreTotals(c, inventory)
    BY <1>1 DEF WriteSums
  <2>2. QED
    BY <1>1, <2>1, StoringTotals, WritingStep DEF WriteSums
<1>2. CASE WriteSums(c) /\ ~inventory.present
  BY <1>2, WritingStep, RowKeepsForm DEF WriteSums
<1>3. CASE CommitInventory(c)
  <2>1. StoreTotals(c, [inventory EXCEPT
                          !.vehicle_cost = call[c].vehicle_cost,
                          !.final_sale_price = call[c].final_sale_price])
    BY <1>3 DEF CommitInventory
  <2> DEFINE Form(r) == r = [present |-> r.present, totals |-> r.totals,
                             vehicle_cost |-> r.vehicle_cost,
                             final_sale_price |-> r.final_sale_price,
                             net_profit |-> r.net_profit]
  <2>2. /\ Form(inventory') /\ inventory'.present = inventory.present
        /\ inventory'.totals = call[c].sums
        /\ tainted' = (c \in overlapped)
    BY <2>1, StoringTotals
  <2>3. /\ call[c].pc = "locked" /\ Become(c, Idle)
        /\ overlapped' = overlapped \ {c}
        /\ UNCHANGED <<investments, history, deleted>>
    BY <1>3 DEF CommitInventory
  <2>4. CASE inventory.present
    BY <2>2, <2>3, <2>4, WritingStep
  <2>5. QED
    BY <2>2, <2>3, <2>4, WritingStep
<1>4. CASE CommitSale(c)
  <2>1. /\ ~Owes(c) /\ Become(c, Idle)
        /\ UNCHANGED <<investments, history, deleted, overlapped, tainted>>
    BY <1>4 DEF CommitSale, Owes
  <2>2. \/ inventory' = inventory
        \/ inventory' = [inventory EXCEPT
                            !.final_sale_price = call[c].final_sale_price,
                            !.net_profit = call[c].net_profit]
    BY <1>4 DEF CommitSale
  <2>3. /\ inventory' = [present |-> inventory'.present, totals |-> inventory'.totals,
                         vehicle_cost |-> inventory'.vehicle_cost,
                         final_sale_price |-> inventory'.final_sale_price,
                         net_profit |-> inventory'.net_profit]
        /\ inventory'.present = inventory.present
        /\ inventory'.totals = inventory.totals
    BY <2>2, RowKeepsForm
  <2>4. QED
    BY <2>1, <2>3, WritingStep
<1>5. QED
  BY <1>1, <1>2, <1>3, <1>4

\* The steps that change investments.
LEMMA ChangingActions ==
  ASSUME LedgerInv, NEW c \in Calls,
         \/ CommitInvestment(c)
         \/ \E i \in Investments, row \in Row : UpdateInvestment(c, i, row)
         \/ DeleteInvestment(c)
         \/ DeleteInventory(c)
  PROVE  LedgerInv'
<1> USE DEF LedgerInv
<1>1. CASE CommitInvestment(c)
  <2>1. /\ call[c].pc = "insert" /\ Become(c, Idle) /\ StoreTotals(c, inventory)
        /\ investments' = [investments EXCEPT ![call[c].id] = call[c].row]
        /\ overlapped' = (overlapped \cup HaveSums(c)) \ {c}
        /\ UNCHANGED <<history, deleted>>
    BY <1>1 DEF CommitInvestment
  <2>2. inventory.present /\ call[c].id \in Investments /\ call[c].row \in Row
    BY <2>1 DEF OrphanInv, Shape
  <2>3. investments' \in [Investments -> Row \cup {NoRow}]
    BY <2>1, <2>2 DEF Shape
  <2>4. /\ inventory' = [present |-> inventory'.present, totals |-> inventory'.totals,
                         vehicle_cost |-> inventory'.vehicle_cost,
                         final_sale_price |-> inventory'.final_sale_price,
                         net_profit |-> inventory'.net_profit]
        /\ inventory'.present = inventory.present
        /\ inventory'.totals = call[c].sums
        /\ tainted' = (c \in overlapped)
    BY <2>1, StoringTotals
  <2>5. c \notin overlapped => inventory'.totals = SumsOf(investments')
    BY <2>1, <2>4 DEF FreshInv
  <2>6. deleted' \subseteq history'
    BY <2>1, <2>2 DEF RecordInv, DeletionsRecorded
  <2>7. Idle.pc = "idle"
    BY DEF Idle
  <2>8. QED
    BY <2>1, <2>2, <2>3, <2>4, <2>5, <2>6, <2>7, ChangingStep DEF Pcs, Shape
<1>2. CASE \E i \in Investments, row \in Row : UpdateInvestment(c, i, row)
  <2>1. PICK i \in Investments, row \in Row : UpdateInvestment(c, i, row)
    BY <1>2
  <2> DEFINE new == [Idle EXCEPT !.pc = "refresh", !.id = i]
  <2>2. new.pc = "refresh" /\ new.id = i
    BY DEF Idle
  <2>3. /\ Become(c, new) /\ Stored(i)
        /\ investments' = [investments EXCEPT ![i] = row]
        /\ overlapped' = overlapped \cup HaveSums(c)
        /\ UNCHANGED <<inventory, history, deleted>>
    BY <2>1 DEF UpdateInvestment
  <2> HIDE DEF new
  <2>4. inventory.present /\ investments' \in [Investments -> Row \cup {NoRow}]
    BY <2>3 DEF Shape, OrphanInv, NoOrphanInvestments
  <2>5. call'[c] = new
    BY <2>3 DEF Become, Shape
  <2>6. Owes(c)'
    BY <2>2, <2>3, <2>5, RowsAreStored DEF Owes, Stored, Shape
  <2>7. deleted' \subseteq history'
    BY <2>3, <2>4 DEF RecordInv, DeletionsRecorded
  <2>8. QED
    BY <2>2, <2>3, <2>4, <2>6, <2>7, ChangingStep, RowKeepsForm DEF Pcs, Shape
<1>3. CASE DeleteInvestment(c)
  <2> DEFINE new == [Idle EXCEPT !.pc = "recompute"]
  <2>1. new.pc = "recompute"
    BY DEF Idle
  <2>2. /\ call[c].pc = "deleting" /\ Become(c, new)
        /\ investments' = [investments EXCEPT ![call[c].id] = NoRow]
        /\ deleted' \subseteq deleted \cup {call[c].id}
        /\ UNCHANGED <<inventory, history>>
    BY <1>3 DEF DeleteInvestment
  <2>3. Stored(call[c].id) => overlapped' = overlapped \cup HaveSums(c)
    BY <1>3 DEF DeleteInvestment
  <2>4. /\ ~Stored(call[c].id)
        => /\ UNCHANGED <<inventory, investments, history, deleted, overlapped>>
    BY <1>3 DEF DeleteInvestment, Stored, Shape
  <2> HIDE DEF new
  <2>5. call[c].id \in Investments
    BY <2>2 DEF Shape
  <2>6. /\ investments' \in [Investments -> Row \cup {NoRow}]
        /\ ~inventory.present => \A i \in Investments : investments'[i] = NoRow
    BY <2>2, <2>5 DEF Shape, OrphanInv, NoOrphanInvestments, Stored
  <2>7. call'[c] = new
    BY <2>2 DEF Become, Shape
  <2>8. Owes(c)'
    BY <2>1, <2>7 DEF Owes
  <2>9. inventory.present => deleted' \subseteq history'
    BY <2>2 DEF RecordInv, DeletionsRecorded
  <2>10. ~inventory.present => \A d \in Calls : call[d].pc # "insert"
    BY DEF OrphanInv
  <2>11. CASE Stored(call[c].id)
    BY <2>1, <2>2, <2>3, <2>6, <2>8, <2>9, <2>10, <2>11, ChangingStep, RowKeepsForm
       DEF Pcs, Shape
  <2>12. CASE ~Stored(call[c].id)
    <3>1. tainted' = tainted
      BY <1>3 DEF DeleteInvestment
    <3>2. ~Owes(c)
      BY <2>2 DEF Owes
    <3>3. QED
      BY <2>1, <2>2, <2>4, <2>12, <3>1, <3>2, ReadingStep DEF Pcs
  <2>13. QED
    BY <2>11, <2>12
<1>4. CASE DeleteInventory(c)
  <2>1. /\ Become(c, Idle) /\ ~ParentHeld
        /\ inventory' = [inventory EXCEPT !.present = FALSE]
        /\ investments' = [i \in Investments |-> NoRow]
        /\ overlapped' = overlapped \cup HaveSums(c)
    BY <1>4 DEF DeleteInventory
  <2>2. \A d \in Calls : call[d].pc # "insert"
    BY <2>1 DEF ParentHeld, InsertPending
  <2>3. inventory' = [present |-> FALSE, totals |-> inventory.totals,
                      vehicle_cost |-> inventory.vehicle_cost,
                      final_sale_price |-> inventory.final_sale_price,
                      net_profit |-> inventory.net_profit]
    BY <2>1, RowKeepsForm
  <2>4. Idle.pc = "idle"
    BY DEF Idle
  <2>5. QED
    BY <2>1, <2>2, <2>3, <2>4, ChangingStep DEF Pcs
<1>5. QED
  BY <1>1, <1>2, <1>3, <1>4

\* The initial state satisfies the invariant.
LEMMA InitLedger == Init => LedgerInv
<1> SUFFICES ASSUME Init
             PROVE  LedgerInv
  OBVIOUS
<1>1. Idle.pc = "idle"
  BY DEF Idle
<1>2. PICK given \in Costs \cup {0}, price \in Prices :
        /\ inventory = [present |-> TRUE, totals |-> [t \in Types |-> given],
                        vehicle_cost |-> price, final_sale_price |-> None,
                        net_profit |-> None]
        /\ tainted = (given # 0)
  BY DEF Init
<1>3. /\ investments = [i \in Investments |-> NoRow]
      /\ call = [c \in Calls |-> Idle]
      /\ history = {} /\ deleted = {}
  BY DEF Init
<1>4. Shape
  BY <1>1, <1>2, <1>3 DEF Shape, Pcs
<1>5. OrphanInv
  BY <1>1, <1>2, <1>3 DEF OrphanInv, NoOrphanInvestments
<1>6. RecordInv
  BY <1>1, <1>3 DEF RecordInv, DeletionsRecorded
<1>7. FreshInv
  BY <1>1, <1>3 DEF FreshInv
<1>8. ~tainted => inventory.totals = SumsOf(investments)
  <2>1. ~tainted => inventory.totals = NoSums
    BY <1>2 DEF NoSums
  <2>2. NoRow.type = None
    BY DEF NoRow
  <2>3. \A t \in Types : {i \in Investments : investments[i].type = t} = {}
    BY <1>3, <2>2, NoneAssumption
  <2>4. SumsOf(investments) = NoSums
    BY <2>3 DEF SumsOf, NoSums, MapThenSumSet, MapThenFoldSet
  <2>5. QED
    BY <2>1, <2>4
<1>9. QED
  BY <1>4, <1>5, <1>6, <1>7, <1>8 DEF LedgerInv, TotalsInv

\* A stuttering step keeps the invariant.
LEMMA StutterLedger == LedgerInv /\ UNCHANGED vars => LedgerInv'
BY DEF vars, LedgerInv, Shape, OrphanInv, NoOrphanInvestments, RecordInv,
       DeletionsRecorded, FreshInv, TotalsInv, Owes, Stored

\* The ledger invariant is inductive.
LEMMA LedgerInvariant == Spec => []LedgerInv
<1>1. Init => LedgerInv
  BY InitLedger
<1>2. LedgerInv /\ [Next]_vars => LedgerInv'
  <2>1. ASSUME LedgerInv, Next
        PROVE  LedgerInv'
    <3>1. PICK c \in Calls :
            \/ \E i \in Investments, row \in Row :
                 CreateInvestment(c, i, row) \/ UpdateInvestment(c, i, row)
            \/ CommitInvestment(c)
            \/ RefreshInvestment(c) \/ RefreshFails(c)
            \/ \E i \in Investments : RecordDeletion(c, i)
            \/ DeleteInvestment(c) \/ ReadSums(c) \/ WriteSums(c)
            \/ \E cost \in Prices, price \in Prices \cup {None} :
                 UpdateInventory(c, cost, price)
            \/ CommitInventory(c)
            \/ \E price \in Prices : ReadForSale(c, price)
            \/ CommitSale(c)
            \/ RecordInventoryDeletion(c) \/ DeleteInventory(c)
            \/ Crash(c)
      BY <2>1 DEF Next
    <3>2. QED
      BY <2>1, <3>1, ReadingActions, WritingActions, ChangingActions
  <2>2. QED
    BY <2>1, StutterLedger
<1>3. QED
  BY <1>1, <1>2, PTL DEF Spec

-----------------------------------------------------------------------------
(* Theorems                                                                *)

\* No investment outlives its inventory (delete_car_inventory and the foreign
\* key of car_inventory_investments), whatever calls are under way.
THEOREM NoOrphans == Spec => []NoOrphanInvestments
<1>1. LedgerInv => NoOrphanInvestments
  BY DEF LedgerInv, OrphanInv
<1>2. QED
  BY <1>1, LedgerInvariant, PTL

\* Every investment delete_car_investment removes is on record while its
\* inventory is there: the record is committed before the deletion.
THEOREM DeletionsOnRecord == Spec => []DeletionsRecorded
<1>1. LedgerInv => DeletionsRecorded
  BY DEF LedgerInv, RecordInv
<1>2. QED
  BY <1>1, LedgerInvariant, PTL

\* At rest the totals are the sums of the stored investments unless a lost
\* recomputation or an overlapped call explains the difference
\* (update_inventory_financials).
THEOREM RestIsExact == Spec => []RestExact
<1>1. LedgerInv => RestExact
  BY DEF LedgerInv, TotalsInv, Owes, RestExact
<1>2. QED
  BY <1>1, LedgerInvariant, PTL
=============================================================================
