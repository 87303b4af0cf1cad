--------------------------- MODULE InventoryLedger --------------------------
(***************************************************************************)
(* One row of car_inventory and its investments.  Every operation on an    *)
(* investment ends by recomputing the row's per-type totals with a SELECT  *)
(* of the sums followed by an UPDATE (update_inventory_financials).  The   *)
(* operations are HTTP calls that run concurrently under READ COMMITTED:   *)
(* a SELECT sees the committed rows and the call's own; an UPDATE of the   *)
(* inventory row waits for an earlier uncommitted one; an uncommitted      *)
(* investment holds its parent row against deletion (foreign key).         *)
(***************************************************************************)
EXTENDS Integers, FiniteSets, FiniteSetsExt

CONSTANTS
  Calls,        \* HTTP calls in progress at the same time
  Investments,  \* bound: ids of car_inventory_investments
  Types,        \* CarInventoryInvestmentsType
  Costs,        \* costs an investment may have
  Prices,       \* vehicle costs and final sale prices
  None,         \* SQL NULL
  MaxUpdates,   \* bound: PUT calls on an investment or on the inventory
  MaxCrashes    \* bound: calls that die half way

ASSUME CostsAssumption == Costs \subseteq Nat /\ Prices \subseteq Nat
ASSUME NoneAssumption == None \notin Types /\ None \notin Int
ASSUME LedgerBoundsAssumption == MaxUpdates \in Nat /\ MaxCrashes \in Nat

VARIABLES
  inventory,    \* the row of car_inventory
  investments,  \* table car_inventory_investments
  used,         \* ids drawn from its sequence
  history,      \* deletions on record, of investments and of the row itself
  deleted,      \* investments delete_car_investment has removed
  call,         \* what each call is doing
  overlapped,   \* calls whose sums miss an investment change committed since
  tainted,      \* the totals may be off for a known reason
  updates, crashes

callVars == <<call, overlapped>>
vars == <<inventory, investments, used, history, deleted, callVars, tainted,
          updates, crashes>>

-----------------------------------------------------------------------------
Row == [type : Types, cost : Costs]
NoRow == [type |-> None, cost |-> 0]

NoSums == [t \in Types |-> 0]

Idle == [pc |-> "idle", id |-> None, row |-> NoRow, sums |-> NoSums,
         vehicle_cost |-> 0, final_sale_price |-> None, net_profit |-> None]

TypeOK ==
  /\ inventory \in [present : BOOLEAN, totals : [Types -> Nat],
                    vehicle_cost : Nat, final_sale_price : Nat \cup {None},
                    net_profit : Int \cup {None}]
  /\ investments \in [Investments -> Row \cup {NoRow}]
  /\ used \subseteq Investments
  /\ history \subseteq Investments \cup {"inventory"}
  /\ deleted \subseteq Investments
  /\ call \in [Calls -> [pc : {"idle", "insert", "refresh", "deleting",
                               "recompute", "summed", "locked", "sale",
                               "dropping"},
                         id : Investments \cup {None}, row : Row \cup {NoRow},
                         sums : [Types -> Nat], vehicle_cost : Nat,
                         final_sale_price : Nat \cup {None},
                         net_profit : Int \cup {None}]]
  /\ overlapped \subseteq Calls
  /\ tainted \in BOOLEAN
  /\ updates \in Nat /\ crashes \in Nat

Stored(i) == investments[i] # NoRow

SumsOf(rows) ==
  [t \in Types |->
     MapThenSumSet(LAMBDA i : rows[i].cost,
                   {i \in Investments : rows[i].type = t})]

\* create_car_inventory stores the totals the form gives, investments or not.
Init ==
  \E given \in Costs \cup {0}, price \in Prices :
    /\ inventory = [present |-> TRUE, totals |-> [t \in Types |-> given],
                    vehicle_cost |-> price, final_sale_price |-> None,
                    net_profit |-> None]
    /\ investments = [i \in Investments |-> NoRow]
    /\ used = {} /\ history = {} /\ deleted = {}
    /\ call = [c \in Calls |-> Idle]
    /\ overlapped = {}
    /\ tainted = (given # 0)
    /\ updates = 0 /\ crashes = 0

-----------------------------------------------------------------------------
(* Helpers                                                                 *)

\* A call has updated the inventory row and not committed yet.
RowLocked == \E c \in Calls : call[c].pc = "locked"

InsertPending == \E c \in Calls : call[c].pc = "insert"

\* CarInventoryModel.total_investments
TotalInvestments ==
  inventory.vehicle_cost + MapThenSumSet(LAMBDA t : inventory.totals[t], Types)

Become(c, new) == call' = [call EXCEPT ![c] = new]

\* Calls other than c that have read their sums already.
HaveSums(c) ==
  {d \in Calls \ {c} : call[d].pc \in {"insert", "summed", "locked"}}

\* The UPDATE of the totals; a call that was overlapped writes stale sums.
StoreTotals(c, row) ==
  /\ inventory' = [row EXCEPT !.totals = call[c].sums]
  /\ tainted' = (c \in overlapped)

Budget == updates < MaxUpdates /\ updates' = updates + 1

-----------------------------------------------------------------------------
(* POST .../investments: create_car_investment                             *)

\* Mutant: the sums are taken before the new row is flushed.
SumsWithoutNew(i, row) == SumsOf(investments)

\* The pending row is flushed before the sums are selected.
SumsWith(i, row) == SumsOf([investments EXCEPT ![i] = row])

CreateInvestment(c, i, row) ==
  /\ call[c].pc = "idle"
  /\ inventory.present
  /\ i \notin used
  /\ used' = used \cup {i}
  /\ Become(c, [Idle EXCEPT !.pc = "insert", !.id = i, !.row = row,
                            !.sums = SumsWith(i, row)])
  /\ overlapped' = overlapped \ {c}
  /\ UNCHANGED <<inventory, investments, history, deleted, tainted, updates,
                 crashes>>

CommitInvestment(c) ==
  /\ call[c].pc = "insert"
  /\ ~RowLocked
  /\ investments' = [investments EXCEPT ![call[c].id] = call[c].row]
  /\ StoreTotals(c, inventory)
  /\ overlapped' = (overlapped \cup HaveSums(c)) \ {c}
  /\ Become(c, Idle)
  /\ UNCHANGED <<used, history, deleted, updates, crashes>>

-----------------------------------------------------------------------------
(* PUT .../investments/{id}: update_car_investment, two transactions        *)

UpdateInvestment(c, i, row) ==
  /\ call[c].pc = "idle"
  /\ Stored(i)
  /\ Budget
  /\ investments' = [investments EXCEPT ![i] = row]
  /\ overlapped' = overlapped \cup HaveSums(c)
  /\ Become(c, [Idle EXCEPT !.pc = "refresh", !.id = i])
  /\ UNCHANGED <<inventory, used, history, deleted, tainted, crashes>>

\* db.refresh finds the row and the sums are selected.
RefreshInvestment(c) ==
  /\ call[c].pc = "refresh"
  /\ Stored(call[c].id)
  /\ Become(c, [Idle EXCEPT !.pc = "summed", !.sums = SumsOf(investments)])
  /\ overlapped' = overlapped \ {c}
  /\ UNCHANGED <<inventory, investments, used, history, deleted, tainted,
                 updates, crashes>>

\* db.refresh raises: another call has deleted the row.
RefreshFails(c) ==
  /\ call[c].pc = "refresh"
  /\ ~Stored(call[c].id)
  /\ Become(c, Idle)
  /\ UNCHANGED <<inventory, investments, used, history, deleted, overlapped,
                 tainted, updates, crashes>>

-----------------------------------------------------------------------------
(* DELETE .../investments/{id}: delete_car_investment, three transactions   *)

\* Mutant: the history row is added without a commit of its own and lost.
DeleteUnrecorded(c, i) ==
  /\ call[c].pc = "idle"
  /\ Stored(i)
  /\ Become(c, [Idle EXCEPT !.pc = "deleting", !.id = i])
  /\ UNCHANGED <<inventory, investments, used, history, deleted, overlapped,
                 tainted, updates, crashes>>

RecordDeletion(c, i) ==
  /\ call[c].pc = "idle"
  /\ Stored(i)
  /\ history' = history \cup {i}
  /\ Become(c, [Idle EXCEPT !.pc = "deleting", !.id = i])
  /\ UNCHANGED <<inventory, investments, used, deleted, overlapped, tainted,
                 updates, crashes>>

\* Deleting a row that is gone already only draws a warning.
DeleteInvestment(c) ==
  /\ call[c].pc = "deleting"
  /\ deleted' = IF Stored(call[c].id) THEN deleted \cup {call[c].id}
                                      ELSE deleted
  /\ investments' = [investments EXCEPT ![call[c].id] = NoRow]
  /\ overlapped' = IF Stored(call[c].id) THEN overlapped \cup HaveSums(c)
                                         ELSE overlapped
  /\ Become(c, [Idle EXCEPT !.pc = "recompute"])
  /\ UNCHANGED <<inventory, used, history, tainted, updates, crashes>>

ReadSums(c) ==
  /\ call[c].pc = "recompute"
  /\ Become(c, [Idle EXCEPT !.pc = "summed", !.sums = SumsOf(investments)])
  /\ overlapped' = overlapped \ {c}
  /\ UNCHANGED <<inventory, investments, used, history, deleted, tainted,
                 updates, crashes>>

\* UPDATE and commit; a deleted inventory is an UPDATE of no rows.
WriteSums(c) ==
  /\ call[c].pc = "summed"
  /\ ~RowLocked
  /\ IF inventory.present THEN StoreTotals(c, inventory)
                          ELSE UNCHANGED <<inventory, tainted>>
  /\ overlapped' = overlapped \ {c}
  /\ Become(c, Idle)
  /\ UNCHANGED <<investments, used, history, deleted, updates, crashes>>

-----------------------------------------------------------------------------
(* PUT and PATCH .../vehicles/{id}: update_car_inventory, and               *)
(* POST .../final-sale-price: add_final_sale_price                          *)

\* Changed columns are flushed, which locks the row, before the sums are
\* selected; without a change only the UPDATE of the totals takes the lock.
UpdateInventory(c, cost, price) ==
  /\ call[c].pc = "idle"
  /\ inventory.present
  /\ Budget
  /\ \/ /\ <<cost, price>> # <<inventory.vehicle_cost,
                               inventory.final_sale_price>>
        /\ ~RowLocked
        /\ Become(c, [Idle EXCEPT !.pc = "locked", !.vehicle_cost = cost,
                                  !.final_sale_price = price,
                                  !.sums = SumsOf(investments)])
     \/ Become(c, [Idle EXCEPT !.pc = "summed", !.sums = SumsOf(investments)])
  /\ overlapped' = overlapped \ {c}
  /\ UNCHANGED <<inventory, investments, used, history, deleted, tainted,
                 crashes>>

CommitInventory(c) ==
  /\ call[c].pc = "locked"
  /\ StoreTotals(c, [inventory EXCEPT
                       !.vehicle_cost = call[c].vehicle_cost,
                       !.final_sale_price = call[c].final_sale_price])
  /\ overlapped' = overlapped \ {c}
  /\ Become(c, Idle)
  /\ UNCHANGED <<investments, used, history, deleted, updates, crashes>>

ReadForSale(c, price) ==
  /\ call[c].pc = "idle"
  /\ inventory.present
  /\ Budget
  /\ Become(c, [Idle EXCEPT !.pc = "sale", !.final_sale_price = price,
                            !.net_profit = price - TotalInvestments])
  /\ UNCHANGED <<inventory, investments, used, history, deleted, overlapped,
                 tainted, crashes>>

CommitSale(c) ==
  /\ call[c].pc = "sale"
  /\ ~RowLocked
  /\ inventory' = IF inventory.present
                    THEN [inventory EXCEPT
                            !.final_sale_price = call[c].final_sale_price,
                            !.net_profit = call[c].net_profit]
                    ELSE inventory
  /\ Become(c, Idle)
  /\ UNCHANGED <<investments, used, history, deleted, overlapped, tainted,
                 updates, crashes>>

-----------------------------------------------------------------------------
(* DELETE .../vehicles/{id}: delete_car_inventory                           *)

\* Mutant: nothing ties an investment being inserted to its inventory.
NothingPending == FALSE

\* The parent row cannot go while an insert refers to it.
ParentHeld == RowLocked \/ InsertPending

RecordInventoryDeletion(c) ==
  /\ call[c].pc = "idle"
  /\ inventory.present
  /\ history' = history \cup {"inventory"}
  /\ Become(c, [Idle EXCEPT !.pc = "dropping"])
  /\ UNCHANGED <<inventory, investments, used, deleted, overlapped, tainted,
                 updates, crashes>>

\* Investments and history rows go with their parent (cascade), the record of
\* this deletion among them.
DeleteInventory(c) ==
  /\ call[c].pc = "dropping"
  /\ ~ParentHeld
  /\ inventory' = [inventory EXCEPT !.present = FALSE]
  /\ investments' = [i \in Investments |-> NoRow]
  /\ history' = {}
  /\ overlapped' = overlapped \cup HaveSums(c)
  /\ Become(c, Idle)
  /\ UNCHANGED <<used, deleted, tainted, updates, crashes>>

\* The process dies or the connection breaks: what is not committed is gone,
\* what is committed stays.
Crash(c) ==
  /\ call[c].pc # "idle"
  /\ crashes < MaxCrashes
  /\ crashes' = crashes + 1
  /\ tainted' = (tainted \/ call[c].pc \in {"refresh", "recompute", "summed"})
  /\ overlapped' = overlapped \ {c}
  /\ Become(c, Idle)
  /\ UNCHANGED <<inventory, investments, used, history, deleted, updates>>

-----------------------------------------------------------------------------
Next ==
  \E c \in Calls :
    \/ \E i \in Investments, row \in Row :
         CreateInvestment(c, i, row) \/ UpdateInvestment(c, i, row)
    \/ CommitInvestment(c)
    \/ RefreshInvestment(c) \/ RefreshFails(c)
    \/ \E i \in Investments : RecordDeletion(c, i)
    \/ DeleteInvestment(c) \/ ReadSums(c) \/ WriteSums(c)
    \/ \E cost \in Prices, price \in Prices \cup {None} :
         UpdateInventory(c, cost, price)
    \/ CommitInventory(c)
    \/ \E price \in Prices : ReadForSale(c, price)
    \/ CommitSale(c)
    \/ RecordInventoryDeletion(c) \/ DeleteInventory(c)
    \/ Crash(c)

Spec == Init /\ [][Next]_vars

-----------------------------------------------------------------------------
(* Properties                                                              *)

\* Once no call is in progress, the per-type totals equal the sums of the
\* stored investments, unless the last write came from a call another call's
\* commit had overlapped, a call died between its change and its recomputation,
\* or the totals still are those of the form.  An operation that runs alone
\* repairs what such a case has left.
RestExact ==
  /\ inventory.present
  /\ \A c \in Calls : call[c].pc \notin {"refresh", "recompute", "summed",
                                         "insert", "locked"}
  /\ ~tainted
  => inventory.totals = SumsOf(investments)

\* Deleting an inventory takes its investments along, also those that were
\* being added or changed at that moment.
NoOrphanInvestments ==
  ~inventory.present => \A i \in Investments : ~Stored(i)

\* An investment delete_car_investment has removed is on record in the history
\* of its inventory: the record is committed first, so no crash can separate the
\* two this way round.
DeletionsRecorded == inventory.present => deleted \subseteq history
=============================================================================
