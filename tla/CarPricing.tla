----------------------------- MODULE CarPricing -----------------------------
(***************************************************************************)
(* The money columns of one car, its parts, and its status on the bidding  *)
(* hub.  Every HTTP call loads the row, computes, and writes the columns   *)
(* that changed, without a lock; the parse task computes prices and fees   *)
(* first and then locks the row; the bulk import writes the columns it     *)
(* does not own as it has read them.  The car's auction_fee comes from the *)
(* fee table, which is replaced meanwhile.  The columns are floats:        *)
(* amounts are whole numbers of a unit of which Dollar make a dollar, and  *)
(* int() cuts to dollars.  Nothing keeps a part, a cost or a price from    *)
(* being negative.  A price stands for the investment predicted from it at *)
(* the default ROI.                                                        *)
(***************************************************************************)
EXTENDS FeeTable

CONSTANTS
  Calls,       \* HTTP calls, or parse tasks, in progress at the same time
  Parts,       \* bound: ids of the table parts
  Values,      \* values of parts, and of the other costs
  Prices,      \* predicted_total_investments
  Bids,        \* actual bids
  Dollar,      \* amounts to a dollar
  CarAuction,  \* its auction
  Status,      \* CarStatus: the statuses on the bidding hub
  None,        \* SQL NULL
  MaxCalls,    \* bound: calls in all
  MaxCrashes   \* bound: calls that die between two commits

ASSUME PricingAssumption ==
  /\ Values \subseteq Int /\ Prices \subseteq Int /\ Bids \subseteq Int
  /\ Dollar \in Nat \ {0} /\ CarAuction \in Auctions /\ None \notin Int
ASSUME StatusAssumption == {"New", "Won"} \subseteq Status
ASSUME PartsAssumption == IsFiniteSet(Parts) /\ None \notin Parts
ASSUME PricingBoundsAssumption == MaxCalls \in Nat /\ MaxCrashes \in Nat

VARIABLES
  car,       \* the row of cars
  parts,     \* its rows in parts
  call,      \* what each call has loaded and is about to write
  records,   \* changes of the status: made, put on record, of a call that was
             \* refused before its record, taken back by an import
  raced,     \* a call has written over columns changed since it had loaded them
  negative,  \* an addition has put its value in place of a cost below zero
  feeMoved,  \* the fee was set by an actual bid since the last suggested bid
  calls, crashes

pricingVars == <<car, parts, call, records, raced, negative, feeMoved,
                 calls, crashes>>
vars == <<feeVars, pricingVars>>

-----------------------------------------------------------------------------
NoCall == [pc |-> "idle", op |-> "none", id |-> None, arg |-> 0, fee |-> 0,
           seen |-> None, part |-> None]

Or0(x) == IF x = None THEN 0 ELSE x

\* CarModel.sum_of_investments
SumOfInvestments(c) == Or0(c.auction_fee) + Or0(c.costs) + Or0(c.parts_cost)

PartsSum == MapThenSumSet(LAMBDA p : Or0(parts[p]), Parts)

Amount == Int \cup {None}

TypeOK ==
  /\ FeeTypeOK
  /\ car \in [parts_cost : Amount, costs : Amount, auction_fee : Amount,
              predicted : Amount, suggested_bid : Amount, actual_bid : Amount,
              car_status : Status]
  /\ parts \in [Parts -> Values \cup {None}]
  /\ \A c \in Calls : call[c].pc \in {"idle", "loaded", "read", "won", "bereft", "record"}
  /\ records \in [status : Nat, history : Nat, refused : Nat, restored : Nat]
  /\ raced \in BOOLEAN /\ negative \in BOOLEAN /\ feeMoved \in BOOLEAN
  /\ calls \in 0 .. MaxCalls /\ crashes \in 0 .. MaxCrashes

PricingInit ==
  /\ FeeInit
  /\ car = [parts_cost |-> None, costs |-> None, auction_fee |-> None,
            predicted |-> None, suggested_bid |-> None, actual_bid |-> None,
            car_status |-> "New"]
  /\ parts = [p \in Parts |-> None]
  /\ call = [c \in Calls |-> NoCall]
  /\ records = [status |-> 0, history |-> 0, refused |-> 0, restored |-> 0]
  /\ raced = FALSE /\ negative = FALSE /\ feeMoved = FALSE
  /\ calls = 0 /\ crashes = 0

-----------------------------------------------------------------------------
(* What a call makes of the row it has loaded.                              *)

Suggested(c) == c.predicted - SumOfInvestments(c)

\* int() of Python cuts towards zero.
Cut(x) == IF x >= 0 THEN x - (x % Dollar) ELSE x + ((-x) % Dollar)

\* After a change of parts a suggested bid that is there is computed anew.
Reconsidered(c) ==
  IF c.suggested_bid = None THEN c
  ELSE [c EXCEPT !.suggested_bid = Suggested(c)]

Plus(cost, value) == IF cost = None \/ cost <= 0 THEN value ELSE cost + value

\* update_car with a price, and parse_and_update_car: whole dollars.
Priced(c, price, fee) ==
  LET d == [c EXCEPT !.predicted = price, !.auction_fee = fee]
  IN [d EXCEPT !.suggested_bid = Cut(Suggested(d))]

\* A part that is there gets another value, or goes.
Changes(k) == k.op = "delete" \/ (k.op = "update" /\ k.arg # k.part)

Computed(k) ==
  LET c == k.seen
  IN CASE k.op = "add" -> Reconsidered([c EXCEPT !.parts_cost = Plus(@, k.arg)])
       [] k.op = "update" ->
            Reconsidered(IF Changes(k)
                         THEN [c EXCEPT !.parts_cost = @ + k.arg - k.part] ELSE c)
       [] k.op = "delete" -> Reconsidered([c EXCEPT !.parts_cost = @ - k.part])
       [] k.op = "costs" ->
            LET d == [c EXCEPT !.costs = k.arg]
            IN [d EXCEPT !.suggested_bid = Suggested(d)]
       [] k.op \in {"price", "parse"} -> Priced(c, k.arg, k.fee)
       [] k.op = "bid" -> [c EXCEPT !.actual_bid = k.arg, !.auction_fee = k.fee]
       [] k.op = "status" -> [c EXCEPT !.car_status = k.arg]

\* Arithmetic on NULL ends the call with a 500.
Computable(k) ==
  /\ Changes(k) => k.seen.parts_cost # None
  /\ k.op = "costs" => k.seen.predicted # None
  /\ k.op = "status" /\ k.arg = "Won" => Or0(k.seen.actual_bid) # 0

\* Mutant: the whole row is written.
WrittenWhole(k, new) == new

\* The UPDATE names the columns that differ from what was loaded.
Written(k, new) ==
  [f \in DOMAIN car |-> IF new[f] # k.seen[f] THEN new[f] ELSE car[f]]

\* Columns the amounts depend on.
Money(c) == <<c.parts_cost, c.costs, c.auction_fee, c.predicted, c.suggested_bid>>

-----------------------------------------------------------------------------
(* A call loads the row, and the part it is about.                          *)

Load(c, op, id, arg, fee) ==
  /\ call[c].pc = "idle" /\ calls < MaxCalls
  /\ call' = [call EXCEPT ![c] =
       [pc |-> IF op = "import" THEN "read" ELSE "loaded", op |-> op, id |-> id,
        arg |-> arg, fee |-> fee, seen |-> car,
        part |-> IF id = None THEN None ELSE parts[id]]]
  /\ calls' = calls + 1
  /\ UNCHANGED <<car, parts, records, raced, negative, feeMoved, crashes, feeVars>>

\* add_part_to_vehicle: the id comes from the table's sequence.
AddPart(c) ==
  \E p \in Parts, v \in Values :
    /\ parts[p] = None /\ \A d \in Calls : call[d].pc # "idle" => call[d].id # p
    /\ Load(c, "add", p, v, 0)

UpdatePart(c) == \E p \in Parts, v \in Values :
  parts[p] # None /\ Load(c, "update", p, v, 0)

DeletePart(c) == \E p \in Parts : parts[p] # None /\ Load(c, "delete", p, 0, 0)

UpdateCosts(c) == \E v \in Values \cup {None} : Load(c, "costs", None, v, 0)

UpdatePrice(c) == \E p \in Prices : Load(c, "price", None, p, FeeTotal(CarAuction))

\* Without a price from the parsers the prediction is 0.
ParsePrice(c) == \E p \in Prices \cup {0} :
  Load(c, "parse", None, p, FeeTotal(CarAuction))

UpdateActualBid(c) == \E b \in Bids : Load(c, "bid", None, b, FeeTotal(CarAuction))

UpdateStatus(c) == \E s \in Status : Load(c, "status", None, s, 0)

\* bulk_save_vehicles, when the feed lists the lot of the car.
ImportRead(c) == Load(c, "import", None, 0, 0)

Begin(c) == \/ AddPart(c) \/ UpdatePart(c) \/ DeletePart(c) \/ UpdateCosts(c)
            \/ UpdatePrice(c) \/ ParsePrice(c) \/ UpdateActualBid(c) \/ UpdateStatus(c)
            \/ ImportRead(c)

\* FOR UPDATE NOWAIT in the parse task: it computes from the row as it is.
Locked(k) == IF k.op = "parse" THEN [k EXCEPT !.seen = car] ELSE k

PartsAfter(k) ==
  IF k.op = "add" \/ Changes(k)
  THEN [parts EXCEPT ![k.id] = IF k.op = "delete" THEN None ELSE k.arg]
  ELSE parts

\* The UPDATE of a part that was deleted meanwhile fails.
PartGone(k) == k.op = "update" /\ Changes(k) /\ parts[k.id] = None

\* One transaction writes the row and the part.
Commit(c) ==
  LET k == Locked(call[c])
      new == Computed(k)
  IN /\ call[c].pc = "loaded" /\ Computable(k) /\ ~PartGone(k)
     /\ car' = Written(k, new)
     /\ parts' = PartsAfter(k)
     /\ raced' = (raced \/ /\ k.op # "status"
                           /\ \/ Money(car) # Money(k.seen)
                              \/ Changes(k) /\ parts[k.id] # k.part)
     /\ negative' = (negative \/ (k.op = "add" /\ Or0(k.seen.parts_cost) < 0))
     /\ feeMoved' = (CASE k.op = "bid" -> feeMoved \/ k.fee # Or0(k.seen.auction_fee)
                       [] k.op = "status" -> feeMoved
                       [] OTHER -> FALSE)
     /\ records' = CASE k.op = "status" -> [records EXCEPT !.status = @ + 1]
                     [] OTHER -> records
     /\ call' = [call EXCEPT ![c] =
          IF k.op # "status" THEN NoCall
          ELSE [k EXCEPT !.pc = IF k.arg = "Won" THEN "won" ELSE "record"]]
     /\ UNCHANGED <<calls, crashes, feeVars>>

\* A comparison of a current bid with a suggested bid that is NULL.  Whether the
\* lot has a current bid is left open: the feeds write it, and no amount here
\* depends on it.
Compared(k) == k.op \in {"add", "update", "delete"} /\ k.seen.suggested_bid = None

CallRefused(c) ==
  /\ call[c].pc = "loaded"
  /\ LET k == Locked(call[c])
     IN ~Computable(k) \/ Compared(k) \/ PartGone(k)
  /\ call' = [call EXCEPT ![c] = NoCall]
  /\ UNCHANGED <<car, parts, records, raced, negative, feeMoved, calls, crashes, feeVars>>

\* Mutant: the fee is not among the columns kept from the import.
ImportedFee(k) ==
  [car EXCEPT !.parts_cost = k.seen.parts_cost, !.costs = k.seen.costs,
              !.auction_fee = k.seen.auction_fee, !.actual_bid = k.seen.actual_bid,
              !.car_status = k.seen.car_status]

\* What the lot does not bring is written as it was read, NULL included; the
\* columns of a price are left alone.
Imported(k) ==
  [car EXCEPT !.parts_cost = k.seen.parts_cost, !.costs = k.seen.costs,
              !.actual_bid = k.seen.actual_bid, !.car_status = k.seen.car_status]

\* ON CONFLICT DO UPDATE: nothing is computed from the row the import writes.
ImportWrite(c) ==
  LET k == call[c]
  IN /\ k.pc = "read"
     /\ car' = Imported(k)
     /\ raced' = (raced \/ <<car.parts_cost, car.costs>>
                            # <<k.seen.parts_cost, k.seen.costs>>)
     /\ records' = IF car.car_status = k.seen.car_status THEN records
                   ELSE [records EXCEPT !.status = @ + 1, !.restored = @ + 1]
     /\ call' = [call EXCEPT ![c] = NoCall]
     /\ UNCHANGED <<parts, negative, feeMoved, calls, crashes, feeVars>>

\* The lock on the row is not to be had in time.
ImportFail(c) ==
  /\ call[c].pc = "read"
  /\ call' = [call EXCEPT ![c] = NoCall]
  /\ UNCHANGED <<car, parts, records, raced, negative, feeMoved, calls, crashes,
                 feeVars>>

\* Mutant: the call of a won car ends with the inventory row.
AttachOnly(c) ==
  /\ call[c].pc \in {"won", "bereft"}
  /\ call' = [call EXCEPT ![c] = NoCall]
  /\ UNCHANGED <<car, parts, records, raced, negative, feeMoved, calls, crashes,
                 feeVars>>

\* A won car: its history is attached to the inventory row in a second commit.
\* There may be none to attach, and then a row that is gone is not missed.
AttachHistory(c) ==
  /\ call[c].pc \in {"won", "bereft"}
  /\ call' = [call EXCEPT ![c].pc = "record"]
  /\ UNCHANGED <<car, parts, records, raced, negative, feeMoved, calls, crashes,
                 feeVars>>

\* delete_car_inventory of another call takes the row of the won car.
InventoryDeleted(c) ==
  /\ call[c].pc = "won"
  /\ call' = [call EXCEPT ![c].pc = "bereft"]
  /\ UNCHANGED <<car, parts, records, raced, negative, feeMoved, calls, crashes,
                 feeVars>>

\* The refresh of the row fails, or the foreign key of the history does.
AttachRefused(c) ==
  /\ call[c].pc = "bereft"
  /\ records' = [records EXCEPT !.refused = @ + 1]
  /\ call' = [call EXCEPT ![c] = NoCall]
  /\ UNCHANGED <<car, parts, raced, negative, feeMoved, calls, crashes, feeVars>>

\* The change of status is put on record in a commit of its own.
RecordStatus(c) ==
  /\ call[c].pc = "record"
  /\ records' = [records EXCEPT !.history = @ + 1]
  /\ call' = [call EXCEPT ![c] = NoCall]
  /\ UNCHANGED <<car, parts, raced, negative, feeMoved, calls, crashes, feeVars>>

Crash(c) ==
  /\ call[c].pc # "idle" /\ crashes < MaxCrashes
  /\ call' = [call EXCEPT ![c] = NoCall]
  /\ crashes' = crashes + 1
  /\ UNCHANGED <<car, parts, records, raced, negative, feeMoved, calls, feeVars>>

Next ==
  \/ \E c \in Calls : \/ Begin(c) \/ Commit(c) \/ CallRefused(c)
                      \/ ImportWrite(c) \/ ImportFail(c)
                      \/ AttachHistory(c) \/ InventoryDeleted(c) \/ AttachRefused(c)
                      \/ RecordStatus(c) \/ Crash(c)
  \/ FeeNext /\ UNCHANGED pricingVars

Spec == PricingInit /\ [][Next]_vars

-----------------------------------------------------------------------------
(* Properties.                                                              *)

\* parts_cost is the sum of the parts through any sequence of additions, changes
\* and deletions, but for two causes: a call or an import has written over a cost
\* changed after it was loaded, or an addition has found a cost below zero and put
\* its value in place of it (crud/vehicle.py:1022-1027, 1072-1074, 1097-1132, 1278-1284).
PartsCostExact ==
  ~raced /\ ~negative => Or0(car.parts_cost) = PartsSum

\* A suggested bid is the predicted investment less all investments, cut to dollars
\* when it comes with a price (routers/vehicle.py:522-525, 683): the one call that
\* moves the fee and not the suggested bid is that of the actual bid, and the one
\* writer that moves costs without it is an import that races.
SuggestedBidExact ==
  ~raced /\ ~feeMoved /\ car.suggested_bid # None =>
    car.suggested_bid \in {Suggested(car), Cut(Suggested(car))}

\* Between calls, a change of status that was not put on record belongs to a call
\* that died between its commits, to one whose inventory row was deleted before
\* the history was attached to it, or to an import that wrote back the status it
\* had read (routers/vehicle.py:628-635, bidding_hub.py:170-176,
\* crud/vehicle.py:990-996, 1278-1284).
StatusOnRecord ==
  (\A c \in Calls : call[c].pc = "idle") =>
    records.status - records.history
      <= crashes + records.refused + records.restored
=============================================================================
