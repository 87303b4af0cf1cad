----------------------------- MODULE CarParsing -----------------------------
(***************************************************************************)
(* One row of table cars and the background jobs that write to it:         *)
(*   - parse_and_update_car, one Celery task per car and kickoff, which    *)
(*     talks to the parsers service without a lock and then takes the row  *)
(*     with FOR UPDATE NOWAIT for a short write;                           *)
(*   - update_car_bids, which keeps the rows it has locked (SKIP LOCKED)   *)
(*     until it commits after the last bid;                                *)
(*   - update_cars_relevance (POST /vehicles/bulk/delete), fed with lots   *)
(*     that have left the auction;                                         *)
(*   - parse_and_update_cars_with_expired_auction_date, the daily sweep,   *)
(*     which locks nothing before it writes.                               *)
(* Row and row lock are shared; messages are redelivered when a worker     *)
(* dies.  Prices, bids, photos and the files of reports are abstracted to  *)
(* what the jobs branch on.                                                *)
(***************************************************************************)
EXTENDS Integers, FiniteSets

CONSTANTS
  Tasks,            \* messages for parse_and_update_car
  BidRuns,          \* workers that may run update_car_bids
  Feeds,            \* POST /vehicles/bulk/delete calls in progress
  Sweepers,         \* workers that may run the expired-auction sweep
  NoOne,            \* owner of a free row
  NoCar,            \* the row is gone
  Listings,         \* bound: what the auction service may know of the car
  RefreshServed,    \* parsers serves GET /apicar/{vin}: it does not
  MaxRetries,       \* max_retries of the task
  MaxUploads,       \* bound: reports put into the bucket
  MaxRedeliveries,  \* bound: messages delivered again
  MaxErrors         \* bound: sweeps that fail for this car

Owners == Tasks \cup BidRuns \cup Feeds \cup Sweepers

ASSUME NoOneAssumption == NoOne \notin Owners
ASSUME DistinctOwnersAssumption ==
  /\ Tasks \cap (BidRuns \cup Feeds \cup Sweepers) = {}
  /\ BidRuns \cap (Feeds \cup Sweepers) = {} /\ Feeds \cap Sweepers = {}
ASSUME RouteAssumption == RefreshServed \in BOOLEAN
ASSUME ListingsAssumption == Listings \subseteq {"gone", "past", "future", "buynow"}
ASSUME ParsingBoundsAssumption ==
  /\ MaxRetries \in Nat /\ MaxUploads \in Nat /\ MaxRedeliveries \in Nat
  /\ MaxErrors \in Nat

VARIABLES
  car,         \* the row, or NoCar
  rowOwner,    \* transaction that holds the row FOR UPDATE or has changed it
  histories,   \* how often a sales history has been stored for the row
  autochecks,  \* reports rows of auto_checks link to
  listing,     \* what the auction service knows about the car
  task, bids, feed, sweep,  \* the jobs
  uploads, redeliveries, errors,  \* budgets spent
  outcomes     \* parse results recorded since the row exists

tableVars == <<car, rowOwner, histories, autochecks>>
vars == <<tableVars, uploads, listing, task, bids, feed, sweep, redeliveries,
          errors, outcomes>>

-----------------------------------------------------------------------------
\* Entries of recommendation_status_reasons: the two parser errors a success
\* removes, the bid entry update_car_bids adds and removes, and all others
\* (scraping error, mileage mismatch, sales, fuel, damage), which stay.
Reasons == {"parser error", "bid", "lasting"}

Car == [relevance : {"Active", "Archival", "Irrelevant"},
        date : {"past", "future", "none"},
        is_checked : BOOLEAN, has_correct_vin : BOOLEAN,
        priced : BOOLEAN,       \* avg_market_price and suggested_bid are set
        attempts : Nat,
        recommended : BOOLEAN, reasons : SUBSET Reasons]

ASSUME NoCarAssumption == NoCar \notin Car

Reports == 1..MaxUploads

\* A task fetches the sales history only on the first business attempt.
Waiting(retries) == [pc |-> "queued", business_attempts |-> 0,
                     history |-> "none", report |-> 0, retries |-> retries]
Unused == [Waiting(0) EXCEPT !.pc = "unused"]
Task == [pc : {"unused", "queued", "parse", "failing", "writing", "failed",
               "parsed", "ended"},
         business_attempts : Nat, history : {"none", "few", "many"}, report : Reports \cup {0},
         retries : 0..MaxRetries]

NoSweep == [pc |-> "idle", purged |-> {}, loaded |-> NoCar, known |-> FALSE]

TypeOK ==
  /\ car \in Car \cup {NoCar}
  /\ rowOwner \in Owners \cup {NoOne}
  /\ histories \in Nat
  /\ autochecks \subseteq Reports
  /\ listing \in Listings
  /\ task \in [Tasks -> Task]
  /\ bids \in [BidRuns -> {"idle", "http", "holding"}]
  /\ feed \in [Feeds -> {"idle", "deleting", "archiving"}]
  /\ sweep \in [Sweepers -> [pc : {"idle", "purge", "delete", "select", "http",
                                   "apply", "holding"},
                             purged : SUBSET Reports,
                             loaded : Car \cup {NoCar}, known : BOOLEAN]]
  /\ uploads \in 0..MaxUploads
  /\ redeliveries \in Nat /\ errors \in Nat /\ outcomes \in Nat

\* What the bulk import inserts for a lot it has not seen before.
NewRow(relevance, date, reasons) ==
  [relevance |-> relevance, date |-> date, is_checked |-> FALSE,
   has_correct_vin |-> TRUE, priced |-> FALSE, attempts |-> 0,
   recommended |-> reasons = {}, reasons |-> reasons]

NoJobs ==
  /\ rowOwner = NoOne
  /\ histories = 0 /\ autochecks = {}
  /\ listing \in Listings
  /\ task = [t \in Tasks |-> Unused]
  /\ bids = [b \in BidRuns |-> "idle"]
  /\ feed = [f \in Feeds |-> "idle"]
  /\ sweep = [s \in Sweepers |-> NoSweep]
  /\ uploads = 0 /\ redeliveries = 0 /\ errors = 0 /\ outcomes = 0

Init ==
  /\ \E relevance \in {"Active", "Irrelevant"},
        date \in {"past", "future", "none"}, reasons \in SUBSET {"lasting"} :
       car = NewRow(relevance, date, reasons)
  /\ NoJobs

-----------------------------------------------------------------------------
(* Helpers                                                                 *)

Present == car # NoCar

RowFree == rowOwner = NoOne

Expired == Present /\ car.relevance = "Active" /\ car.date = "past"

Release(o) == rowOwner' = IF rowOwner = o THEN NoOne ELSE rowOwner

\* ON DELETE CASCADE, or a DELETE of the same transaction, takes the rest.
DropCar == car' = NoCar /\ histories' = 0 /\ autochecks' = {} /\ outcomes' = 0

\* Mutant: the status enum of another column.
ArchivedAsSold(c) == [c EXCEPT !.relevance = "Sold"]

\* Mutant: the change is not committed.
NotArchived(c) == c

Archived(c) == [c EXCEPT !.relevance = "Archival"]

-----------------------------------------------------------------------------
(* parse_and_update_car                                                    *)

\* kickoff_parse_for_filter selects the car and calls delay.
KickoffSelect(t) ==
  /\ task[t].pc = "unused"
  /\ Present
  /\ ~car.priced /\ ~car.is_checked /\ car.attempts < 3
  /\ task' = [task EXCEPT ![t] = Waiting(0)]
  /\ UNCHANGED <<tableVars, uploads, listing, bids, feed, sweep, redeliveries,
                 errors, outcomes>>

Move(t, pc) == task' = [task EXCEPT ![t].pc = pc]

\* The task returns or raises; its retries are all the message keeps.
Ended(retries) == [Waiting(retries) EXCEPT !.pc = "ended"]
Finish(t) == task' = [task EXCEPT ![t] = Ended(@.retries)]

\* The car is read without a lock; on its first attempt its sales history is
\* fetched, which may fail like an empty one.
TaskStart(t) ==
  /\ task[t].pc = "queued"
  /\ Present
  /\ \E history \in IF car.attempts = 0 THEN {"none", "few", "many"}
                                        ELSE {"none"} :
       task' = [task EXCEPT ![t].pc = "parse", ![t].history = history,
                            ![t].business_attempts = car.attempts]
  /\ UNCHANGED <<tableVars, uploads, listing, bids, feed, sweep, redeliveries,
                 errors, outcomes>>

\* The parsers service answers; of a success the report goes to the bucket.
TaskParse(t) ==
  /\ task[t].pc = "parse"
  /\ \/ /\ \E pc \in {"failing", "writing"} : Move(t, pc)
        /\ UNCHANGED uploads
     \/ /\ uploads < MaxUploads
        /\ uploads' = uploads + 1
        /\ task' = [task EXCEPT ![t].pc = "writing", ![t].report = uploads + 1]
  /\ UNCHANGED <<tableVars, listing, bids, feed, sweep, redeliveries,
                 errors, outcomes>>

\* SELECT ... FOR UPDATE NOWAIT returns the row.
TaskLock(t) ==
  /\ Present /\ RowFree
  /\ \/ task[t].pc = "failing" /\ Move(t, "failed")
     \/ task[t].pc = "writing" /\ Move(t, "parsed")
  /\ rowOwner' = t
  /\ UNCHANGED <<car, histories, autochecks, uploads, listing, bids, feed, sweep,
                 redeliveries, errors, outcomes>>

\* The row is locked: a failure is not recorded ("locked_skip").
TaskSkip(t) ==
  /\ task[t].pc = "failing"
  /\ Present /\ ~RowFree
  /\ Finish(t)
  /\ UNCHANGED <<tableVars, uploads, listing, bids, feed, sweep, redeliveries,
                 errors, outcomes>>

\* Mutant: the retry is sent as a new message.
Resent(old) == Waiting(old.retries)

\* self.retry sends the message again, the third time it raises.
Retried(old) == IF old.retries < MaxRetries THEN Waiting(old.retries + 1)
                                            ELSE Ended(old.retries)

TaskRetry(t) ==
  /\ task[t].pc = "writing"
  /\ Present /\ ~RowFree
  /\ task' = [task EXCEPT ![t] = Retried(@)]
  /\ UNCHANGED <<tableVars, uploads, listing, bids, feed, sweep, redeliveries,
                 errors, outcomes>>

\* ValueError, or "not_found".
TaskNotFound(t) ==
  /\ task[t].pc \in {"queued", "failing", "writing"}
  /\ ~Present
  /\ Finish(t)
  /\ UNCHANGED <<tableVars, uploads, listing, bids, feed, sweep, redeliveries,
                 errors, outcomes>>

\* Mutant: the count goes on from the value read before the parser call.
CountedFromStart(t) == task[t].business_attempts + 1

\* attempts is read again under the lock.
Counted(t) == car.attempts + 1

CommitFailed(t) ==
  /\ task[t].pc = "failed"
  /\ \E reason \in {"parser error", "lasting"} :
       car' = [car EXCEPT !.reasons = @ \cup {reason},
                          !.has_correct_vin = FALSE,
                          !.attempts = Counted(t)]
  /\ outcomes' = outcomes + 1
  /\ Release(t)
  /\ Finish(t)
  /\ UNCHANGED <<histories, autochecks, uploads, listing, bids, feed, sweep,
                 redeliveries, errors>>

\* Mutant: has_correct_vin is reset, the reason is not.
KeepParserErrors(reasons) == reasons

WithoutParserErrors(reasons) == reasons \ {"parser error"}

\* Mutant: only the attempt decides, the stored history is not looked at.
AnyHistory(t) == task[t].history # "none"

\* business_attempts = 0, rows were fetched and the row still has none.
StoresHistory(t) == task[t].history # "none" /\ histories = 0

\* Everything of a success is written in one transaction; the mismatch of the
\* mileage adds a reason but leaves the recommendation.
CommitParsed(t) ==
  /\ task[t].pc = "parsed"
  /\ \E mismatch \in BOOLEAN :
       LET many  == StoresHistory(t) /\ task[t].history = "many"
           added == IF many \/ mismatch THEN {"lasting"} ELSE {}
       IN  car' = [car EXCEPT !.relevance = "Active", !.is_checked = TRUE,
                     !.has_correct_vin = TRUE, !.priced = TRUE,
                     !.attempts = Counted(t),
                     !.recommended = @ /\ ~many,
                     !.reasons = WithoutParserErrors(@) \cup added]
  /\ histories' = IF StoresHistory(t) THEN histories + 1 ELSE histories
  /\ autochecks' = autochecks \cup ({task[t].report} \ {0})
  /\ outcomes' = outcomes + 1
  /\ Release(t)
  /\ Finish(t)
  /\ UNCHANGED <<uploads, listing, bids, feed, sweep, redeliveries, errors>>

Running(t) == task[t].pc \in {"parse", "failing", "writing", "failed",
                              "parsed"}

\* Any other exception: rollback, and the task has failed.
TaskError(t) ==
  /\ Running(t)
  /\ Release(t)
  /\ Finish(t)
  /\ UNCHANGED <<car, histories, autochecks, uploads, listing, bids, feed, sweep,
                 redeliveries, errors, outcomes>>

\* The worker is lost before the acknowledgement, which may be after the
\* commit: the message is delivered again.
TaskRedelivered(t) ==
  /\ Running(t) \/ task[t].pc = "ended"
  /\ redeliveries < MaxRedeliveries
  /\ redeliveries' = redeliveries + 1
  /\ Release(t)
  /\ task' = [task EXCEPT ![t] = Waiting(@.retries)]
  /\ UNCHANGED <<car, histories, autochecks, uploads, listing, bids, feed, sweep,
                 errors, outcomes>>

-----------------------------------------------------------------------------
(* update_car_bids                                                         *)

BidsSelect(b) ==
  /\ bids[b] = "idle"
  /\ Present /\ car.relevance = "Active"
  /\ bids' = [bids EXCEPT ![b] = "http"]
  /\ UNCHANGED <<tableVars, uploads, listing, task, feed, sweep, redeliveries,
                 errors, outcomes>>

\* The row is taken whatever its relevance is by now.
BidsClaim(b) ==
  /\ bids[b] = "http"
  /\ Present /\ RowFree
  /\ rowOwner' = b
  /\ bids' = [bids EXCEPT ![b] = "holding"]
  /\ UNCHANGED <<car, histories, autochecks, uploads, listing, task, feed, sweep,
                 redeliveries, errors, outcomes>>

Judged(c, over) ==
  IF over THEN [c EXCEPT !.recommended = FALSE, !.reasons = @ \cup {"bid"}]
          ELSE [c EXCEPT !.reasons = @ \ {"bid"},
                         !.recommended = @ \/ c.reasons \subseteq {"bid"}]

\* A car without a suggested bid only gets its current bid.
BidsCommit(b) ==
  /\ bids[b] = "holding"
  /\ \E over \in BOOLEAN : car' = IF car.priced THEN Judged(car, over) ELSE car
  /\ Release(b)
  /\ bids' = [bids EXCEPT ![b] = "idle"]
  /\ UNCHANGED <<histories, autochecks, uploads, listing, task, feed, sweep,
                 redeliveries, errors, outcomes>>

\* The parser fails, has no bid for the car, the row is skipped because it is
\* locked or gone, or the session fails and is rolled back.
BidsEnd(b) ==
  /\ bids[b] \in {"http", "holding"}
  /\ Release(b)
  /\ bids' = [bids EXCEPT ![b] = "idle"]
  /\ UNCHANGED <<car, histories, autochecks, uploads, listing, task, feed, sweep,
                 redeliveries, errors, outcomes>>

-----------------------------------------------------------------------------
(* update_cars_relevance                                                   *)

\* Both claims are FOR UPDATE SKIP LOCKED; an archived car is left alone.
FeedClaim(f) ==
  /\ feed[f] = "idle"
  /\ Present /\ RowFree
  /\ \/ car.relevance = "Irrelevant" /\ feed' = [feed EXCEPT ![f] = "deleting"]
     \/ car.relevance = "Active" /\ feed' = [feed EXCEPT ![f] = "archiving"]
  /\ rowOwner' = f
  /\ UNCHANGED <<car, histories, autochecks, uploads, listing, task, bids, sweep,
                 redeliveries, errors, outcomes>>

\* The files of the reports are deleted after the commit, which no table shows.
FeedCommit(f) ==
  /\ \/ feed[f] = "deleting" /\ DropCar
     \/ /\ feed[f] = "archiving"
        /\ car' = Archived(car)
        /\ autochecks' = {}
        /\ UNCHANGED <<histories, outcomes>>
  /\ feed' = [feed EXCEPT ![f] = "idle"]
  /\ Release(f)
  /\ UNCHANGED <<uploads, listing, task, bids, sweep, redeliveries, errors>>

\* Timeout, database error or crash before the commit.
FeedError(f) ==
  /\ feed[f] # "idle"
  /\ feed' = [feed EXCEPT ![f] = "idle"]
  /\ Release(f)
  /\ UNCHANGED <<car, histories, autochecks, uploads, listing, task, bids, sweep,
                 redeliveries, errors, outcomes>>

-----------------------------------------------------------------------------
(* parse_and_update_cars_with_expired_auction_date                          *)

\* Only ids are selected, nothing is locked.
SweepBegin(s) ==
  /\ sweep[s].pc = "idle"
  /\ \/ /\ Present /\ car.relevance = "Irrelevant" /\ car.date = "past"
        /\ sweep' = [sweep EXCEPT ![s].pc = "purge"]
     \/ Expired /\ sweep' = [sweep EXCEPT ![s].pc = "select"]
  /\ UNCHANGED <<tableVars, uploads, listing, task, bids, feed, redeliveries,
                 errors, outcomes>>

\* The dependent rows there are now are deleted first.
SweepPurge(s) ==
  /\ sweep[s].pc = "purge"
  /\ sweep' = [sweep EXCEPT ![s].pc = "delete", ![s].purged = autochecks]
  /\ UNCHANGED <<tableVars, uploads, listing, task, bids, feed, redeliveries,
                 errors, outcomes>>

\* DELETE FROM cars WHERE id IN (the selected ids), whatever they have become;
\* a row of auto_checks added since fails the foreign key, and all is undone.
SweepDelete(s) ==
  /\ sweep[s].pc = "delete"
  /\ RowFree
  /\ IF Present /\ autochecks \subseteq sweep[s].purged
       THEN DropCar
       ELSE UNCHANGED <<car, histories, autochecks, outcomes>>
  /\ sweep' = [sweep EXCEPT ![s] = [NoSweep EXCEPT !.pc = "select"]]
  /\ UNCHANGED <<rowOwner, uploads, listing, task, bids, feed, redeliveries,
                 errors>>

SweepSelect(s) ==
  /\ sweep[s].pc = "select"
  /\ sweep' = [sweep EXCEPT ![s].pc = IF Expired THEN "http" ELSE "idle"]
  /\ UNCHANGED <<tableVars, uploads, listing, task, bids, feed, redeliveries,
                 errors, outcomes>>

\* httpx.get("http://parsers:8001/api/v1/apicar/{vin}")
NotFound == ~RefreshServed \/ listing = "gone"

SweepGone(s) ==
  /\ sweep[s].pc = "http"
  /\ NotFound
  /\ RowFree
  /\ car' = IF Present THEN Archived(car) ELSE car
  /\ sweep' = [sweep EXCEPT ![s] = NoSweep]
  /\ UNCHANGED <<rowOwner, histories, autochecks, uploads, listing, task, bids,
                 feed, redeliveries, errors, outcomes>>

\* The row and its history are loaded, still without a lock.
SweepLoad(s) ==
  /\ sweep[s].pc = "http"
  /\ ~NotFound
  /\ sweep' = [sweep EXCEPT ![s] =
       IF Present THEN [NoSweep EXCEPT !.pc = "apply", !.loaded = car,
                                       !.known = histories > 0]
                  ELSE NoSweep]
  /\ UNCHANGED <<tableVars, uploads, listing, task, bids, feed, redeliveries,
                 errors, outcomes>>

\* The autoflush before the assessments are replaced updates the row.
SweepFlush(s) ==
  /\ sweep[s].pc = "apply"
  /\ RowFree /\ Present
  /\ rowOwner' = s
  /\ sweep' = [sweep EXCEPT ![s].pc = "holding"]
  /\ UNCHANGED <<car, histories, autochecks, uploads, listing, task, bids, feed,
                 redeliveries, errors, outcomes>>

\* Mutant: every column is written, changed or not.
WholeRow(loaded, new) == new

\* The ORM writes the columns that differ from what it has loaded.
Changed(loaded, new) ==
  [field \in DOMAIN car |->
     IF new[field] # loaded[field] THEN new[field] ELSE car[field]]

KeepsActive(loaded, date) == listing = "buynow" \/ date = "future"

AnsweredDates == IF listing = "future" THEN {"future"} ELSE {"past", "none"}

Refreshed(loaded, date, added) ==
  [loaded EXCEPT !.date = date, !.has_correct_vin = FALSE,
                 !.recommended = @ /\ added = {},
                 !.reasons = @ \cup added,
                 !.relevance = IF KeepsActive(loaded, date) THEN "Active"
                                                         ELSE "Archival"]

SweepCommit(s) ==
  LET loaded == sweep[s].loaded
  IN  /\ sweep[s].pc = "holding"
      /\ \E date \in AnsweredDates,
            added \in SUBSET (IF loaded.priced THEN {"bid", "lasting"}
                                               ELSE {"lasting"}) :
           car' = Changed(loaded, Refreshed(loaded, date, added))
      /\ histories' \in IF sweep[s].known THEN {histories}
                                          ELSE {histories, histories + 1}
      /\ Release(s)
      /\ sweep' = [sweep EXCEPT ![s] = NoSweep]
      /\ UNCHANGED <<autochecks, uploads, listing, task, bids, feed,
                     redeliveries, errors, outcomes>>

\* No answer, an invalid one, a failed transaction, or the car is gone.
SweepError(s) ==
  /\ sweep[s].pc # "idle"
  /\ errors < MaxErrors \/ (sweep[s].pc = "apply" /\ ~Present)
  /\ errors' = IF errors < MaxErrors THEN errors + 1 ELSE errors
  /\ Release(s)
  /\ sweep' = [sweep EXCEPT ![s] = NoSweep]
  /\ UNCHANGED <<car, histories, autochecks, uploads, listing, task, bids, feed,
                 redeliveries, outcomes>>

-----------------------------------------------------------------------------
\* The day of the auction goes by.
AuctionPasses ==
  /\ Present /\ car.date = "future"
  /\ car' = [car EXCEPT !.date = "past"]
  /\ UNCHANGED <<rowOwner, histories, autochecks, uploads, listing, task, bids,
                 feed, sweep, redeliveries, errors, outcomes>>

TaskStep(t) == TaskStart(t) \/ TaskParse(t) \/ TaskLock(t) \/ TaskSkip(t)
                 \/ TaskRetry(t) \/ TaskNotFound(t) \/ CommitFailed(t)
                 \/ CommitParsed(t)

Bids(b) == BidsClaim(b) \/ BidsCommit(b) \/ BidsEnd(b)

Feed(f) == FeedClaim(f) \/ FeedCommit(f) \/ FeedError(f)

SweepLocks(s) == SweepDelete(s) \/ SweepGone(s) \/ SweepFlush(s)

SweepStep(s) == SweepPurge(s) \/ SweepSelect(s) \/ SweepLoad(s)
                  \/ SweepCommit(s) \/ SweepError(s)

Next == \/ AuctionPasses
        \/ \E t \in Tasks : KickoffSelect(t) \/ TaskStep(t) \/ TaskError(t)
                              \/ TaskRedelivered(t)
        \/ \E b \in BidRuns : BidsSelect(b) \/ Bids(b)
        \/ \E f \in Feeds : Feed(f)
        \/ \E s \in Sweepers : SweepBegin(s) \/ SweepLocks(s) \/ SweepStep(s)

Spec == Init /\ [][Next]_vars

\* Workers go on with what they have taken, beat starts the sweep every day,
\* and PostgreSQL queues the transactions that wait for a row.
Fairness ==
  /\ \A t \in Tasks : WF_vars(TaskStep(t))
  /\ \A b \in BidRuns : WF_vars(Bids(b))
  /\ \A f \in Feeds : WF_vars(FeedCommit(f))
  /\ \A s \in Sweepers : /\ WF_vars(SweepBegin(s))
                         /\ WF_vars(SweepStep(s))
                         /\ SF_vars(SweepLocks(s))

FairSpec == Spec /\ Fairness

-----------------------------------------------------------------------------
(* Properties                                                              *)

\* Two parse tasks of the same car, or one that is delivered twice, store its
\* sales history once: it is looked for again under the row lock.
HistoryOnce == histories <= 1

\* attempts counts every recorded outcome, however tasks, bids, feed and sweep
\* interleave: no increment is lost and none is made twice for one outcome.
AttemptsCounted == Present => car.attempts = outcomes

\* A car whose VIN is marked correct does not carry a parser error among its
\* reasons: flag and reason change together although three jobs rewrite the
\* reasons.
VinFlagMatchesReason ==
  Present /\ car.has_correct_vin => "parser error" \notin car.reasons

\* A car is deleted only while it is irrelevant: a parse task that has just
\* made it active is respected.
OnlyIrrelevantDeleted ==
  [][Present /\ ~Present' => car.relevance = "Irrelevant"]_vars

\* Bids, feed and sweep never take back that a car has been parsed, nor its
\* price, although the sweep writes what it has loaded long before.
ParseResultKept ==
  [][Present /\ Present' /\ car.is_checked =>
       car'.is_checked /\ car'.priced /\ car'.attempts >= car.attempts]_vars

\* The sweep does not archive a car whose auction has been moved to the future
\* (docstring: 404 -> ARCHIVAL, 200 with a future date -> ACTIVE).
RescheduledSpared ==
  [][Present /\ Present' /\ car.relevance = "Active"
       /\ car'.relevance = "Archival" => listing # "future"]_vars

\* A parse task that has been sent ends, in spite of lock conflicts.
EveryTaskEnds ==
  \A t \in Tasks : (task[t].pc = "queued") ~> (task[t].pc = "ended")

\* The sweep gets every active car with a past date out of the way, or gives it
\* a new date, except for a BuyNow offer.
ExpiredSettles == Expired ~> (~Expired \/ listing = "buynow")
=============================================================================
