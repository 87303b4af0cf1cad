# TLA+ models of the car-auction back end

`entities` (FastAPI, SQLAlchemy on PostgreSQL, Celery) keeps cars that are up for
auction, lets administrators define filters, parses the cars that match, and
keeps the books of the cars that were bought.  `parsers` scrapes third-party
sites on request and feeds `entities` with lots.  The modules here model the
parts where several processes write the same rows, and where a process may die
between two steps.  Paths below are relative to `src/`; those that begin with
`crud`, `routers`, `models`, `services`, `tasks` or `core` lie under `entities/`
(`routers` is `api/v1/routers`).

## 1. Inventory of the system

| component | state | operations | shared with |
|---|---|---|---|
| Filter kickoff queue (`services/filter_kickoff_queue.py`, `services/lock.py`, `tasks/task.py:1020-1146, 1540-1594`) | tables `filters`, `filter_kickoff_queue`; advisory locks 910001, 910002; a Redis key | `create_filter`, `enqueue_filter_kickoff`, `dispatch_due_filter_kickoff_jobs` (beat, every minute), `kickoff_parse_for_filter` | sends the parse tasks of cars |
| Background jobs on a car (`tasks/task.py:275-881, 1150-1503`, `crud/vehicle.py:49-230`) | table `cars`, its sales history and auto checks | `parse_and_update_car`, `update_car_bids`, `parse_and_update_cars_with_expired_auction_date`, `update_cars_relevance` | everything below writes the same rows |
| Car ingestion (`crud/vehicle.py:1135-1636, 1759-1919`, `routers/vehicle.py:858-891, 1036-1086`) | `cars`, condition assessments, photos | `bulk_save_vehicles`, `upsert_vehicle` | sends parse tasks; fed by `parsers/tasks/tasks.py` |
| Filters and relevance (`routers/admin.py:112-363`, `services/vehicle.py:192-207`, `crud/vehicle.py:1187-1196, 1759-1919`, `tasks/task.py:1286-1490`) | `filters`, `cars.relevance` | creation, PATCH and DELETE of a filter, `match_filter`, manual entry, sweep | the kickoff queue, the jobs, the import |
| Parts cost, bids, bidding hub (`crud/vehicle.py:968-1132`, `routers/bidding_hub.py`, `routers/vehicle.py:457-855`) | `parts`, the money columns of `cars`, `car_status`, its history | parts, costs, price, actual bid, status | the inventory: a won car gets a row; the fee tables; the import writes costs and status back |
| Fee tables, ROI (`routers/admin.py:366-675`, `routers/fee.py`, `tasks/task.py:883-1017`) | `fees`, ROI rows | replace, add, change, delete, select | read by the parse task |
| Inventory ledger (`crud/inventory.py:65-454`, `utils.py`) | `car_inventory`, its investments, `history` | create, update, delete of investments and of the inventory, final sale price | - |
| Part inventory and invoices (`crud/inventory.py:457-840`) | `part_inventory`, `invoices`, `history`, objects in a bucket | create, edit, status, deletion; upload, replacement, deletion of a file | - |
| Accounts (`routers/auth.py`, `routers/user.py`, `crud/user.py`, `core/security`, `core/setup.py`) | `users`, cookies, signed tokens | start-up, invitation, registration, roles, password, login, refresh, logout | every call asks who it is |
| Parsers service (`parsers/`) | in memory: credentials of a site, a lock, an event | `scrape_dc`, the feed tasks | HTTP to and from `entities` |
| Audit mail (`tasks/task.py`, `services/car_audit.py`, `services/email_sync.py`) | a JSON-lines file per day | append, mail, unlink | every upsert appends |
| Analytics, search, catalogue (`routers/analytic.py`, `routers/vehicle.py`, `services/makes_and_models.py`) | none | SQL queries, constants | - |

How they interact: HTTP handlers and Celery tasks meet in the rows of PostgreSQL
(READ COMMITTED, `db/session.py` sets nothing else); tasks are sent through a
Redis broker with late acknowledgement (`core/celery_config.py:32-35`), so a
message is delivered at least once; `entities` calls `parsers` over HTTP while it
holds nothing, or, in `update_car_bids`, between two statements.  Inside
`parsers`, requests are coroutines of one event loop.

What is hard here: read-compute-write without a lock (sweep, import,
inventory sums, parts cost); two transactions where one was meant (investments,
filters, status and history); rows selected by a condition and deleted by id;
files and rows that no transaction ties together; a message sent before or after
the commit it belongs to (dispatch, import); redelivery; row locks that are
skipped, waited for, or tried with NOWAIT and a bounded number of retries;
cascades that race with writers; a login that several coroutines share.  The
list, line by line, is `hazards` in `PROJECT.json`.

What makes each part correct: kickoffs are spaced, dispatched when due and never
stranded; a car's history, attempts and reasons agree with the parses that were
made, and jobs do not undo each other; an import does not undo a parse, and a car
that needs one gets one; the active list is what the filters say; totals, parts
costs and suggested bids follow from what they are computed from; a stored
invoice has its file, and what was removed is on record; one account per
address, roles from administrators, no session after logout; one login serves
all who wait for it.  Each with exceptions, which the properties name.

## 2. Modules and the order they were written in

| module | about | builds on |
|---|---|---|
| `Calendar` | what the kickoff queue promises | - |
| `KickoffQueue`, `KickoffQueueProofs` | the queue, its dispatcher and workers; proofs | refines `Calendar` |
| `CarParsing` | one car row and the background jobs | - |
| `CarIngestion`, `CarProofs` | import and administrator's entry; proofs about both | extends `CarParsing` |
| `InventoryLedger`, `InventoryLedgerProofs` | investments and totals | - |
| `FilterRelevance`, `FilterRelevanceProofs` | filters, imports and jobs on the relevance of cars | - |
| `FeeTable` | the fee rows of the auctions | - |
| `CarPricing`, `CarPricingProofs` | money and status of one car; proofs also about `FeeTable` | extends `FeeTable` |
| `PartInvoices`, `PartInvoicesProofs` | parts, invoices and the bucket | - |
| `Accounts`, `AccountsProofs` | accounts, roles, sessions | - |
| `DealerCenterLogin`, `DealerCenterLoginProofs` | the shared login of a scraper | - |

Each has an `MC` module that names the model values, symmetry sets and data of its
instances.  `FilterRelevance` looks at the cars of all filters with everything but
relevance abstracted; `CarParsing` and `CarIngestion` look at every column of one
car.  A definition marked *Mutant* in a comment is a wrong variant of the one that
follows it, used to see that a property notices.

## 3. How state and actions correspond to the code

**`KickoffQueue`.** `request[r]` is the open transaction of a `create_filter`
call: `CreateFilter` flushes the filter, `EnqueueFilterKickoff` takes advisory lock
910001, reads the last active row and plans `max(now, last + 90 min)`,
`CommitCreate` commits both rows and releases the lock, `AbortCreate` is
`get_db`'s rollback.  `dispatcher[d]` is a run of the beat task: `DispatchBegin`
takes lock 910002 and claims due rows with SKIP LOCKED, `DispatchSend` and
`DispatchRefused` go through them in order and talk to the broker at once,
`DispatchCommit` writes the statuses, `DispatchCrash` loses the statuses but not
the messages.  `worker[w]` is a kickoff: found or not found, fan-out, outcome in
a session of its own, the except branch with its own failure, and an
acknowledgement after the task.  `broker` is a bag of messages; `KickoffCrash` and
`VisibilityTimeout` deliver again.  `UpdateFilter` sends a kickoff with the filter's
id as `lock_token`, as the code does; `DeleteFilter` cascades.

**`Calendar`.** The queue's promise without its machinery: a job is booked once, at
least `Interval` behind every slot booked at that moment, keeps its slot, and is
over for good.  `KickoffQueue!Abstract` maps active rows to booked jobs, ids
whose row is not committed to unused ones, and everything else to over.

**`CarParsing`.** One row of `cars`.  `task[t]` is a message of
`parse_and_update_car` and what its worker does: `TaskStart` reads attempts without a
lock, `TaskParse` is the call of the parsers service, `TaskLock` is `FOR UPDATE
NOWAIT`, `TaskSkip` and `TaskRetry` its two conflict branches, `CommitFailed` and
`CommitParsed` the short write.  `bids` is `update_car_bids`, `feed` is
`update_cars_relevance`, and `sweep` the daily task with its unlocked selects,
its delete by id and its ORM write of the columns that changed.  `rowOwner` is
the row lock.  Reasons are three classes: parser errors, the bid entry, and
entries nobody removes.  `outcomes` counts commits of the parse task and exists
for `AttemptsCounted`.  `RefreshServed` says whether `parsers` answers
`GET /apicar/{vin}`: as the code stands it does not; `parsing_sweep` sets it to TRUE
to exercise the 200 branch, `SweepArchivesAll.cfg` keeps it FALSE.

**`CarIngestion`.** Adds `import` (what a bulk import has computed and not yet
written), `upsert` (what an administrator's call has loaded), and the column
`is_manually_upserted`.  `Prepared` is the row built in memory, whose NULLs are filled
from the row as it was read; `Updated` drops the excluded columns; an insert writes
all of them.  The import's second and third transaction, condition assessments and
photos, are `ImportDetails` and, when the row they refer to has gone,
`ImportDetailsRefused`.  `Ivents` holds the values of `ivent`: `parsers` sends
"updated" and "created", the code compares with "update"; the run allows "update" so
that the re-activation branch is exercised.  Of the reasons a lot may bring, all
are lasting ones: the import words a bid above the suggested one otherwise than
`update_car_bids` does (`crud/vehicle.py:1382, 1426`; `tasks/task.py:848-861`), which
therefore never removes it.  Which unused message stands for the one that is sent says
nothing, so `SendTask` chooses one.

**`FilterRelevance`.** A filter is a model, or all models, one lower bound that
stands for the bounds on year and mileage, and `low`, its `odometer_min`.  The
conditions of the callers differ, so each has its operator: `Matches` (creation and
kickoff), `PatchMatches`, `DeleteMatches`, and `Accepts` and `Raises` for the import's
`match_filter`, which leaves `odometer_min` out and fails on a missing bound.  PATCH has
its two transactions, DELETE its reads, its deletion by id, and its commit; an archived
car with auto checks or likes refuses the deletion of either (`ApplyRefused`,
`DeleteRefused`), after the filter is committed or before anything is.  An import reads
rows and filters first and writes later (`ReadFilters`, `StoreLots`); a manual entry makes
a car active whatever the filters say (`UpsertRead`, `UpsertWrite`); the sweep deletes by
ids read before (`SweepRead`, `SweepDelete`) and sets aside or re-activates one active car
after another by its VIN (`RefreshRead`, `Refresh`); the feed, kickoffs and parse tasks are
single steps on one car.  An id is given once, so a row that is gone leaves the lists of
ids calls hold (`WithoutRows`); calls that go by the VIN keep theirs (`ByVin`).
`excused` names the cars that one of the known cases has put out of line: two writers
met on them, a second filter matched them, a patch died or was refused half way, the
model was NULL, a lot below `odometer_min` was accepted, or they were entered by hand and
no filter matches.  A car leaves it when a new filter takes it up.

**`FeeTable` and `CarPricing`.** A replacement of an auction's fees is a DELETE with its
snapshot and its waiting, then INSERT and COMMIT, or a rollback (`ReplaceFail`); all rows
of one answer are one row that carries their sum.  `UpdateFee` is PUT, which may move a row
to another auction.  `update_car_fees` is modelled although beat no longer sends it
(its entry in `core/celery_config.py` is commented out).  In `CarPricing` a call loads
the row (`Load`), computes (`Computed`) and writes the columns that changed
(`Written`); the parse task computes first and locks afterwards; the bulk import writes
the parts cost, the other costs, the actual bid and the status as it has read them
(`ImportRead`, `Imported`, `ImportWrite`) and leaves the columns of a price alone.
Money is a float in the code: here an amount is a whole number of a unit, `Dollar` of
which make a dollar, so that the `int()` of a suggested bid has something to cut (`Cut`).
Amounts may be negative, as the schemas allow, and a cost that is not above zero is
replaced by the value of a new part (`Plus`).  A price stands for
the investment at the default ROI; columns derived from an
actual bid that nothing reads are left out.  A won car gets its inventory row with the
status; if that is deleted before the history is attached, the call may fail
(`InventoryDeleted`, `AttachRefused`) and leaves no record.  `raced` is set when a
call or an import writes over
a column that was changed since it was read, `negative` when a value replaces a cost below
zero, `feeMoved` when an actual bid moves the
fee; `records` counts changes of the status, records of them, and the two ways besides
crashes in which a record is missing.

**`InventoryLedger`.** One inventory with its investments; `call[c]` is an HTTP call
between two statements that other transactions can interleave with.  A SELECT of the
sums sees committed rows and the call's own.  `overlapped` and `tainted` are
history variables that name the two known ways to stale totals.

**`PartInvoices`.** A call is at the point between two of its effects: bucket, row,
history.  Keys and urls keep what decides which object they name: the part, the second,
the form of the key, and the host, which `delete_invoice` cuts off only if it is the
one it expects.  `collided` holds invoices whose key a later upload of the same
second has taken, `overlapped` parts with two changes of status at once.

**`Accounts`.** An address has a `mixed` flag for capital letters; tokens are a user and
an end; a call does its checks when it begins and commits, or answers with cookies,
later.  `grants` collects what administrators have granted at the moment their call was
authorised.  Time is in units that let an access token end before a refresh token.

**`DealerCenterLogin`.** A step is what a coroutine does between two awaits; the lock,
the event and the class-level credentials are `lock`, `ready` and `shared`.
`_login_lock` and `_login_ready` of an instance drive nothing and are left out, and
`Config.CREDENTIALS` always equals the class-level ones.  The browser steps of a login
are three: until the cookies are saved, until the token is, until the browser is closed.

## 4. Runs

| run | instance | what it shows |
|---|---|---|
| `kickoff_calendar` | two creations, two dispatch runs (one may die), deletions | types; `CalendarInv`; slots 90 min apart; at most one extra send per crash; implements `Calendar` |
| `kickoff_workers` | two workers, an older filter, its PATCH, a redelivery, a dispatcher crash, a failing except branch, fairness | a dispatched row has its message or its worker, or is known as orphaned; "done" is explained by its fan-out or by the PATCH of that id; outcomes are final; every active row settles unless orphaned |
| `parsing_tasks` | two parse tasks, a bids run, a feed, a redelivery | history once; attempts = outcomes; VIN flag and reasons agree |
| `parsing_sweep` | sweep, parse task, bids run, redelivery, error, fairness | parse results kept; tasks end; expired cars settle |
| `ingestion` | import that may die, administrator's entry, feed, two parse tasks that may fail, fairness | the import spares what the parse task owns; a task that was lost or has failed is made good if the lot goes on being listed |
| `filter_relevance` | two calls (filters, imports, manual entries, sweeps), two filters, three cars, feed, kickoffs, parse tasks, a crash | the active list follows the filters but for the cases in `excused`; an active car is deleted only by an id that `delete_filter` or the sweep has read before |
| `car_pricing` | two calls or imports, two parts, two fee replacements, a fee edited by hand, a crash | sums are exact but for `raced`, `negative` and `feeMoved`; fees of one answer unless replacements overlap; status changes on record but for crashes, refusals and imports that take one back |
| `inventory_ledger` | two calls of any kind, one may die | totals exact at rest, but for the two named causes; no orphans; deletions on record |
| `part_invoices` | two calls, one part, two invoices, a crash | an invoice as uploaded has its file; a missing one its record; the history of the status has no gap |
| `accounts` | two browsers, two calls in progress, three addresses, two accounts to be made, restarts | one account per address; roles are granted; an administrator remains; logout holds |
| `scrape_login` | two scrapes, an ended session, a failing call, a failing login, fairness | one login while nothing fails; who waits is served |
| `scrape_hangs` | two scrapes, one failing login, fairness | *violated*: `EveryScrapeAnswers`; the one who waits is never woken |

`KickoffFaults` and `KickoffCrashes` are larger instances of `kickoff_workers` and pass.
The other configurations reproduce the traces of findings; TLC refutes their property:
`KickoffConcurrent` (nothing excludes two kickoffs at a time), `SweepDeletesActive`,
`SweepArchivesAll`, `ImportDropsDate`, `ImportDropsReasons`, `ImportRefused`.
`findings` in `PROJECT.json` quotes the sentence of the repository each contradicts.
`InventoryLedger`, `CarIngestion`, `CarPricing` and `DealerCenterLogin` also define a
type invariant that no run lists; it holds on the same instances.

**Bounds.** Constants that cap something are commented "bound" where they are
declared.  Two of each actor are enough for every pairwise interleaving, and the
code's conflicts are pairwise: a lock and its rival, a reader and the writer
that overtakes it.  One crash, error or redelivery reaches every recovery branch; more
repeat them.

- `kickoff_calendar` has three ids so that a booking can meet two rows, one of them
  deleted, an interval of two ticks and a clock of four, so that a booking can be
  pushed behind an earlier one, be due, and be late.  `kickoff_workers` has one row
  and every fault at once; a filter older than the queue's table (`OldFilters`) makes ids
  of filters and of rows differ, so that the PATCH of one filter names the row of another.
  `KickoffFaults.cfg` (two rows, 4.3 million states, no liveness) and
  `KickoffCrashes.cfg` (two rows, one worker, with liveness) take the same properties
  further than a listed run affords.
- `parsing_tasks` has no sweep and `parsing_sweep` one task: the sweep is unlocked
  against any one writer.  `MaxRetries` is 1 instead of 3 (0 where only the feed can
  hold the row): a retry and its exhaustion.  One upload is enough for the foreign key
  that refuses the sweep's delete.
- `ingestion` has two tasks, so that one is left to be sent when the first has failed, and
  no reasons of lots: neither of its properties looks at reasons.  The two
  `ImportDrops...` configurations bring a lasting one.
- `filter_relevance` (909,961 states): one car of another model than the others, one below
  the `odometer_min` of one form, one without a year; a form without a model and one
  without a bound, which any filter may have or be given; four calls are two on each filter, or a creation, a change, and an
  import, an entry or a sweep between them.
- `car_pricing` (2,478,967 states): three calls, so that two can race after a first one has
  made something to race on; two replacements and one edit by hand.  Values -1 and 3: a
  sum of parts may be negative, zero or positive, and two units to a dollar, so that odd
  amounts are cut, below zero and above.
- `part_invoices`: five calls create a part, upload two files and delete or replace
  one while the part goes; two seconds in all, so that keys can collide or not.
- `accounts` (1,109,074 states): two rows besides the first administrators' two, so that
  it is the unique index and not the bound that refuses the second of two registrations;
  five calls are a login, two invitations of an address and two registrations, or an
  account made and then a role or a session changed.
- `scrape_login`: three attempts and two tries of the mail code, so that each can be
  used up or not.

Deadlock checking is off in all configurations: budgets, ids and the clock run
out, and a bounded instance then stops by design.

**Fairness.** `KickoffQueue`: the clock, the beat-scheduled dispatch
(`core/celery_config.py`, every minute), a run that goes on, a worker that takes and works
off messages; administrators, crashes and errors are not assumed.
`CarParsing`: a worker goes on with what it has taken, bids and sweep are started
by beat.  The sweep's writes wait for the row lock, and PostgreSQL queues waiters, so
they get strong fairness; the parse task uses NOWAIT and gets only weak fairness -
that it ends all the same is due to the bounded retries.  Errors are bounded by
`MaxErrors`: a sweep that fails every day settles nothing.  `CarIngestion`:
an import under way goes on; its upsert waits
like the sweep's writes (up to its two seconds of `lock_timeout`, after which it fails:
`ImportError`, bounded).  That the lot is listed again is no fairness of the system:
`fetch_api_data` runs every hour but asks for what has been updated
(`parsers/tasks/tasks.py:46, 70`).  `ParseIsSent` therefore has it as its hypothesis, and says
nothing of a lot that is listed once.  `DealerCenterLogin`: a coroutine that can go on does, since
calls, sleeps and browser steps have timeouts; that a request comes in is not assumed.
One weak fairness covers a coroutine's login whether it succeeds or fails, so a failing
login is as fair as a good one.

## 5. What the models say about the code

Properties that hold hold with the exceptions they name.  Each exception is a
behaviour of the code:

- a part added, or an import written, while another call holds the loaded row is missing
  from, or undone in, `parts_cost`; a part added to a cost below zero replaces it
  (`crud/vehicle.py:1022-1027`), though nothing races;
- an actual bid leaves a suggested bid computed from the former fee; a suggested bid is in
  whole dollars after a change of the price and not after a change of costs or parts;
- a status is off the record when its call died, when the inventory row of a won car was
  deleted under it, or when an import wrote back the one it had read;
- fees are charged twice after overlapping replacements;
- a patch that dies between its commits, or is refused by the foreign key of an archived
  car's auto checks or likes, leaves relevance behind, and repeating it does not help, as
  old and new condition are then the same;
- a car may be active with no filter: below `odometer_min`, which the import does not look
  at, entered by hand, or kept from a deleted filter for all models; a car two filters match
  leaves the list with the first of them;
- an active car is deleted by an id read while it was archived or irrelevant;
- a car whose import died before it sent the parse waits until it is listed again, or until
  a kickoff of its filter, which happens once after a change of the filter, finds it;
- two administrators can demote one another; a refresh under way outlives a logout; an
  administrator demoted during his call still finishes it; two simultaneous changes of a
  part's status record the same previous one.

Where a sentence of the repository promises otherwise, it is listed in `findings`.  Some
findings have no property: they were met while reading (a url prefix that never matches,
endpoints that call themselves, an answer that fails its own schema).

## 6. Proofs

TLC's instances have two or three of everything.  Every invariant and every action
property a passing run lists is also a theorem, proved for all values of the constants:
any number of calls, workers, rows, cars, filters, parts or browsers, and any bound.
`theorems` in `PROJECT.json` names them.  The argument is the same throughout: an
inductive invariant, the initial states, one lemma per step or family of steps, and a
temporal step that puts them together.  Where the property alone is not inductive, the
comment above the invariant says why it holds.  Those invariants were checked by TLC
on the runs' instances before they were proved.

**Assumptions.**  The named `ASSUME`s of the modules.  Most are bounds and types.
These say more:

- `AccountsAssumption` has `MaxUsers >= 2`: start-up makes two administrators.
- `NoneIsNoRow` (`PartInvoices`, `FilterRelevance`), `NoneAssumption` and parts of others:
  the value that stands for NULL is no row, no id and no number.
- `ManualIsNoReplacement` (`FeeTable`): a row entered by hand comes from no replacement;
  `AuctionAssumption`: each replacement is of one auction.
- `PartsAssumption` (`CarPricing`): a car has finitely many parts, or a sum means nothing.
- `PricingAssumption`: values, prices and bids are any integers, of a unit of which
  `Dollar` make a dollar.  The code has floats: what their rounding does to a sum is not
  modelled.  Fees are not below zero, as their schemas have it (`schemas/vehicle.py:536, 549`).
- `StatusAssumption`: among the statuses are "New" and "Won", which the code names.
- `FormsAssumption` (`FilterRelevance`): years are integers or missing, mileages and
  `odometer_min` natural numbers (0 where it is left out), and every lot has a model.
- `IngestionBoundsAssumption`: reasons of lots are lasting ones.
- `HistoryIsStoredOnce` and `VinFlagIsRight` have the hypothesis `~RefreshServed`: the
  parsers service has no route for the sweep's refresh, as the code stands.  With one,
  the sweep would write reasons and history from what it has loaded.  The
  other theorems of `CarProofs` do not need it.

**`KickoffQueueProofs`**

- `TypeCorrect`: `Spec => []TypeOK`.
- `CalendarInvariant`: `Spec => []CalendarInv`, and from it `Spacing`.
  `ActiveSpacing` alone is not inductive: that a committed booking lies behind all
  active rows is decided earlier, when it is planned.  The invariant adds that a
  planned booking belongs to the holder of lock 910001 (so there is at most
  one), that its slot is at least an interval behind every active row, and that its
  id is still absent.  It also says that rows a dispatch run has claimed are still
  scheduled, which needs lock 910002: otherwise a commit could revive a finished
  row and its old slot.  Every step but those of a booking only ends active
  rows or keeps them with their slots (`OnlyEndsBookings`); `StepKinds` sorts the
  steps of `Next` into these.
- `FinalOutcomes`: `OutcomeIsFinal`, from the claims.
- `QueueImplementsCalendar`: `Spec => ImplementsCalendar`, the refinement:
  `CommitCreate` is `Book`, everything that only ends rows is `End` or a stutter.
- `SendsAreBounded` (`SendsInv`): a scheduled row no run has gone through has been sent
  by dead runs only; a run goes through it once.
- `DispatchedIsDelivered` (`DeliveryInv`): the message is there from the send on, so before
  the commit, and no worker settles a row a run has locked.
- `DoneForACause` (`CauseInv`): a message names the row of its own filter, or a PATCH sent
  it; ids of rows that are gone are not booked again, so this stays so.

**`CarProofs`** (`CarParsing` and `CarIngestion`).  `TypesAndLocks` comes first: who holds
the row lock is between taking and releasing it, so steps that write under the lock
exclude each other.  Each step then is one of five kinds - it leaves the row alone, drops
it, keeps the outcome of parses, records a failure or records a success - and
`AttemptsAreCounted`, `HistoryIsStoredOnce`, `VinFlagIsRight` and `ParseResultsAreKept`
follow from the kinds (`RowInv`).  `EnrichmentIsKept` follows from what `Updated` excludes,
once the row an import has prepared is known to be one (`IngestionInv`).

**`InventoryLedgerProofs`.**  `LedgerInv`: the sums held by a call that no commit has
overlapped are those of the stored rows (`FreshInv`), and stale totals are owed by a
call that will still write them (`TotalsInv`).  What a sum is does not matter, only of
which rows it was taken.  `NoOrphans` rests on the key lock an insert has on its inventory,
`DeletionsOnRecord` on the order of the two commits.

**`CarPricingProofs`.**  `OneAnswerCharges` (`FeeInv`): a replacement under way has seen every
row of the table that an answer brought, or overlaps the one that wrote it; a row changed by
hand is of no answer any more.  `PartsAddUp` (`PartsInv`): a call
that did not race has loaded the present `parts_cost`, and the value of the part it
changes; an import that did not race writes the costs that are there.  The sum is the
library's fold; that it changes by the value of one part needs
induction over finite sets, done by a smallest set for which it fails.
`SuggestedBidIsExact`: every writer of an amount but that of the actual bid computes the
suggested bid from what it writes, and an import writes no amount that has changed, or
races.  `StatusIsOnRecord` (`StatusInv`: changes off the record are
at most the calls that died, were refused, or were undone by an import (`Lost`), and those
about to record).

**`PartInvoicesProofs`.**  `UploadedFilesStay` (`FileInv`): the file is there before its row
is committed, and keys are made from the second, so only a collision takes it.
`RemovalsAreRecorded` (`DeletionInv`): an invoice belongs to one part for good, and the record
of its deletion precedes the deletion, also where its upload is recorded after that.
`StatusChangesChain` (`ChainInv`): the one call that changes a part has read the last
status on record.

**`FilterRelevanceProofs`.**  `ActiveCarsAreKept` needs the types, and that ids held by a
creation or a deletion are of rows that are there.  `FilteredCarsAreListed` and
`ListedCarsAreFiltered` hold at rest and say nothing of calls under way.  `ListInv` says for
each car that is not excused what each call knows of it: what it has read is still so
(`Knows`), what an import, an entry or a sweep has decided agrees with the filters or keeps
or archives the car (`RightlyDecided`), and between the commits of a patch the car awaits
what the new filter says
(`Awaits`, `Open`).  The proof splits a step on whether the call is about the car (`Near`).
If not, nothing about the car changes (`Frame`).  If it is, either another writer is about
the car as well and the step excuses it, or the call is alone (`FinishedAlone`) and has
put the car in line.

**`AccountsProofs`.**  `OneAccount` (`EmailInv`): stored addresses are in small letters, which
is why the unique index sees two spellings.  `RolesAreGranted` (`GrantInv`): what a call or
an invitation is about to give was granted when it began.  `AnAdminRemains` (`AdminInv`):
the administrator who demotes somebody is another one, and still is one.  `LogoutIsFinal`
(`SessionInv`): while no two calls on a browser's session have met, a refresh under way
has found it open.

**`DealerCenterLoginProofs`.**  `OneLoginServes` (`FlightInv`): while no session ends and no
login fails there are two phases.  Before the token, one request logs in and the others
wait or are new; after it, the event stays set and every call has the token issued, so
the site refuses none.

**Only model-checked.**  Liveness: `EveryJobSettles`, `EveryTaskEnds`, `ExpiredSettles`,
`ParseIsSent`, `WaitersServed`, as temporal reasoning under fairness with ENABLED is beyond
the provers that are installed.  And what TLC refutes (section 4) has no theorem, of course.

## 7. Not modelled

- Analytics, search, pagination, HTTP validation, the catalogue of makes and models:
  they read, or are constants.
- The daily audit mail: one process at a time appends to a file, mails it and
  removes it.  Its schedule, `crontab(hour=0)` without a minute
  (`core/celery_config.py:40`), sends it every minute of that hour.
- What scrapers extract from pages, and their browser steps: an answer, an error or
  silence is all their callers see.
- ROI rows are only added, and the newest one read; proxy tables are rows without rivals.
- Of the accounts: the profile PATCH, whose columns nothing reads, and the endpoints for
  e-mail change and password reset, which fail before they change anything.
- Comments, likes and bids by hand of a car: columns no other step branches on; of auto
  checks and likes only that they may refuse the deletion of a car.
- `POST /vehicles/update-car-info` (`routers/vehicle.py:935-1000`), which asks the parsers
  and may create anew a car that was deleted meanwhile.
- `save_vehicle_with_photos` on a known row: `get_vehicle_by_vin` expunges the row
  (`crud/vehicle.py:515`), so its changes are not written, although
  `tests/unit/crud/vehicle_test.py:480-520` expects them.  GET of an
  unknown VIN calls it without its argument `ivent` (`services/vehicle.py:80`) and fails.
- A lot whose model, year or mileage changes while it is listed.
- Files of auto checks: `delete_file` gets the last part of a report's URL
  (`crud/vehicle.py:226`) while reports lie under `auto_checks/{vin}/`
  (`tasks/task.py:604-611`), so nothing is ever deleted; no table can tell.
- Migrations, containers, proxies, settings: deployment.
