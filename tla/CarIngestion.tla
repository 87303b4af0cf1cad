----------------------------- MODULE CarIngestion ----------------------------
(***************************************************************************)
(* Where a row of table cars comes from, next to the jobs of CarParsing:   *)
(*   - bulk_save_vehicles (POST /vehicles/bulk), fed by the parsers        *)
(*     service every hour, reads the known row, computes a whole row in    *)
(*     memory and upserts it without having locked anything, in a          *)
(*     transaction of its own; the parse task is sent after the commits;   *)
(*   - upsert_vehicle (POST /vehicles/upsert), an administrator's entry of *)
(*     a car, which writes the columns it has changed.                     *)
(* Condition assessments and photos, the import's second and third         *)
(* transaction, have a step of their own and no content; they write no     *)
(* column of the row, but refer to it.                                     *)
(***************************************************************************)
EXTENDS CarParsing

CONSTANTS
  Importers,        \* bulk imports in progress
  Upserters,        \* POST /vehicles/upsert calls in progress
  Ivents,           \* values of the import's field ivent
  Dates,            \* bound: auction dates an import or an upsert may bring
  LotReasons,       \* bound: reasons an import or an upsert may find
  MaxImportErrors,  \* bound: imports that fail half way
  MaxUpserts        \* bound: administrator's entries

ASSUME IngestionBoundsAssumption ==
  /\ Ivents \subseteq {"update", "updated", "created"}
  /\ Dates \subseteq {"past", "future", "none"} /\ LotReasons \subseteq {"lasting"}
  /\ MaxImportErrors \in Nat /\ MaxUpserts \in Nat

VARIABLES
  manual,        \* column is_manually_upserted of the row
  import,        \* what each import is doing
  upsert,        \* what each administrator's call is doing
  importErrors, upserts

importVars == <<manual, import, upsert, importErrors, upserts>>
ingestionVars == <<vars, importVars>>

-----------------------------------------------------------------------------
NoImport == [pc |-> "idle", row |-> NoCar, manual |-> FALSE, to_parse |-> FALSE]
NoUpsert == [pc |-> "idle", loaded |-> NoCar, manual |-> FALSE, new |-> NoCar]

IngestionTypeOK ==
  /\ TypeOK
  /\ manual \in BOOLEAN
  /\ import \in [Importers -> [pc : {"idle", "writing", "details", "sending"},
                               row : Car \cup {NoCar}, manual : BOOLEAN,
                               to_parse : BOOLEAN]]
  /\ upsert \in [Upserters -> [pc : {"idle", "writing", "sending"},
                               loaded : Car \cup {NoCar}, manual : BOOLEAN,
                               new : Car \cup {NoCar}]]
  /\ importErrors \in 0..MaxImportErrors /\ upserts \in 0..MaxUpserts

\* Nothing is known of the lot yet.
IngestionInit ==
  /\ car = NoCar
  /\ NoJobs
  /\ manual = FALSE
  /\ import = [m \in Importers |-> NoImport]
  /\ upsert = [u \in Upserters |-> NoUpsert]
  /\ importErrors = 0 /\ upserts = 0

-----------------------------------------------------------------------------
(* POST /vehicles/bulk: bulk_save_vehicles                                 *)

\* Of the reasons, those of a lot are lasting: fuel, transmission, damage, and a bid
\* above the suggested one, which is not worded as update_car_bids words it.

\* An empty text is NULL, and build_row fills a NULL from the known row.
Judge(row, found) ==
  [row EXCEPT !.recommended = found = {},
              !.reasons = IF found = {} THEN @ ELSE found]

NeedsParse == /\ Present /\ car.relevance = "Active"
              /\ ~car.is_checked /\ car.attempts < 3

\* Mutant: only lots that are new or back on the market are parsed.
OnlyRelisted(ivent, matches) ==
  Present /\ car.relevance = "Archival" /\ ivent = "update" /\ matches

ToParse(ivent, matches) ==
  \/ NeedsParse
  \/ Present /\ car.relevance = "Archival" /\ ivent = "update" /\ matches

\* A known lot that is back: a filter decides.  attempts and is_checked only
\* count should the row have to be inserted again.
Relisted(row, matches) ==
  IF matches THEN [row EXCEPT !.relevance = "Active", !.attempts = 0,
                              !.is_checked = FALSE]
             ELSE [row EXCEPT !.relevance = "Irrelevant"]

KnownRow(ivent, date, matches, found) ==
  LET row == [car EXCEPT !.date = date, !.has_correct_vin = FALSE]
  IN  Judge(IF car.relevance = "Archival" /\ ivent = "update"
              THEN Relisted(row, matches) ELSE row, found)

\* The row, is_manually_upserted, and whether a task is to be sent.
Prepared(ivent, date, matches, found) ==
  IF ~Present
    THEN [row |-> NewRow(IF matches THEN "Active" ELSE "Irrelevant",
                         date, found),
          manual |-> FALSE, to_parse |-> matches]
  ELSE IF manual
    THEN [row |-> Judge([car EXCEPT !.date = "none"], IF car.priced THEN found ELSE {}),
          manual |-> TRUE, to_parse |-> FALSE]
  ELSE [row |-> KnownRow(ivent, date, matches, found),
        manual |-> FALSE, to_parse |-> ToParse(ivent, matches)]

ImportRead(m) ==
  /\ import[m].pc = "idle"
  /\ \E ivent \in Ivents, date \in Dates, matches \in BOOLEAN,
        found \in SUBSET LotReasons :
       LET new == Prepared(ivent, date, matches, found)
       IN  import' = [import EXCEPT ![m] =
             [pc |-> "writing", row |-> new.row, manual |-> new.manual,
              to_parse |-> new.to_parse]]
  /\ UNCHANGED <<vars, manual, upsert, importErrors, upserts>>

\* Mutant: nothing is excluded from ON CONFLICT DO UPDATE.
UpdateAll(row) == row

\* EXCLUDED_FROM_BULK_UPDATE
Updated(row) ==
  [row EXCEPT !.attempts = car.attempts, !.is_checked = car.is_checked,
              !.has_correct_vin = car.has_correct_vin,
              !.priced = car.priced]

\* INSERT ... ON CONFLICT (vin) DO UPDATE; it waits for the row, if locked.
ImportUpsert(m) ==
  /\ import[m].pc = "writing"
  /\ RowFree
  /\ car' = IF Present THEN Updated(import[m].row) ELSE import[m].row
  /\ manual' = import[m].manual
  /\ import' = [import EXCEPT ![m] =
       [NoImport EXCEPT !.pc = "details", !.to_parse = import[m].to_parse]]
  /\ UNCHANGED <<rowOwner, histories, autochecks, uploads, listing, task, bids,
                 feed, sweep, redeliveries, errors, outcomes, upsert,
                 importErrors, upserts>>

\* Condition assessments and photos follow in transactions of their own.  A lot
\* that has neither passes here whether or not its row is still there.
ImportDetails(m) ==
  /\ import[m].pc = "details"
  /\ import' = [import EXCEPT ![m].pc = "sending"]
  /\ UNCHANGED <<vars, manual, upsert, importErrors, upserts>>

\* A lot that has some refers to a row deleted in between: the foreign key waits
\* for the row lock and refuses; 500, and no task is sent.
ImportDetailsRefused(m) ==
  /\ import[m].pc = "details"
  /\ RowFree /\ ~Present
  /\ import' = [import EXCEPT ![m] = NoImport]
  /\ UNCHANGED <<vars, manual, upsert, importErrors, upserts>>

\* A message is as good as another one: which of the unused says nothing.
SendTask(t) ==
  /\ task[t].pc = "unused" /\ t = CHOOSE u \in Tasks : task[u].pc = "unused"
  /\ task' = [task EXCEPT ![t] = Waiting(0)]

ImportSend(m) ==
  /\ import[m].pc = "sending"
  /\ IF import[m].to_parse THEN \E t \in Tasks : SendTask(t)
                           ELSE UNCHANGED task
  /\ import' = [import EXCEPT ![m] = NoImport]
  /\ UNCHANGED <<tableVars, uploads, listing, bids, feed, sweep, redeliveries,
                 errors, outcomes, manual, upsert, importErrors, upserts>>

\* Lock timeout, database error, broker error or crash: committed rows stay.
ImportError(m) ==
  /\ import[m].pc # "idle"
  /\ importErrors < MaxImportErrors
  /\ importErrors' = importErrors + 1
  /\ import' = [import EXCEPT ![m] = NoImport]
  /\ UNCHANGED <<vars, manual, upsert, upserts>>

-----------------------------------------------------------------------------
(* POST /vehicles/upsert: upsert_vehicle                                   *)

\* Fuel, transmission and damage each take the recommendation away and add
\* themselves, once, to the reasons.
Ruled(row, found) == [row EXCEPT !.recommended = @ /\ found = {},
                                 !.reasons = @ \cup found]

\* A created row has the column default NOT_RECOMMENDED.
Entered(date, found) ==
  Ruled(IF Present
          THEN [car EXCEPT !.relevance = "Active", !.date = date,
                           !.is_checked = FALSE, !.attempts = 0,
                           !.recommended = TRUE, !.reasons = {}]
          ELSE [NewRow("Active", date, {}) EXCEPT !.recommended = FALSE],
        found)

UpsertRead(u) ==
  /\ upsert[u].pc = "idle"
  /\ upserts < MaxUpserts
  /\ upserts' = upserts + 1
  /\ \E date \in Dates, reasons \in SUBSET LotReasons :
       upsert' = [upsert EXCEPT ![u] =
         [pc |-> "writing", loaded |-> car,
          manual |-> Present /\ manual, new |-> Entered(date, reasons)]]
  /\ UNCHANGED <<vars, manual, import, importErrors>>

\* Only changed columns are written; the flag is one of them.
UpsertWrite(u) ==
  /\ upsert[u].pc = "writing"
  /\ RowFree
  /\ Present <=> upsert[u].loaded # NoCar
  /\ car' = IF Present THEN Changed(upsert[u].loaded, upsert[u].new)
                       ELSE upsert[u].new
  /\ manual' = (manual \/ ~upsert[u].manual)
  /\ upsert' = [upsert EXCEPT ![u] = [NoUpsert EXCEPT !.pc = "sending"]]
  /\ UNCHANGED <<rowOwner, histories, autochecks, uploads, listing, task, bids,
                 feed, sweep, redeliveries, errors, outcomes, import,
                 importErrors, upserts>>

\* The VIN has been inserted, or the loaded row deleted, in between.
UpsertRefused(u) ==
  /\ upsert[u].pc = "writing"
  /\ ~(Present <=> upsert[u].loaded # NoCar)
  /\ upsert' = [upsert EXCEPT ![u] = NoUpsert]
  /\ UNCHANGED <<vars, manual, import, importErrors, upserts>>

\* A send that fails is only logged.
UpsertSend(u) ==
  /\ upsert[u].pc = "sending"
  /\ (\E t \in Tasks : SendTask(t)) \/ UNCHANGED task
  /\ upsert' = [upsert EXCEPT ![u] = NoUpsert]
  /\ UNCHANGED <<tableVars, uploads, listing, bids, feed, sweep, redeliveries,
                 errors, outcomes, manual, import, importErrors, upserts>>

-----------------------------------------------------------------------------
Import(m) == \/ ImportRead(m) \/ ImportUpsert(m) \/ ImportDetails(m)
             \/ ImportDetailsRefused(m) \/ ImportSend(m) \/ ImportError(m)

Upsert(u) == UpsertRead(u) \/ UpsertWrite(u) \/ UpsertRefused(u)
               \/ UpsertSend(u)

IngestionNext == \/ Next /\ UNCHANGED importVars
                 \/ \E m \in Importers : Import(m)
                 \/ \E u \in Upserters : Upsert(u)

IngestionSpec == IngestionInit /\ [][IngestionNext]_ingestionVars

\* An import under way goes on.  That the feed lists the lot again is not assumed:
\* it is a feed of updates.
ImportFairness ==
  \A m \in Importers : /\ SF_ingestionVars(ImportUpsert(m))
                       /\ WF_ingestionVars(ImportDetails(m))
                       /\ SF_ingestionVars(ImportSend(m))

IngestionFairSpec == IngestionSpec /\ Fairness /\ ImportFairness

-----------------------------------------------------------------------------
(* Properties                                                              *)

Imported == \E m \in Importers : ImportUpsert(m)

\* However long ago an import has read the row, its write leaves alone what the
\* parse task owns: attempts, is_checked, has_correct_vin and the price
\* (EXCLUDED_FROM_BULK_UPDATE), and a history stored meanwhile.
EnrichmentKept ==
  [][Present /\ Imported =>
       /\ car'.attempts = car.attempts /\ car'.is_checked = car.is_checked
       /\ car'.has_correct_vin = car.has_correct_vin
       /\ car'.priced = car.priced /\ histories' = histories]_ingestionVars

Unparsed ==
  /\ NeedsParse /\ ~manual
  /\ \A t \in Tasks : task[t].pc \in {"unused", "ended"}
  /\ \E t \in Tasks : task[t].pc = "unused"

ListedAgain == \E m \in Importers : ImportRead(m)

\* A car that needs a parse and has no task, because the import died between
\* commit and send or because the task failed, gets one if the feed of updates
\* (src/parsers/tasks/tasks.py:46, 70) keeps listing the lot: by an import.
ParseIsSent ==
  ([]<><<ListedAgain>>_ingestionVars) => (Unparsed ~> ~Unparsed)

\* "manually upserted cars: only update safe minimal fields": the import does
\* not change the auction date an administrator has entered.
ManualDateKept ==
  [][Present /\ manual /\ Imported => car'.date = car.date]_ingestionVars

\* "Bulk updater must not overwrite parse-derived fields": a parser error among
\* the reasons is added and removed by the parse task only.
ParserReasonsKept ==
  [][Present /\ Imported =>
       ("parser error" \in car.reasons <=> "parser error" \in car'.reasons)
    ]_ingestionVars

=============================================================================
