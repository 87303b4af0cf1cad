--------------------------- MODULE FilterRelevance --------------------------
(***************************************************************************)
(* Which cars are on the active list: the filters, and the relevance of    *)
(* each car, which calls on filters, imports, manual entries, the feed of  *)
(* ended lots, the sweep of past ones and parse tasks all write.  Each     *)
(* caller has a condition of its own for "the filter matches the car".  A  *)
(* statement sees what is committed; an UPDATE or DELETE waits for a row   *)
(* another transaction has changed.                                        *)
(***************************************************************************)
EXTENDS Integers, FiniteSets

CONSTANTS
  Calls,      \* HTTP calls, and runs of the sweep, in progress at the same time
  FilterIds,  \* bound: ids of the table filters
  Forms,      \* what a filter may say: [model, from, low], None for what it leaves out
  Cars,       \* lots of the feed
  CarOf,      \* model, year and miles of each
  None,       \* SQL NULL
  MaxCalls,   \* bound: calls in all
  MaxCrashes  \* bound: calls that die between two commits

ASSUME FormsAssumption ==
  /\ \A f \in Forms : f.from \in Int \cup {None} /\ f.low \in Nat
  /\ \A c \in Cars : /\ CarOf[c].model # None /\ CarOf[c].year \in Int \cup {None}
                     /\ CarOf[c].miles \in Nat
  /\ None \notin Int
ASSUME NoneIsNoRow == None \notin Forms \cup FilterIds
ASSUME RelevanceBoundsAssumption == MaxCalls \in Nat /\ MaxCrashes \in Nat

VARIABLES
  filters,    \* table filters, None without a row
  relevance,  \* of each car; "none" without a row
  parsing,    \* parse task of each car
  call,       \* what each call has read and is about to write
  excused,    \* cars whose relevance a known case has put out of line
  calls, crashes

vars == <<filters, relevance, parsing, call, excused, calls, crashes>>

-----------------------------------------------------------------------------
(* A form stands for a filter of one make.  One lower bound on the year    *)
(* stands for those on the year and the upper one on the mileage; low is    *)
(* odometer_min, 0 where it is left out.  The facts of a lot do not change. *)

Present(c) == relevance[c] # "none"
AtLeast(c, from) == CarOf[c].year # None /\ CarOf[c].year >= from
OfModel(f, c) == f.model = None \/ CarOf[c].model = f.model
Driven(f, c) == CarOf[c].miles >= f.low

\* create_filter and the kickoff: a missing bound is replaced by an extreme one,
\* which a car without a year does not meet.
Matches(f, c) ==
  (f.from = None \/ AtLeast(c, f.from)) /\ CarOf[c].year # None /\ OfModel(f, c) /\ Driven(f, c)

\* build_car_filter_query: a missing bound is left out.
PatchMatches(f, c) ==
  (f.from = None \/ AtLeast(c, f.from)) /\ OfModel(f, c) /\ Driven(f, c)

\* delete_filter: a filter without a model is compared with IS NULL.
DeleteMatches(f, c) ==
  /\ f.from = None \/ AtLeast(c, f.from)
  /\ CarOf[c].year # None /\ CarOf[c].model = f.model /\ Driven(f, c)

\* match_filter of the import does not look at odometer_min.
Accepts(f, c) == f.from # None /\ AtLeast(c, f.from) /\ OfModel(f, c)

\* It compares with a missing bound, or year: TypeError.
Raises(f, c) == OfModel(f, c) /\ (f.from = None \/ CarOf[c].year = None)

Stored == {i \in FilterIds : filters[i] # None}
Filtered(c) == \E i \in Stored : Matches(filters[i], c)
Having(r, cars) == {c \in cars : relevance[c] = r}

OfFilter == {"creating", "patching", "patched", "reading", "deleting"}
ByVin == {"importing", "inserting", "refreshing"}  \* the others go by the ids of rows

Idle == [pc |-> "idle", filter |-> None, form |-> None, cars |-> {}, active |-> {}]

TypeOK ==
  /\ filters \in [FilterIds -> Forms \cup {None}]
  /\ relevance \in [Cars -> {"none", "irrelevant", "active", "archival"}]
  /\ parsing \in [Cars -> {"none", "running", "done"}]
  /\ \A k \in {call[n] : n \in Calls} :
       /\ k.pc \in {"idle", "updating", "sweeping"} \cup OfFilter \cup ByVin
       /\ k.cars \subseteq Cars /\ k.active \subseteq Cars
       /\ k.pc \in {"creating", "deleting"} => \A c \in k.cars : Present(c)
  /\ excused \subseteq Cars
  /\ calls \in 0 .. MaxCalls /\ crashes \in 0 .. MaxCrashes

Init ==
  /\ filters = [i \in FilterIds |-> None]
  /\ relevance = [c \in Cars |-> "none"]
  /\ parsing = [c \in Cars |-> "none"]
  /\ call = [n \in Calls |-> Idle]
  /\ excused = {} /\ calls = 0 /\ crashes = 0

-----------------------------------------------------------------------------
Enter(n, k) ==
  /\ call[n].pc = "idle" /\ calls < MaxCalls
  /\ calls' = calls + 1
  /\ call' = [call EXCEPT ![n] = k]

\* Rows of cars that a transaction other than n's holds.
Locked(n) == UNION {IF call[m].pc \in {"creating", "deleting"} THEN call[m].cars ELSE {}
                    : m \in Calls \ {n}}

\* Mutant: an id read is taken for a row that is still there.
IdsKept(k, gone) == k

\* An id is not given again: a row that is gone is in no list of ids.
WithoutRows(k, gone) ==
  IF k.pc \in ByVin THEN k
  ELSE [k EXCEPT !.cars = @ \ gone, !.active = @ \ gone]

\* The call n ends.
Finish(n, gone) ==
  call' = [m \in Calls |-> IF m = n THEN Idle ELSE WithoutRows(call[m], gone)]

Become(n, k) == call' = [call EXCEPT ![n] = k]

\* Cars on which the call m and a change of relevance meet.
Concerned(m) ==
  LET k == call[m]
      Of(f) == {c \in Cars : f # None /\ PatchMatches(f, c)}
  IN IF k.pc \in OfFilter THEN k.cars \cup Of(k.form) \cup Of(filters[k.filter]) ELSE k.cars

\* Cars that another call, or a parse task, was about when n changed them.
Contended(n) ==
  Concerned(n) \cap ((UNION {Concerned(m) : m \in Calls \ {n}})
                     \cup {c \in Cars : parsing[c] = "running"})

\* Cars two filters match: losing one takes them off the list all the same.
Shared(i) == {c \in Cars : \E j \in Stored \ {i} : Matches(filters[j], c)}

SetRelevance(active, irrelevant, gone) ==
  relevance' = [c \in Cars |-> CASE c \in gone -> "none" [] c \in active -> "active"
                                 [] c \in irrelevant -> "irrelevant"
                                 [] OTHER -> relevance[c]]

\* The cars become what the call k has in mind.
Store(k, cars) ==
  relevance' = [c \in Cars |-> IF c \in cars THEN k.form[c] ELSE relevance[c]]

-----------------------------------------------------------------------------
(* POST /filters: the matching cars are made active, a kickoff is booked    *)
(* and the filter appears, in one transaction.                              *)

\* Mutant: the condition of delete_filter, which knows no filter for all models.
ActivatedOfModel(f) == {c \in Cars : Present(c) /\ DeleteMatches(f, c)}

Activated(f) == {c \in Cars : Present(c) /\ Matches(f, c)}

CreateFilter(n) == \E i \in FilterIds \ Stored, f \in Forms :
  LET matched == Activated(f)
  IN /\ \A m \in Calls : call[m].filter # i
     /\ matched \cap Locked(n) = {}
     /\ Enter(n, [Idle EXCEPT !.pc = "creating", !.filter = i, !.form = f,
                              !.cars = matched])
     /\ UNCHANGED <<filters, relevance, parsing, excused, crashes>>

CommitFilter(n) ==
  LET k == call[n]
  IN /\ k.pc = "creating"
     /\ filters' = [filters EXCEPT ![k.filter] = k.form]
     /\ SetRelevance(k.cars, {}, {})
     /\ excused' = (excused \ k.cars) \cup Contended(n)
     /\ Finish(n, {})
     /\ UNCHANGED <<parsing, calls, crashes>>

-----------------------------------------------------------------------------
(* PATCH /filters/{id}: two transactions.  is_kickoff_busy() is never true: *)
(* the key it asks for is never set.                                        *)

PatchFilter(n) == \E i \in Stored, f \in Forms :
  /\ Enter(n, [Idle EXCEPT !.pc = "patching", !.filter = i, !.form = f,
       !.cars = {c \in Cars : Present(c) /\ PatchMatches(filters[i], c)}])
  /\ UNCHANGED <<filters, relevance, parsing, excused, crashes>>

CommitPatch(n) ==
  LET k == call[n]
  IN /\ k.pc = "patching" /\ k.filter \in Stored
     /\ filters' = [filters EXCEPT ![k.filter] = k.form]
     /\ excused' = excused \cup Contended(n)
     /\ Become(n, [k EXCEPT !.pc = "patched"])
     /\ UNCHANGED <<relevance, parsing, calls, crashes>>

\* Mutant: archived or not, a car that no longer matches is deleted.
GoneByFilter(cars) == {c \in cars : relevance[c] \in {"archival", "active"}}

\* The DELETE names the relevance besides the ids.
GoneFromArchive(cars) == Having("archival", cars)

\* Mutant: the cars that match no more are left as they are.
LosesNothing(k, matched) == {}

Loses(k, matched) == k.cars \ matched

ApplyPatch(n) ==
  LET k == call[n]
      matched == {c \in Cars : Present(c) /\ PatchMatches(filters[k.filter], c)}
      lost == Loses(k, matched)
      gone == GoneFromArchive(lost)
  IN /\ k.pc = "patched" /\ k.filter \in Stored
     /\ ((matched \ k.cars) \cup lost) \cap Locked(n) = {}
     /\ SetRelevance(Having("irrelevant", matched \ k.cars), Having("active", lost), gone)
     /\ excused' = excused \cup Contended(n) \cup (lost \cap Shared(k.filter))
                   \cup {c \in matched : ~Matches(filters[k.filter], c)}
     /\ parsing' = [c \in Cars |-> IF c \in gone THEN "none" ELSE parsing[c]]
     /\ Finish(n, gone)
     /\ UNCHANGED <<filters, calls, crashes>>

\* Auto checks and likes refer to cars without ON DELETE: a foreign key refuses the
\* deletion, and the second transaction is rolled back.
ApplyRefused(n) ==
  LET k == call[n]
  IN /\ k.pc = "patched" /\ k.filter \in Stored
     /\ GoneFromArchive({c \in k.cars : ~PatchMatches(filters[k.filter], c)}) # {}
     /\ excused' = excused \cup Concerned(n)
     /\ Finish(n, {})
     /\ UNCHANGED <<filters, relevance, parsing, calls, crashes>>

\* The filter was deleted meanwhile: the UPDATE or the refresh finds no row.
PatchRefused(n) ==
  /\ call[n].pc \in {"patching", "patched"} /\ call[n].filter \notin Stored
  /\ excused' = excused \cup Contended(n) \cup call[n].cars
  /\ Finish(n, {})
  /\ UNCHANGED <<filters, relevance, parsing, calls, crashes>>

-----------------------------------------------------------------------------
(* DELETE /filters/{id}: archived cars by id, then active cars, then the    *)
(* filter, in one transaction.                                              *)

ReadArchived(n) == \E i \in Stored :
  LET f == filters[i]
  IN /\ Enter(n, [Idle EXCEPT !.pc = "reading", !.filter = i, !.form = f,
          !.cars = {c \in Having("archival", Cars) : DeleteMatches(f, c)}])
     /\ UNCHANGED <<filters, relevance, parsing, excused, crashes>>

DeleteArchived(n) ==
  LET k == call[n]
  IN /\ k.pc = "reading" /\ k.cars \cap Locked(n) = {}
     /\ Become(n, [k EXCEPT !.pc = "deleting",
          !.active = {c \in Having("active", Cars) \ k.cars : DeleteMatches(k.form, c)}])
     /\ UNCHANGED <<filters, relevance, parsing, excused, calls, crashes>>

\* The foreign keys again: nothing is changed.
DeleteRefused(n) ==
  /\ call[n].pc = "reading" /\ call[n].cars # {}
  /\ Finish(n, {})
  /\ UNCHANGED <<filters, relevance, parsing, excused, calls, crashes>>

DeleteFilter(n) ==
  LET k == call[n]
  IN /\ k.pc = "deleting" /\ k.active \cap Locked(n) = {}
     /\ filters' = [filters EXCEPT ![k.filter] = None]
     /\ SetRelevance({}, k.active, k.cars)
     /\ excused' = excused \cup Contended(n) \cup (k.active \cap Shared(k.filter))
                   \cup {c \in Cars : k.form.model = None /\ Matches(k.form, c)}
     /\ parsing' = [c \in Cars |-> IF c \in k.cars THEN "none" ELSE parsing[c]]
     /\ Finish(n, k.cars)
     /\ UNCHANGED <<calls, crashes>>

-----------------------------------------------------------------------------
(* POST /vehicles/bulk: what new lots become, and archived ones an update    *)
(* lists again unless they were entered by hand, is decided from the filters *)
(* as they are read; the other lots keep the relevance read.  One lot that   *)
(* cannot be compared refuses all of them.                                   *)

Accepted(c) == \E i \in Stored : Accepts(filters[i], c)

Undecidable(c) == \E i \in Stored : Raises(filters[i], c)

\* A filter that matches may come before one that cannot be compared.  Of the cars,
\* active holds those that go on the list though no filter matches them.
ReadFilters(n) == \E lots \in SUBSET Cars \ {{}} : \E again \in SUBSET Having("archival", lots) :
  LET judged == Having("none", lots) \cup again
      Decided(c) == IF c \notin judged THEN relevance[c]
                    ELSE IF Accepted(c) THEN "active" ELSE "irrelevant"
  IN /\ \A c \in judged : Accepted(c) \/ ~Undecidable(c)
     /\ Enter(n, [Idle EXCEPT !.pc = "importing", !.cars = lots,
                              !.form = [c \in lots |-> Decided(c)],
                              !.active = {c \in judged : Accepted(c) /\ ~Filtered(c)}])
     /\ UNCHANGED <<filters, relevance, parsing, excused, crashes>>

ImportRefused(n) ==
  /\ call[n].pc = "idle" /\ calls < MaxCalls
  /\ \E c \in Cars : relevance[c] \in {"none", "archival"} /\ Undecidable(c)
  /\ calls' = calls + 1
  /\ UNCHANGED <<filters, relevance, parsing, call, excused, crashes>>

\* Rows written meanwhile are overwritten, rows deleted meanwhile are inserted.  A parse
\* task follows for active cars that were unparsed when read; it counts from here.
StoreLots(n) ==
  LET k == call[n]
  IN /\ k.pc = "importing" /\ k.cars \cap Locked(n) = {}
     /\ Store(k, k.cars)
     /\ \E due \in SUBSET {c \in k.cars : k.form[c] = "active"} :
          parsing' = [c \in Cars |-> IF c \in due THEN "running" ELSE parsing[c]]
     /\ excused' = excused \cup Contended(n) \cup k.active
     /\ Finish(n, {})
     /\ UNCHANGED <<filters, calls, crashes>>

-----------------------------------------------------------------------------
(* POST /vehicles/upsert makes a car active, whatever the filters say.  Of a *)
(* row that is there only the columns that change are written.               *)

UpsertRead(n) == \E c \in Cars :
  /\ Enter(n, [Idle EXCEPT
       !.pc = IF Present(c) THEN "updating" ELSE "inserting", !.cars = {c},
       !.form = [d \in {c} |-> IF relevance[c] = "active" THEN "kept" ELSE "active"],
       !.active = {d \in {c} : ~Filtered(d)}])
  /\ UNCHANGED <<filters, relevance, parsing, excused, crashes>>

\* A parse task follows in any case.
UpsertWrite(n) ==
  LET k == call[n]
  IN /\ k.pc \in {"updating", "inserting"} /\ k.cars # {} /\ k.cars \cap Locked(n) = {}
     /\ k.pc = "inserting" => \A c \in k.cars : ~Present(c)
     /\ Store(k, {c \in k.cars : k.form[c] # "kept"})
     /\ parsing' = [c \in Cars |-> IF c \in k.cars THEN "running" ELSE parsing[c]]
     /\ excused' = excused \cup Contended(n) \cup k.active
     /\ Finish(n, {})
     /\ UNCHANGED <<filters, calls, crashes>>

\* The row read is gone, or another call has inserted the VIN.
UpsertRefused(n) ==
  /\ \/ call[n].pc = "updating" /\ call[n].cars = {}
     \/ call[n].pc = "inserting" /\ \E c \in call[n].cars : Present(c)
  /\ Finish(n, {})
  /\ UNCHANGED <<filters, relevance, parsing, excused, calls, crashes>>

-----------------------------------------------------------------------------
(* The sweep of cars whose auction is past, update_expired_auction_cars:     *)
(* irrelevant ones are deleted by their ids, with what refers to them; of    *)
(* each active one, by its VIN, the parser is asked what has become of it.   *)

SweepRead(n) == \E cars \in SUBSET Having("irrelevant", Cars) \ {{}} :
  /\ Enter(n, [Idle EXCEPT !.pc = "sweeping", !.cars = cars])
  /\ UNCHANGED <<filters, relevance, parsing, excused, crashes>>

SweepDelete(n) ==
  LET k == call[n]
  IN /\ k.pc = "sweeping" /\ k.cars \cap Locked(n) = {}
     /\ SetRelevance({}, {}, k.cars)
     /\ excused' = excused \cup Contended(n)
     /\ parsing' = [c \in Cars |-> IF c \in k.cars THEN "none" ELSE parsing[c]]
     /\ Finish(n, k.cars)
     /\ UNCHANGED <<filters, calls, crashes>>

\* Unknown to the parser or still past, the car is archived; else it is made active.
RefreshRead(n) == \E c \in Having("active", Cars), answer \in {"active", "archival"} :
  /\ Enter(n, [Idle EXCEPT !.pc = "refreshing", !.cars = {c},
                           !.form = [d \in {c} |-> answer]])
  /\ UNCHANGED <<filters, relevance, parsing, excused, crashes>>

Refresh(n) ==
  LET k == call[n]
  IN /\ k.pc = "refreshing" /\ k.cars \cap Locked(n) = {}
     /\ Store(k, {c \in k.cars : Present(c)})
     /\ excused' = excused \cup Contended(n)
     /\ Finish(n, {})
     /\ UNCHANGED <<filters, parsing, calls, crashes>>

\* A row referred to anew since, or no answer.
SweepFails(n) ==
  /\ call[n].pc \in {"sweeping", "refreshing"}
  /\ Finish(n, {})
  /\ UNCHANGED <<filters, relevance, parsing, excused, calls, crashes>>

-----------------------------------------------------------------------------
(* The feed of ended lots, update_cars_relevance: rows others hold are left *)
(* out, rows taken are locked until the commit.                             *)

EndLot(c) ==
  /\ relevance[c] \in {"irrelevant", "active"}
  /\ \A n \in Calls : call[n].pc \in {"creating", "deleting"} => c \notin call[n].cars
  /\ IF relevance[c] = "active"
       THEN /\ relevance' = [relevance EXCEPT ![c] = "archival"]
            /\ UNCHANGED <<call, parsing>>
       ELSE /\ relevance' = [relevance EXCEPT ![c] = "none"]
            /\ call' = [m \in Calls |-> WithoutRows(call[m], {c})]
            /\ parsing' = [parsing EXCEPT ![c] = "none"]
  /\ UNCHANGED <<filters, excused, calls, crashes>>

-----------------------------------------------------------------------------
\* A kickoff starts parse tasks for the cars of its filter that have none yet.
Kickoff(i) ==
  LET due == {c \in Cars : Present(c) /\ parsing[c] = "none" /\ Matches(filters[i], c)}
  IN /\ i \in Stored /\ due # {}
     /\ parsing' = [c \in Cars |-> IF c \in due THEN "running" ELSE parsing[c]]
     /\ UNCHANGED <<filters, relevance, call, excused, calls, crashes>>

\* parse_and_update_car makes the car active, whatever it has become meanwhile;
\* NOWAIT on the row.  Another task for the car may be under way.
ParseDone(c) == \E more \in {"running", "done"} :
  /\ parsing[c] = "running" /\ Present(c)
  /\ \A n \in Calls : call[n].pc \in {"creating", "deleting"} => c \notin call[n].cars
  /\ relevance' = [relevance EXCEPT ![c] = "active"]
  /\ parsing' = [parsing EXCEPT ![c] = more]
  /\ excused' = excused \cup ({c} \cap UNION {Concerned(n) : n \in Calls})
  /\ UNCHANGED <<filters, call, calls, crashes>>

\* Before the third attempt a kickoff starts another.
ParseFails(c) == \E left \in {"none", "done"} :
  /\ parsing[c] = "running"
  /\ parsing' = [parsing EXCEPT ![c] = left]
  /\ UNCHANGED <<filters, relevance, call, excused, calls, crashes>>

\* A call dies; of a patch the filter may be committed, and the cars left behind.
Crash(n) ==
  /\ call[n].pc # "idle" /\ crashes < MaxCrashes
  /\ crashes' = crashes + 1
  /\ excused' = IF call[n].pc = "patched" THEN excused \cup Concerned(n) ELSE excused
  /\ Finish(n, {})
  /\ UNCHANGED <<filters, relevance, parsing, calls>>

Next ==
  \/ \E n \in Calls :
       \/ CreateFilter(n) \/ CommitFilter(n)
       \/ PatchFilter(n) \/ CommitPatch(n) \/ ApplyPatch(n) \/ ApplyRefused(n) \/ PatchRefused(n)
       \/ ReadArchived(n) \/ DeleteArchived(n) \/ DeleteRefused(n) \/ DeleteFilter(n)
       \/ ReadFilters(n) \/ ImportRefused(n) \/ StoreLots(n)
       \/ UpsertRead(n) \/ UpsertWrite(n) \/ UpsertRefused(n)
       \/ SweepRead(n) \/ SweepDelete(n) \/ RefreshRead(n) \/ Refresh(n) \/ SweepFails(n)
       \/ Crash(n)
  \/ \E c \in Cars : EndLot(c) \/ ParseDone(c) \/ ParseFails(c)
  \/ \E i \in FilterIds : Kickoff(i)

Spec == Init /\ [][Next]_vars

-----------------------------------------------------------------------------
(* Properties.                                                              *)

AtRest == \A n \in Calls : call[n].pc = "idle"

\* A car a filter matches is not set aside as irrelevant, through creations,
\* patches, deletions, imports, manual entries and sweeps, unless a second filter that
\* matched it was deleted or patched (admin.py:255-280, 335-348), two writers met on it,
\* a patch died or was refused between its commits, or the filter was patched without
\* a bound that the car lacks.
FilteredIsListed ==
  AtRest => \A c \in Cars \ excused : Filtered(c) => relevance[c] # "irrelevant"

\* A car on the active list is matched by a filter, with the same exceptions, that of
\* a deleted filter without a model (admin.py:320), and that of what goes on the list
\* unasked: a lot below odometer_min (crud/vehicle.py:1187-1196) and a car entered by
\* hand (crud/vehicle.py:1821, 1877).
ListedIsFiltered ==
  AtRest => \A c \in Cars \ excused : relevance[c] = "active" => Filtered(c)

\* An active car is deleted only by its id and by one who has read the id while the
\* car was not active: delete_filter, of archived cars (admin.py:327-333), and the
\* sweep, of irrelevant ones (task.py:1290-1375).  The patch and the feed check the
\* relevance in the statement, or the transaction, that deletes.
ActiveKept ==
  [][\A c \in Cars : relevance[c] = "active" /\ relevance'[c] = "none" =>
       \E n \in Calls : call[n].pc \in {"deleting", "sweeping"} /\ c \in call[n].cars]_vars

\* Lots handed in by the feed are stored: a filter may leave its bounds out
\* (schemas/admin.py:8-13), and create_filter takes that for no bound.
LotsStored == [][\A n \in Calls : ~ImportRefused(n)]_vars
=============================================================================
