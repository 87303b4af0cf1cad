------------------------ MODULE FilterRelevanceProofs -----------------------
(***************************************************************************)
(* Proofs about FilterRelevance for every set of calls, filters, forms and *)
(* cars and every bound.                                                   *)
(***************************************************************************)
EXTENDS FilterRelevance, TLAPS

-----------------------------------------------------------------------------
(* Types.                                                                   *)

Kinds == {"idle", "updating", "sweeping"} \cup OfFilter \cup ByVin

\* What a row may say.
Rows == {"irrelevant", "active", "archival"}

\* An import, or an entry, keeps what it has decided for each lot.
Decisions == Rows \cup {"kept"}
Decides == ByVin \cup {"updating"}
AnyForm == Forms \cup {None} \cup UNION {[s -> Decisions] : s \in SUBSET Cars}

CallRecord ==
  [pc : Kinds, filter : FilterIds \cup {None}, form : AnyForm,
   cars : SUBSET Cars, active : SUBSET Cars]

\* A call by itself.
WellFormed(k) ==
  /\ k \in CallRecord
  /\ k.pc \notin OfFilter => k.filter = None
  /\ k.pc \in OfFilter => k.filter \in FilterIds /\ k.form \in Forms
  /\ k.pc \in Decides => \A c \in k.cars : k.form[c] \in Decisions
  /\ k.pc \in {"importing", "refreshing"} => \A c \in k.cars : k.form[c] # "kept"
  /\ k.pc \in {"updating", "inserting"} => \A c \in k.cars : k.form[c] \in {"active", "kept"}
  /\ k.pc = "creating" => \A c \in k.cars : Matches(k.form, c)
  /\ k.pc = "deleting" =>
       k.cars \cap k.active = {} /\ \A c \in k.active : DeleteMatches(k.form, c)
  /\ k.active # {} => k.pc \in {"deleting", "importing", "updating", "inserting"}

\* Ids stand for rows.
RowsThere(k, rel) ==
  k.pc \notin ByVin => \A c \in k.cars \cup k.active : rel[c] # "none"

\* The id of a filter that is being created is nobody else's.
OwnId(n, cl, fs) ==
  cl[n].pc = "creating" =>
    fs[cl[n].filter] = None /\ \A m \in Calls \ {n} : cl[m].filter # cl[n].filter

AreCalls(cl) == cl = [m \in Calls |-> cl[m]]

CallsSound(cl, rel, fs) ==
  /\ AreCalls(cl)
  /\ \A m \in Calls : WellFormed(cl[m]) /\ RowsThere(cl[m], rel) /\ OwnId(m, cl, fs)

\* The variables without the calls.
Tables ==
  /\ filters \in [FilterIds -> Forms \cup {None}]
  /\ relevance \in [Cars -> Rows \cup {"none"}]
  /\ parsing \in [Cars -> {"none", "running", "done"}]
  /\ excused \subseteq Cars
  /\ calls \in 0 .. MaxCalls /\ crashes \in 0 .. MaxCrashes

Shape == Tables /\ CallsSound(call, relevance, filters)

\* This is more than the type invariant.
LEMMA ShapeTypes == Shape => TypeOK
<1> SUFFICES ASSUME Shape PROVE TypeOK
  OBVIOUS
<1>1. \A n \in Calls :
        /\ call[n].pc \in Kinds /\ call[n].cars \subseteq Cars /\ call[n].active \subseteq Cars
        /\ call[n].pc \notin ByVin => \A c \in call[n].cars : Present(c)
  BY DEF Shape, CallsSound, WellFormed, CallRecord, RowsThere, Present
<1>2. Tables
  BY DEF Shape
<1>3. QED
  BY <1>1, <1>2 DEF Tables, TypeOK, Rows, Kinds, ByVin

\* Fields of the calls as they are entered.
LEMMA IdleSound == WellFormed(Idle) /\ Idle.pc = "idle" /\ Idle.filter = None
                   /\ Idle.cars = {} /\ Idle.active = {}
BY DEF Idle, WellFormed, CallRecord, Kinds, AnyForm, OfFilter, ByVin, Decides

\* What is left of a call when rows are gone.
LEMMA ThinnedCall ==
  ASSUME NEW k, WellFormed(k), NEW gone
  PROVE  /\ WellFormed(WithoutRows(k, gone))
         /\ WithoutRows(k, gone).pc = k.pc /\ WithoutRows(k, gone).filter = k.filter
         /\ WithoutRows(k, gone).form = k.form
         /\ WithoutRows(k, gone).cars \subseteq k.cars
         /\ WithoutRows(k, gone).active \subseteq k.active
         /\ k.pc \notin ByVin =>
              /\ WithoutRows(k, gone).cars = k.cars \ gone
              /\ WithoutRows(k, gone).active = k.active \ gone
<1>1. CASE k.pc \in ByVin
  BY <1>1 DEF WithoutRows, WellFormed
<1>2. CASE k.pc \notin ByVin
  <2> DEFINE d == WithoutRows(k, gone)
  <2>1. d = [k EXCEPT !.cars = k.cars \ gone, !.active = k.active \ gone]
    BY <1>2 DEF WithoutRows, WellFormed, CallRecord
  <2>2. /\ d \in CallRecord /\ d.pc = k.pc /\ d.filter = k.filter /\ d.form = k.form
        /\ d.cars = k.cars \ gone /\ d.active = k.active \ gone
    BY <2>1 DEF WellFormed, CallRecord
  <2> HIDE DEF d
  <2>3. WellFormed(d)
    BY <1>2, <2>2 DEF WellFormed
  <2>4. QED
    BY <1>2, <2>2, <2>3 DEF d
<1>3. QED
  BY <1>1, <1>2

\* A call has ended, or has lost rows that are gone, and its filter is as it was.
Thinned(k, k2, gone, fs, fs2) ==
  \/ k2 = Idle
  \/ /\ k2 = WithoutRows(k, gone)
     /\ k.pc = "creating" => fs2[k.filter] = fs[k.filter]

\* Calls end, or lose rows that are gone; other rows stay.
LEMMA ThinnedCalls ==
  ASSUME NEW cl, NEW rel, NEW fs, CallsSound(cl, rel, fs), NEW gone,
         NEW cl2, NEW rel2, NEW fs2, AreCalls(cl2),
         \A m \in Calls : Thinned(cl[m], cl2[m], gone, fs, fs2),
         \A c \in Cars \ gone : rel[c] # "none" => rel2[c] # "none"
  PROVE  CallsSound(cl2, rel2, fs2)
<1>1. ASSUME NEW m \in Calls
      PROVE  /\ WellFormed(cl2[m]) /\ RowsThere(cl2[m], rel2)
             /\ cl2[m].filter \in {cl[m].filter, None}
             /\ cl2[m].pc = "creating" =>
                  /\ cl2[m].filter = cl[m].filter /\ cl[m].pc = "creating"
                  /\ fs2[cl[m].filter] = fs[cl[m].filter]
  <2>1. CASE cl2[m] = Idle
    BY <2>1, IdleSound DEF RowsThere
  <2>2. CASE cl2[m] # Idle
    <3>1. WellFormed(cl[m]) /\ RowsThere(cl[m], rel)
      BY DEF CallsSound
    <3>2. cl2[m] = WithoutRows(cl[m], gone)
      BY <2>2 DEF Thinned
    <3>3. RowsThere(cl2[m], rel2)
      BY <3>1, <3>2, ThinnedCall DEF RowsThere, WellFormed, CallRecord
    <3>4. QED
      BY <2>2, <3>1, <3>2, <3>3, ThinnedCall DEF Thinned
  <2>3. QED
    BY <2>1, <2>2
<1>2. ASSUME NEW m \in Calls PROVE OwnId(m, cl2, fs2)
  <2> SUFFICES ASSUME cl2[m].pc = "creating"
               PROVE  /\ fs2[cl2[m].filter] = None
                      /\ \A m2 \in Calls \ {m} : cl2[m2].filter # cl2[m].filter
    BY DEF OwnId
  <2>1. /\ cl2[m].filter = cl[m].filter /\ cl[m].pc = "creating"
        /\ fs2[cl[m].filter] = fs[cl[m].filter]
    BY <1>1
  <2>2. OwnId(m, cl, fs) /\ cl[m].filter \in FilterIds
    BY <2>1 DEF CallsSound, WellFormed, OfFilter
  <2>3. fs2[cl2[m].filter] = None
    BY <2>1, <2>2 DEF OwnId
  <2>4. \A m2 \in Calls \ {m} : cl2[m2].filter # cl2[m].filter
    BY <1>1, <2>1, <2>2, NoneIsNoRow DEF OwnId
  <2>5. QED
    BY <2>3, <2>4
<1>3. QED
  BY <1>1, <1>2 DEF CallsSound

\* One call is replaced.
LEMMA ReplacedCall ==
  ASSUME NEW cl, NEW rel, NEW fs, CallsSound(cl, rel, fs), NEW n \in Calls,
         NEW d, WellFormed(d), RowsThere(d, rel),
         \A m \in Calls \ {n} : cl[m].pc = "creating" => d.filter # cl[m].filter,
         NEW fs2, \A m \in Calls \ {n} :
                    cl[m].pc = "creating" => fs2[cl[m].filter] = fs[cl[m].filter],
         d.pc = "creating" =>
           fs2[d.filter] = None /\ \A m \in Calls \ {n} : cl[m].filter # d.filter
  PROVE  CallsSound([cl EXCEPT ![n] = d], rel, fs2)
<1> DEFINE cl2 == [cl EXCEPT ![n] = d]
<1>1. AreCalls(cl2) /\ cl2[n] = d /\ \A m \in Calls \ {n} : cl2[m] = cl[m]
  BY DEF CallsSound, AreCalls
<1> HIDE DEF cl2
<1>2. ASSUME NEW m \in Calls PROVE WellFormed(cl2[m]) /\ RowsThere(cl2[m], rel)
  BY <1>1 DEF CallsSound
<1>3. ASSUME NEW m \in Calls PROVE OwnId(m, cl2, fs2)
  <2>1. CASE m = n
    BY <1>1, <2>1 DEF OwnId
  <2>2. CASE m # n
    <3>1. OwnId(m, cl, fs)
      BY DEF CallsSound
    <3>2. QED
      BY <1>1, <2>2, <3>1 DEF OwnId
  <2>3. QED
    BY <2>1, <2>2
<1>4. QED
  BY <1>1, <1>2, <1>3 DEF CallsSound, cl2

-----------------------------------------------------------------------------
(* Types: the steps.                                                        *)

\* Whom a change concerns.
LEMMA ConcernedAreCars ==
  ASSUME Shape, NEW n \in Calls
  PROVE  Concerned(n) \subseteq Cars /\ Contended(n) \subseteq Cars
<1>1. Concerned(n) \subseteq Cars
  <2>1. call[n].cars \subseteq Cars
    BY DEF Shape, CallsSound, WellFormed, CallRecord
  <2>2. QED
    BY <2>1 DEF Concerned
<1>2. QED
  BY <1>1 DEF Contended

\* What SetRelevance writes.
LEMMA RelevanceSet ==
  ASSUME Shape, NEW active, NEW irrelevant, NEW gone,
         active \cap irrelevant = {}, active \cap gone = {}, irrelevant \cap gone = {},
         SetRelevance(active, irrelevant, gone)
  PROVE  /\ relevance' \in [Cars -> Rows \cup {"none"}]
         /\ \A c \in Cars :
              /\ c \in gone => relevance'[c] = "none"
              /\ c \notin gone /\ c \in active => relevance'[c] = "active"
              /\ c \notin gone /\ c \notin active /\ c \in irrelevant =>
                   relevance'[c] = "irrelevant"
              /\ c \notin gone /\ c \notin active /\ c \notin irrelevant =>
                   relevance'[c] = relevance[c]
<1>1. relevance \in [Cars -> Rows \cup {"none"}]
  BY DEF Shape, Tables
<1>2. relevance' = [c \in Cars |-> CASE c \in gone -> "none" [] c \in active -> "active"
                                 [] c \in irrelevant -> "irrelevant"
                                 [] OTHER -> relevance[c]]
  BY DEF SetRelevance
<1>3. \A c \in Cars :
        /\ c \in gone => relevance'[c] = "none"
        /\ c \notin gone /\ c \in active => relevance'[c] = "active"
        /\ c \notin gone /\ c \notin active /\ c \in irrelevant =>
             relevance'[c] = "irrelevant"
        /\ c \notin gone /\ c \notin active /\ c \notin irrelevant =>
             relevance'[c] = relevance[c]
  <2> TAKE c \in Cars
  <2>1. CASE c \in gone
    BY <1>2, <2>1
  <2>2. CASE c \notin gone /\ c \in active
    BY <1>2, <2>2
  <2>3. CASE c \notin gone /\ c \notin active /\ c \in irrelevant
    BY <1>2, <2>3
  <2>4. CASE c \notin gone /\ c \notin active /\ c \notin irrelevant
    BY <1>2, <2>4
  <2>5. QED
    BY <2>1, <2>2, <2>3, <2>4
<1>4. \A c \in Cars : relevance'[c] \in Rows \cup {"none"}
  BY <1>1, <1>3 DEF Rows
<1>5. QED
  BY <1>2, <1>3, <1>4

\* A call comes in.
LEMMA Entered ==
  ASSUME Shape, NEW n \in Calls, NEW k, Enter(n, k), WellFormed(k),
         RowsThere(k, relevance),
         UNCHANGED <<filters, relevance, parsing, excused, crashes>>,
         \A m \in Calls \ {n} : call[m].pc = "creating" => k.filter # call[m].filter,
         k.pc = "creating" =>
           filters[k.filter] = None /\ \A m \in Calls \ {n} : call[m].filter # k.filter
  PROVE  Shape'
<1>1. /\ call' = [call EXCEPT ![n] = k] /\ calls < MaxCalls /\ calls' = calls + 1
      /\ Tables /\ CallsSound(call, relevance, filters)
  BY DEF Enter, Shape
<1>2. Tables'
  BY <1>1, RelevanceBoundsAssumption DEF Tables
<1>3. CallsSound([call EXCEPT ![n] = k], relevance, filters)
  BY <1>1, ReplacedCall
<1>4. CallsSound(call', relevance', filters')
  BY <1>1, <1>3
<1>5. QED
  BY <1>2, <1>4 DEF Shape

\* A call as it comes in.
Entry(p, i, f, cars) == [Idle EXCEPT !.pc = p, !.filter = i, !.form = f, !.cars = cars]

\* Its fields.
LEMMA EntryFields ==
  ASSUME NEW p \in Kinds, NEW i \in FilterIds \cup {None}, NEW f \in AnyForm,
         NEW cars \in SUBSET Cars
  PROVE  /\ Entry(p, i, f, cars).pc = p /\ Entry(p, i, f, cars).filter = i
         /\ Entry(p, i, f, cars).form = f /\ Entry(p, i, f, cars).cars = cars
         /\ Entry(p, i, f, cars).active = {} /\ Entry(p, i, f, cars) \in CallRecord
<1>k. PICK k : k = [Idle EXCEPT !.pc = p, !.filter = i, !.form = f, !.cars = cars]
  OBVIOUS
<1>1. Idle \in [pc : {"idle"}, filter : {None}, form : {None}, cars : SUBSET Cars,
               active : SUBSET Cars]
  BY DEF Idle
<1>2. k \in CallRecord
  BY <1>k, <1>1, Zenon DEF CallRecord
<1>3. /\ k.pc = p /\ k.filter = i /\ k.form = f /\ k.cars = cars /\ k.active = {}
  BY <1>k, Zenon DEF Idle
<1>4. k = Entry(p, i, f, cars)
  BY <1>k DEF Entry
<1>5. QED
  BY <1>2, <1>3, <1>4

\* One about a filter.
LEMMA EnteredCall ==
  ASSUME NEW p \in OfFilter, NEW i \in FilterIds, NEW f \in Forms,
         NEW cars \in SUBSET Cars, \A c \in cars : Present(c),
         p = "creating" => \A c \in cars : Matches(f, c)
  PROVE  /\ WellFormed(Entry(p, i, f, cars)) /\ RowsThere(Entry(p, i, f, cars), relevance)
         /\ Entry(p, i, f, cars).pc = p /\ Entry(p, i, f, cars).filter = i
         /\ Entry(p, i, f, cars).form = f /\ Entry(p, i, f, cars).cars = cars
         /\ Entry(p, i, f, cars).active = {}
<1>k. PICK k : k = Entry(p, i, f, cars)
  OBVIOUS
<1>1. f \in AnyForm /\ p \in Kinds /\ p \notin ByVin \cup Decides
  BY DEF AnyForm, Kinds, OfFilter, ByVin, Decides
<1>2. /\ k.pc = p /\ k.filter = i /\ k.form = f /\ k.cars = cars /\ k.active = {}
      /\ k \in CallRecord
  BY <1>k, <1>1, EntryFields
<1>3. RowsThere(k, relevance)
  BY <1>2 DEF RowsThere, Present
<1>4. WellFormed(k)
  BY <1>1, <1>2 DEF WellFormed, OfFilter
<1>5. QED
  BY <1>k, <1>2, <1>3, <1>4

\* One about cars.
CarsEntry(p, cars, f, active) ==
  [Idle EXCEPT !.pc = p, !.cars = cars, !.form = f, !.active = active]

\* Its fields.
LEMMA CarsEntryFields ==
  ASSUME NEW p \in Kinds, NEW cars \in SUBSET Cars, NEW f \in AnyForm,
         NEW active \in SUBSET Cars
  PROVE  /\ CarsEntry(p, cars, f, active) \in CallRecord
         /\ CarsEntry(p, cars, f, active).pc = p /\ CarsEntry(p, cars, f, active).filter = None
         /\ CarsEntry(p, cars, f, active).form = f
         /\ CarsEntry(p, cars, f, active).cars = cars
         /\ CarsEntry(p, cars, f, active).active = active
<1>k. PICK k : k = [Idle EXCEPT !.pc = p, !.cars = cars, !.form = f, !.active = active]
  OBVIOUS
<1>1. Idle \in [pc : {"idle"}, filter : {None}, form : {None}, cars : SUBSET Cars,
               active : SUBSET Cars] /\ None \in FilterIds \cup {None}
  BY DEF Idle
<1>2. k \in CallRecord
  BY <1>k, <1>1, Zenon DEF CallRecord
<1>3. k.pc = p /\ k.filter = None /\ k.form = f /\ k.cars = cars /\ k.active = active
  BY <1>k, Zenon DEF Idle
<1>4. k = CarsEntry(p, cars, f, active)
  BY <1>k DEF CarsEntry
<1>5. QED
  BY <1>2, <1>3, <1>4

\* The ways it is written.
LEMMA CarsEntryForms ==
  ASSUME NEW p, NEW cars, NEW f
  PROVE  /\ [Idle EXCEPT !.pc = p, !.cars = cars] = CarsEntry(p, cars, None, {})
         /\ [Idle EXCEPT !.pc = p, !.cars = cars, !.form = f] = CarsEntry(p, cars, f, {})
<1>1. PICK a, b : /\ a = [Idle EXCEPT !.pc = p, !.cars = cars]
                  /\ b = [Idle EXCEPT !.pc = p, !.cars = cars, !.form = f]
  OBVIOUS
<1>2. PICK a2, b2 :
        /\ a2 = [Idle EXCEPT !.pc = p, !.cars = cars, !.form = None, !.active = {}]
        /\ b2 = [Idle EXCEPT !.pc = p, !.cars = cars, !.form = f, !.active = {}]
  OBVIOUS
<1>3. {a, a2} \subseteq [pc : {p}, filter : {None}, form : {None}, cars : {cars}, active : {{}}]
  BY <1>1, <1>2 DEF Idle
<1>4. {b, b2} \subseteq [pc : {p}, filter : {None}, form : {f}, cars : {cars}, active : {{}}]
  BY <1>1, <1>2 DEF Idle
<1>5. a = a2 /\ b = b2
  BY <1>3, <1>4
<1>6. QED
  BY <1>1, <1>2, <1>5 DEF CarsEntry

\* It comes in.
LEMMA CarsEntered ==
  ASSUME Shape, NEW n \in Calls, NEW k, Enter(n, k), WellFormed(k), RowsThere(k, relevance),
         k.pc \notin OfFilter,
         UNCHANGED <<filters, relevance, parsing, excused, crashes>>
  PROVE  Shape'
<1>1. k.filter = None /\ k.pc # "creating"
  BY DEF WellFormed, OfFilter
<1>2. \A m \in Calls : call[m].pc = "creating" => call[m].filter # None
  BY NoneIsNoRow DEF Shape, CallsSound, WellFormed, OfFilter
<1>3. QED
  BY <1>1, <1>2, Entered

\* What is decided for one car.
LEMMA OneDecision ==
  ASSUME NEW c \in Cars, NEW v \in Decisions
  PROVE  [d \in {c} |-> v] \in AnyForm /\ [d \in {c} |-> v][c] = v
<1>1. [d \in {c} |-> v] \in [{c} -> Decisions] /\ {c} \in SUBSET Cars
  OBVIOUS
<1>2. QED
  BY <1>1 DEF AnyForm

\* An import reads the filters, and the rows of its lots.
LEMMA ReadFiltersStep ==
  ASSUME Shape, NEW n \in Calls, ReadFilters(n)
  PROVE  Shape'
<1>s. relevance \in [Cars -> Rows \cup {"none"}]
  BY DEF Shape, Tables
<1> DEFINE judged(lots, again) == Having("none", lots) \cup again
           Decided(lots, again, c) ==
             IF c \notin judged(lots, again) THEN relevance[c]
             ELSE IF Accepted(c) THEN "active" ELSE "irrelevant"
           form(lots, again) == [c \in lots |-> Decided(lots, again, c)]
           free(lots, again) == {c \in judged(lots, again) : Accepted(c) /\ ~Filtered(c)}
<1>p. PICK lots \in SUBSET Cars \ {{}} : \E again \in SUBSET Having("archival", lots) :
        /\ Enter(n, CarsEntry("importing", lots, form(lots, again), free(lots, again)))
        /\ UNCHANGED <<filters, relevance, parsing, excused, crashes>>
  BY DEF ReadFilters, CarsEntry
<1>1. PICK again \in SUBSET Having("archival", lots) :
        /\ Enter(n, CarsEntry("importing", lots, form(lots, again), free(lots, again)))
        /\ UNCHANGED <<filters, relevance, parsing, excused, crashes>>
  BY <1>p
<1>2. PICK k : k = CarsEntry("importing", lots, form(lots, again), free(lots, again))
  OBVIOUS
<1>3. \A c \in lots : Decided(lots, again, c) \in Rows
  BY <1>s DEF Having, Rows
<1>4. free(lots, again) \in SUBSET Cars
  BY DEF Having
<1> HIDE DEF Decided, free
<1>5. form(lots, again) \in [lots -> Rows]
  BY <1>3
<1>6. \A c \in lots : form(lots, again)[c] \in Rows
  BY <1>3
<1> HIDE DEF form
<1>7. form(lots, again) \in AnyForm
  <2>1. form(lots, again) \in [lots -> Decisions]
    BY <1>5 DEF Decisions
  <2>2. QED
    BY <2>1 DEF AnyForm
<1>8. "importing" \in Kinds /\ "importing" \in ByVin
  BY DEF Kinds, ByVin
<1>9. /\ k \in CallRecord /\ k.pc = "importing" /\ k.filter = None
      /\ k.form = form(lots, again) /\ k.cars = lots
  BY <1>2, <1>4, <1>7, <1>8, CarsEntryFields
<1>10. WellFormed(k) /\ RowsThere(k, relevance) /\ k.pc \notin OfFilter
  BY <1>6, <1>8, <1>9 DEF WellFormed, RowsThere, OfFilter, Decisions, Rows
<1>11. QED
  BY <1>1, <1>2, <1>10, CarsEntered

\* An entry by hand reads its car.
LEMMA UpsertReadStep ==
  ASSUME Shape, NEW n \in Calls, UpsertRead(n)
  PROVE  Shape'
<1> DEFINE p(c) == IF Present(c) THEN "updating" ELSE "inserting"
           v(c) == IF relevance[c] = "active" THEN "kept" ELSE "active"
           free(c) == {d \in {c} : ~Filtered(d)}
<1>1. PICK c \in Cars :
        /\ Enter(n, CarsEntry(p(c), {c}, [d \in {c} |-> v(c)], free(c)))
        /\ UNCHANGED <<filters, relevance, parsing, excused, crashes>>
  BY DEF UpsertRead, CarsEntry
<1>2. PICK k : k = CarsEntry(p(c), {c}, [d \in {c} |-> v(c)], free(c))
  OBVIOUS
<1>3. v(c) \in {"active", "kept"} /\ v(c) \in Decisions /\ free(c) \subseteq {c} /\ p(c) \in {"updating", "inserting"}
  BY DEF Decisions, Rows
<1>4. p(c) = "updating" => Present(c)
  OBVIOUS
<1> HIDE DEF p, v, free
<1>5. PICK form : form = [d \in {c} |-> v(c)]
  OBVIOUS
<1>6. form \in AnyForm /\ form[c] = v(c)
  BY <1>3, <1>5, OneDecision
<1>7. p(c) \in Kinds /\ "inserting" \in ByVin
  BY <1>3 DEF Kinds, ByVin
<1>8. /\ k \in CallRecord /\ k.pc = p(c) /\ k.filter = None /\ k.form = form
      /\ k.cars = {c} /\ k.active = free(c)
  BY <1>2, <1>3, <1>5, <1>6, <1>7, CarsEntryFields
<1>9. WellFormed(k) /\ RowsThere(k, relevance) /\ k.pc \notin OfFilter
  BY <1>3, <1>4, <1>6, <1>7, <1>8 DEF WellFormed, RowsThere, OfFilter, Present
<1>10. QED
  BY <1>1, <1>2, <1>9, CarsEntered

\* The sweep reads ids, or an active car.
LEMMA SweepReadStep ==
  ASSUME Shape, NEW n \in Calls, SweepRead(n) \/ RefreshRead(n)
  PROVE  Shape'
<1>1. CASE SweepRead(n)
  <2>1. PICK cars \in SUBSET Having("irrelevant", Cars) :
          /\ Enter(n, [Idle EXCEPT !.pc = "sweeping", !.cars = cars])
          /\ UNCHANGED <<filters, relevance, parsing, excused, crashes>>
    BY <1>1 DEF SweepRead
  <2>2. PICK k : k = CarsEntry("sweeping", cars, None, {})
    OBVIOUS
  <2>3. cars \in SUBSET Cars /\ \A c \in cars : relevance[c] # "none"
    BY <2>1 DEF Having
  <2>4. "sweeping" \in Kinds /\ None \in AnyForm /\ "sweeping" \notin Decides \cup OfFilter
    BY DEF Kinds, AnyForm, Decides, ByVin, OfFilter
  <2>5. k \in CallRecord /\ k.pc = "sweeping" /\ k.filter = None /\ k.cars = cars
        /\ k.active = {}
    BY <2>2, <2>3, <2>4, CarsEntryFields
  <2>6. WellFormed(k) /\ RowsThere(k, relevance) /\ k.pc \notin OfFilter
    BY <2>3, <2>4, <2>5 DEF WellFormed, RowsThere
  <2>7. QED
    BY <2>1, <2>2, <2>6, CarsEntryForms, CarsEntered
<1>2. CASE RefreshRead(n)
  <2>1. PICK c \in Having("active", Cars), answer \in {"active", "archival"} :
          /\ Enter(n, [Idle EXCEPT !.pc = "refreshing", !.cars = {c},
                                  !.form = [d \in {c} |-> answer]])
          /\ UNCHANGED <<filters, relevance, parsing, excused, crashes>>
    BY <1>2 DEF RefreshRead
  <2>2. PICK form : form = [d \in {c} |-> answer]
    OBVIOUS
  <2>3. PICK k : k = CarsEntry("refreshing", {c}, form, {})
    OBVIOUS
  <2>4. c \in Cars /\ answer \in Decisions /\ answer # "kept"
    BY DEF Having, Decisions, Rows
  <2>5. form \in AnyForm /\ form[c] = answer
    BY <2>2, <2>4, OneDecision
  <2>6. "refreshing" \in Kinds /\ "refreshing" \in ByVin /\ "refreshing" \notin OfFilter
    BY DEF Kinds, ByVin, OfFilter
  <2>7. /\ k \in CallRecord /\ k.pc = "refreshing" /\ k.filter = None /\ k.form = form
        /\ k.cars = {c} /\ k.active = {}
    BY <2>3, <2>4, <2>5, <2>6, CarsEntryFields
  <2>8. WellFormed(k) /\ RowsThere(k, relevance) /\ k.pc \notin OfFilter
    BY <2>4, <2>5, <2>6, <2>7 DEF WellFormed, RowsThere
  <2>9. QED
    BY <2>1, <2>2, <2>3, <2>8, CarsEntryForms, CarsEntered
<1>3. QED
  BY <1>1, <1>2

\* Reading a filter, and the cars it is about.
LEMMA EnteringStep ==
  ASSUME Shape, NEW n \in Calls,
         CreateFilter(n) \/ PatchFilter(n) \/ ReadArchived(n)
  PROVE  Shape'
<1>s. CallsSound(call, relevance, filters) /\ Tables
  BY DEF Shape
<1>1. CASE CreateFilter(n)
  <2>1. PICK i \in FilterIds \ Stored, f \in Forms :
          /\ \A m \in Calls : call[m].filter # i
          /\ Enter(n, [Idle EXCEPT !.pc = "creating", !.filter = i, !.form = f,
                                  !.cars = Activated(f)])
          /\ UNCHANGED <<filters, relevance, parsing, excused, crashes>>
    BY <1>1 DEF CreateFilter
  <2>k. PICK k : k = Entry("creating", i, f, Activated(f))
    OBVIOUS
  <2>2. /\ WellFormed(k) /\ RowsThere(k, relevance)
        /\ k.pc = "creating" /\ k.filter = i
    <3>1. /\ Activated(f) \in SUBSET Cars
          /\ \A c \in Activated(f) : Present(c) /\ Matches(f, c)
      BY DEF Activated
    <3>2. "creating" \in OfFilter
      BY DEF OfFilter
    <3>3. QED
      BY <2>k, <2>1, <3>1, <3>2, EnteredCall
  <2>3. filters[i] = None
    BY <2>1 DEF Stored
  <2>4. Enter(n, k)
    BY <2>1, <2>k DEF Entry
  <2>5. QED
    BY <2>1, <2>2, <2>3, <2>4, Entered
<1>2. CASE PatchFilter(n)
  <2>1. PICK i \in Stored, f \in Forms :
          /\ Enter(n, [Idle EXCEPT !.pc = "patching", !.filter = i, !.form = f,
               !.cars = {c \in Cars : Present(c) /\ PatchMatches(filters[i], c)}])
          /\ UNCHANGED <<filters, relevance, parsing, excused, crashes>>
    BY <1>2 DEF PatchFilter
  <2> DEFINE cars == {c \in Cars : Present(c) /\ PatchMatches(filters[i], c)}
  <2>k. PICK k : k = Entry("patching", i, f, cars)
    OBVIOUS
  <2>2. /\ WellFormed(k) /\ RowsThere(k, relevance)
        /\ k.pc = "patching" /\ k.filter = i
    <3>1. cars \in SUBSET Cars /\ (\A c \in cars : Present(c)) /\ i \in FilterIds
      BY DEF Stored
    <3>2. "patching" \in OfFilter
      BY DEF OfFilter
    <3> HIDE DEF cars
    <3>3. QED
      BY <2>k, <2>1, <3>1, <3>2, EnteredCall
  <2>3. filters[i] # None
    BY DEF Stored
  <2>4. \A m \in Calls \ {n} : call[m].pc = "creating" => i # call[m].filter
    BY <1>s, <2>3 DEF CallsSound, OwnId
  <2>5. Enter(n, k)
    BY <2>1, <2>k DEF Entry
  <2>6. QED
    BY <2>1, <2>2, <2>4, <2>5, Entered
<1>3. CASE ReadArchived(n)
  <2>1. PICK i \in Stored :
          /\ Enter(n, [Idle EXCEPT !.pc = "reading", !.filter = i, !.form = filters[i],
              !.cars = {c \in Having("archival", Cars) : DeleteMatches(filters[i], c)}])
          /\ UNCHANGED <<filters, relevance, parsing, excused, crashes>>
    BY <1>3 DEF ReadArchived
  <2> DEFINE cars == {c \in Having("archival", Cars) : DeleteMatches(filters[i], c)}
  <2>k. PICK k : k = Entry("reading", i, filters[i], cars)
    OBVIOUS
  <2>2. /\ WellFormed(k) /\ RowsThere(k, relevance)
        /\ k.pc = "reading" /\ k.filter = i
    <3>1. /\ cars \in SUBSET Cars /\ \A c \in cars : Present(c)
          /\ i \in FilterIds /\ filters[i] \in Forms
      BY <1>s DEF Stored, Having, Present, Tables
    <3>2. "reading" \in OfFilter
      BY DEF OfFilter
    <3> HIDE DEF cars
    <3>3. QED
      BY <2>k, <3>1, <3>2, EnteredCall
  <2>3. filters[i] # None
    BY DEF Stored
  <2>4. \A m \in Calls \ {n} : call[m].pc = "creating" => i # call[m].filter
    BY <1>s, <2>3 DEF CallsSound, OwnId
  <2>5. Enter(n, k)
    BY <2>1, <2>k DEF Entry
  <2>6. QED
    BY <2>1, <2>2, <2>4, <2>5, Entered
<1>4. QED
  BY <1>1, <1>2, <1>3

\* The call goes on: the patch has been committed, or the active cars are read.
LEMMA GoingOnStep ==
  ASSUME Shape, NEW n \in Calls, CommitPatch(n) \/ DeleteArchived(n)
  PROVE  Shape'
<1>s. /\ CallsSound(call, relevance, filters) /\ Tables
      /\ WellFormed(call[n]) /\ RowsThere(call[n], relevance)
  BY DEF Shape, CallsSound
<1>1. CASE CommitPatch(n)
  <2>k. PICK k : k = [call[n] EXCEPT !.pc = "patched"]
    OBVIOUS
  <2>1. /\ call[n].pc = "patching" /\ call[n].filter \in Stored
        /\ filters' = [filters EXCEPT ![call[n].filter] = call[n].form]
        /\ excused' = excused \cup Contended(n) /\ call' = [call EXCEPT ![n] = k]
        /\ UNCHANGED <<relevance, parsing, calls, crashes>>
    BY <1>1, <2>k DEF CommitPatch, Become
  <2>2. /\ k \in CallRecord /\ k.pc = "patched" /\ k.filter = call[n].filter
        /\ k.form = call[n].form /\ k.cars = call[n].cars /\ k.active = call[n].active
    BY <1>s, <2>k DEF WellFormed, CallRecord, Kinds, OfFilter
  <2>3. call[n].filter \in FilterIds /\ call[n].form \in Forms
    BY <1>s, <2>1 DEF WellFormed, OfFilter
  <2>4. WellFormed(k) /\ RowsThere(k, relevance)
    BY <1>s, <2>1, <2>2, <2>3 DEF WellFormed, RowsThere, OfFilter, ByVin, Decides
  <2>5. \A m \in Calls \ {n} : call[m].pc = "creating" => k.filter # call[m].filter
    BY <1>s, <2>1, <2>2 DEF CallsSound, OwnId, Stored
  <2>6. \A m \in Calls \ {n} :
          call[m].pc = "creating" => filters'[call[m].filter] = filters[call[m].filter]
    BY <1>s, <2>1, <2>2, <2>5 DEF Tables, CallsSound, WellFormed
  <2>7. CallsSound(call', relevance', filters')
    <3>1. CallsSound([call EXCEPT ![n] = k], relevance, filters')
      BY <1>s, <2>2, <2>4, <2>5, <2>6, ReplacedCall
    <3>2. QED
      BY <2>1, <3>1
  <2>8. Tables'
    BY <1>s, <2>1, <2>3, ConcernedAreCars DEF Tables
  <2>9. QED
    BY <2>7, <2>8 DEF Shape
<1>2. CASE DeleteArchived(n)
  <2> DEFINE active == {c \in Having("active", Cars) \ call[n].cars :
                          DeleteMatches(call[n].form, c)}
  <2>k. PICK k : k = [call[n] EXCEPT !.pc = "deleting", !.active = active]
    OBVIOUS
  <2>1. /\ call[n].pc = "reading" /\ call' = [call EXCEPT ![n] = k]
        /\ UNCHANGED <<filters, relevance, parsing, excused, calls, crashes>>
    BY <1>2, <2>k DEF DeleteArchived, Become
  <2>2. /\ active \in SUBSET Cars /\ active \cap call[n].cars = {}
        /\ \A c \in active : relevance[c] = "active" /\ DeleteMatches(call[n].form, c)
    BY DEF Having
  <2> HIDE DEF active
  <2>3. /\ k \in CallRecord /\ k.pc = "deleting" /\ k.filter = call[n].filter
        /\ k.form = call[n].form /\ k.cars = call[n].cars /\ k.active = active
    BY <1>s, <2>k, <2>2 DEF WellFormed, CallRecord, Kinds, OfFilter
  <2>4. call[n].filter \in FilterIds /\ call[n].form \in Forms
    BY <1>s, <2>1 DEF WellFormed, OfFilter
  <2>5. WellFormed(k) /\ RowsThere(k, relevance)
    BY <1>s, <2>1, <2>2, <2>3, <2>4 DEF WellFormed, RowsThere, OfFilter, ByVin, Decides
  <2>6. \A m \in Calls \ {n} : call[m].pc = "creating" => k.filter # call[m].filter
    BY <1>s, <2>1, <2>3 DEF CallsSound, OwnId
  <2>7. CallsSound([call EXCEPT ![n] = k], relevance, filters)
    BY <1>s, <2>3, <2>5, <2>6, ReplacedCall
  <2>8. CallsSound(call', relevance', filters')
    BY <2>1, <2>7
  <2>9. Tables'
    BY <1>s, <2>1 DEF Tables
  <2>10. QED
    BY <2>8, <2>9 DEF Shape
<1>3. QED
  BY <1>1, <1>2

\* A call ends.
LEMMA FinishingCalls ==
  ASSUME Shape, NEW n \in Calls, NEW gone, Finish(n, gone),
         \A c \in Cars \ gone : relevance[c] # "none" => relevance'[c] # "none",
         \A m \in Calls \ {n} :
           call[m].pc = "creating" => filters'[call[m].filter] = filters[call[m].filter]
  PROVE  CallsSound(call', relevance', filters')
<1>1. CallsSound(call, relevance, filters)
  BY DEF Shape
<1>2. /\ AreCalls(call')
      /\ \A m \in Calls : Thinned(call[m], call'[m], gone, filters, filters')
  BY DEF Finish, AreCalls, Thinned
<1>3. QED
  BY <1>1, <1>2, ThinnedCalls

\* The calls' own last steps.
LEMMA FinishingStep ==
  ASSUME Shape, NEW n \in Calls,
         \/ CommitFilter(n) \/ ApplyPatch(n) \/ PatchRefused(n)
         \/ DeleteFilter(n) \/ Crash(n)
  PROVE  Shape'
<1>s. /\ CallsSound(call, relevance, filters) /\ Tables
      /\ WellFormed(call[n]) /\ RowsThere(call[n], relevance)
      /\ Concerned(n) \subseteq Cars /\ Contended(n) \subseteq Cars
      /\ call[n].cars \subseteq Cars /\ call[n].active \subseteq Cars
      /\ call[n].pc = "deleting" => call[n].cars \cap call[n].active = {}
  BY ConcernedAreCars DEF Shape, CallsSound, WellFormed, CallRecord
<1>1. CASE CommitFilter(n)
  <2>1. /\ call[n].pc = "creating"
        /\ filters' = [filters EXCEPT ![call[n].filter] = call[n].form]
        /\ SetRelevance(call[n].cars, {}, {})
        /\ excused' = (excused \ call[n].cars) \cup Contended(n)
        /\ Finish(n, {}) /\ UNCHANGED <<parsing, calls, crashes>>
    BY <1>1 DEF CommitFilter
  <2>2. call[n].filter \in FilterIds /\ call[n].form \in Forms
    BY <1>s, <2>1 DEF WellFormed, OfFilter
  <2>3. /\ relevance' \in [Cars -> Rows \cup {"none"}]
        /\ \A c \in Cars : relevance[c] # "none" => relevance'[c] # "none"
    BY <2>1, RelevanceSet
  <2>4. \A m \in Calls \ {n} :
          call[m].pc = "creating" => filters'[call[m].filter] = filters[call[m].filter]
    BY <1>s, <2>1 DEF Tables, CallsSound, WellFormed, OwnId, OfFilter
  <2>5. CallsSound(call', relevance', filters')
    BY <2>1, <2>3, <2>4, FinishingCalls
  <2>6. Tables'
    BY <1>s, <2>1, <2>2, <2>3 DEF Tables
  <2>7. QED
    BY <2>5, <2>6 DEF Shape
<1>2. CASE ApplyPatch(n)
  <2> DEFINE matched == {c \in Cars : Present(c) /\ PatchMatches(filters[call[n].filter], c)}
             lost == Loses(call[n], matched)
             gone == GoneFromArchive(lost)
             on == Having("irrelevant", matched \ call[n].cars)
             off == Having("active", lost)
  <2>1. /\ SetRelevance(on, off, gone)
        /\ excused' = excused \cup Contended(n) \cup (lost \cap Shared(call[n].filter))
                   \cup {c \in matched : ~Matches(filters[call[n].filter], c)}
        /\ parsing' = [c \in Cars |-> IF c \in gone THEN "none" ELSE parsing[c]]
        /\ Finish(n, gone) /\ UNCHANGED <<filters, calls, crashes>>
    BY <1>2 DEF ApplyPatch
  <2>2. /\ lost \subseteq Cars /\ gone \subseteq lost
        /\ on \cap off = {} /\ on \cap gone = {} /\ off \cap gone = {}
    BY <1>s DEF Loses, GoneFromArchive, Having
  <2>3. excused' \subseteq Cars
    BY <1>s, <2>1, <2>2 DEF Tables
  <2> HIDE DEF lost, matched, gone, on, off
  <2>4. /\ relevance' \in [Cars -> Rows \cup {"none"}]
        /\ \A c \in Cars \ gone : relevance[c] # "none" => relevance'[c] # "none"
    BY <2>1, <2>2, RelevanceSet
  <2>5. CallsSound(call', relevance', filters')
    BY <2>1, <2>4, FinishingCalls
  <2>6. parsing' \in [Cars -> {"none", "running", "done"}]
    BY <1>s, <2>1 DEF Tables
  <2>7. Tables'
    BY <1>s, <2>1, <2>3, <2>4, <2>6 DEF Tables
  <2>8. QED
    BY <2>5, <2>7 DEF Shape
<1>3. CASE PatchRefused(n)
  <2>1. /\ excused' = excused \cup Contended(n) \cup call[n].cars
        /\ Finish(n, {}) /\ UNCHANGED <<filters, relevance, parsing, calls, crashes>>
    BY <1>3 DEF PatchRefused
  <2>2. CallsSound(call', relevance', filters')
    BY <2>1, FinishingCalls
  <2>3. Tables'
    BY <1>s, <2>1 DEF Tables
  <2>4. QED
    BY <2>2, <2>3 DEF Shape
<1>4. CASE DeleteFilter(n)
  <2> DEFINE more == {c \in Cars : call[n].form.model = None /\ Matches(call[n].form, c)}
  <2>1. /\ call[n].pc = "deleting"
        /\ filters' = [filters EXCEPT ![call[n].filter] = None]
        /\ SetRelevance({}, call[n].active, call[n].cars)
        /\ excused' = excused \cup Contended(n)
                   \cup (call[n].active \cap Shared(call[n].filter)) \cup more
        /\ parsing' = [c \in Cars |-> IF c \in call[n].cars THEN "none" ELSE parsing[c]]
        /\ Finish(n, call[n].cars) /\ UNCHANGED <<calls, crashes>>
    BY <1>4 DEF DeleteFilter
  <2>2. /\ relevance' \in [Cars -> Rows \cup {"none"}]
        /\ \A c \in Cars \ call[n].cars : relevance[c] # "none" => relevance'[c] # "none"
    BY <1>s, <2>1, RelevanceSet
  <2>3. \A m \in Calls \ {n} :
          call[m].pc = "creating" => filters'[call[m].filter] = filters[call[m].filter]
    BY <1>s, <2>1 DEF Tables, CallsSound, WellFormed, OwnId, OfFilter
  <2>4. CallsSound(call', relevance', filters')
    BY <2>1, <2>2, <2>3, FinishingCalls
  <2>5. more \subseteq Cars
    OBVIOUS
  <2> HIDE DEF more
  <2>6. excused' \subseteq Cars
    BY <1>s, <2>1, <2>5 DEF Tables
  <2>7. /\ parsing' \in [Cars -> {"none", "running", "done"}]
        /\ filters' \in [FilterIds -> Forms \cup {None}]
    BY <1>s, <2>1 DEF Tables
  <2>8. Tables'
    BY <1>s, <2>1, <2>2, <2>6, <2>7 DEF Tables
  <2>9. QED
    BY <2>4, <2>8 DEF Shape
<1>5. CASE Crash(n)
  <2>1. /\ crashes < MaxCrashes /\ crashes' = crashes + 1
        /\ excused' \in {excused, excused \cup Concerned(n)}
        /\ Finish(n, {}) /\ UNCHANGED <<filters, relevance, parsing, calls>>
    BY <1>5 DEF Crash
  <2>2. CallsSound(call', relevance', filters')
    BY <2>1, FinishingCalls
  <2>3. excused' \subseteq Cars
    BY <1>s, <2>1 DEF Tables
  <2>4. Tables'
    BY <1>s, <2>1, <2>3, RelevanceBoundsAssumption DEF Tables
  <2>5. QED
    BY <2>2, <2>4 DEF Shape
<1>6. QED
  BY <1>1, <1>2, <1>3, <1>4, <1>5

\* The calls that write what they have decided about cars.
LEMMA StoringStep ==
  ASSUME Shape, NEW n \in Calls, StoreLots(n) \/ UpsertWrite(n) \/ Refresh(n)
  PROVE  Shape'
<1>s. /\ CallsSound(call, relevance, filters) /\ Tables
      /\ WellFormed(call[n]) /\ RowsThere(call[n], relevance)
      /\ Contended(n) \subseteq Cars /\ call[n].active \subseteq Cars
  BY ConcernedAreCars DEF Shape, CallsSound, WellFormed, CallRecord
<1>1. PICK cars \in SUBSET call[n].cars : Store(call[n], cars) /\ \A c \in cars : call[n].form[c] # "kept"
  <2>1. CASE StoreLots(n)
    BY <1>s, <2>1 DEF StoreLots, WellFormed
  <2>2. CASE UpsertWrite(n)
    <3>1. /\ {c \in call[n].cars : call[n].form[c] # "kept"} \in SUBSET call[n].cars
          /\ \A c \in {d \in call[n].cars : call[n].form[d] # "kept"} : call[n].form[c] # "kept"
      OBVIOUS
    <3>2. Store(call[n], {c \in call[n].cars : call[n].form[c] # "kept"})
      BY <2>2 DEF UpsertWrite
    <3>3. QED
      BY <3>1, <3>2
  <2>3. CASE Refresh(n)
    <3>1. {c \in call[n].cars : Present(c)} \in SUBSET call[n].cars
      OBVIOUS
    <3>2. Store(call[n], {c \in call[n].cars : Present(c)}) /\ call[n].pc = "refreshing"
      BY <2>3 DEF Refresh
    <3>3. \A c \in call[n].cars : call[n].form[c] # "kept"
      BY <1>s, <3>2 DEF WellFormed
    <3>4. QED
      BY <3>1, <3>2, <3>3
  <2>4. QED
    BY <2>1, <2>2, <2>3
<1>2. /\ call[n].pc \in Decides /\ Finish(n, {})
      /\ excused' \in {excused \cup Contended(n), excused \cup Contended(n) \cup call[n].active}
      /\ UNCHANGED <<filters, calls, crashes>>
  BY DEF StoreLots, UpsertWrite, Refresh, Decides, ByVin
<1>3. \A c \in cars : call[n].form[c] \in Rows
  BY <1>s, <1>1, <1>2 DEF WellFormed, Decisions
<1>4. /\ relevance' \in [Cars -> Rows \cup {"none"}]
      /\ \A c \in Cars : relevance[c] # "none" => relevance'[c] # "none"
  BY <1>s, <1>1, <1>3 DEF Store, Tables, Rows
<1>5. parsing' \in [Cars -> {"none", "running", "done"}]
  BY <1>s DEF StoreLots, UpsertWrite, Refresh, Tables
<1>6. CallsSound(call', relevance', filters')
  BY <1>2, <1>4, FinishingCalls
<1>7. Tables'
  BY <1>s, <1>2, <1>4, <1>5 DEF Tables
<1>8. QED
  BY <1>6, <1>7 DEF Shape

\* The sweep deletes.
LEMMA SweepDeleteStep ==
  ASSUME Shape, NEW n \in Calls, SweepDelete(n)
  PROVE  Shape'
<1>s. Tables /\ Contended(n) \subseteq Cars
  BY ConcernedAreCars DEF Shape
<1>1. /\ SetRelevance({}, {}, call[n].cars) /\ excused' = excused \cup Contended(n)
      /\ parsing' = [c \in Cars |-> IF c \in call[n].cars THEN "none" ELSE parsing[c]]
      /\ Finish(n, call[n].cars) /\ UNCHANGED <<filters, calls, crashes>>
  BY DEF SweepDelete
<1>2. /\ relevance' \in [Cars -> Rows \cup {"none"}]
      /\ \A c \in Cars \ call[n].cars : relevance[c] # "none" => relevance'[c] # "none"
  BY <1>1, RelevanceSet
<1>3. CallsSound(call', relevance', filters')
  BY <1>1, <1>2, FinishingCalls
<1>4. parsing' \in [Cars -> {"none", "running", "done"}]
  BY <1>s, <1>1 DEF Tables
<1>5. Tables'
  BY <1>s, <1>1, <1>2, <1>4 DEF Tables
<1>6. QED
  BY <1>3, <1>5 DEF Shape

\* The calls that end with nothing done.
LEMMA RefusingStep ==
  ASSUME Shape, NEW n \in Calls,
         ApplyRefused(n) \/ DeleteRefused(n) \/ UpsertRefused(n) \/ SweepFails(n)
  PROVE  Shape'
<1>s. Tables /\ Concerned(n) \subseteq Cars
  BY ConcernedAreCars DEF Shape
<1>1. /\ Finish(n, {}) /\ UNCHANGED <<filters, relevance, parsing, calls, crashes>>
      /\ excused' \in {excused, excused \cup Concerned(n)}
  BY DEF ApplyRefused, DeleteRefused, UpsertRefused, SweepFails
<1>2. CallsSound(call', relevance', filters')
  BY <1>1, FinishingCalls
<1>3. Tables'
  BY <1>s, <1>1 DEF Tables
<1>4. QED
  BY <1>2, <1>3 DEF Shape

\* Rows are gone, and nobody has ended.
LEMMA EndedCalls ==
  ASSUME Shape, NEW gone, AreCalls(call'), filters' = filters,
         \A m \in Calls : call'[m] = WithoutRows(call[m], gone),
         \A c \in Cars \ gone : relevance[c] # "none" => relevance'[c] # "none"
  PROVE  CallsSound(call', relevance', filters')
<1>1. \A m \in Calls : Thinned(call[m], call'[m], gone, filters, filters')
  BY DEF Thinned
<1>2. CallsSound(call, relevance, filters)
  BY DEF Shape
<1>3. QED
  BY <1>1, <1>2, ThinnedCalls

\* The feed of ended lots and the parse tasks.
LEMMA CarStep ==
  ASSUME Shape, NEW c \in Cars, EndLot(c) \/ ParseDone(c) \/ ParseFails(c)
  PROVE  Shape'
<1>s. CallsSound(call, relevance, filters) /\ Tables
  BY DEF Shape
<1>1. CASE EndLot(c) /\ relevance[c] = "active"
  <2>1. /\ relevance' = [relevance EXCEPT ![c] = "archival"]
        /\ UNCHANGED <<call, parsing, filters, excused, calls, crashes>>
    BY <1>1 DEF EndLot
  <2>2. /\ relevance' \in [Cars -> Rows \cup {"none"}]
        /\ \A d \in Cars : relevance[d] # "none" => relevance'[d] # "none"
    BY <1>s, <2>1 DEF Tables, Rows
  <2>3. \A m \in Calls : RowsThere(call[m], relevance')
    BY <1>s, <2>2 DEF CallsSound, RowsThere, WellFormed, CallRecord
  <2>4. CallsSound(call', relevance', filters')
    BY <1>s, <2>1, <2>3 DEF CallsSound
  <2>5. Tables'
    BY <1>s, <2>1, <2>2 DEF Tables
  <2>6. QED
    BY <2>4, <2>5 DEF Shape
<1>2. CASE EndLot(c) /\ relevance[c] = "irrelevant"
  <2>1. /\ relevance' = [relevance EXCEPT ![c] = "none"]
        /\ call' = [m \in Calls |-> WithoutRows(call[m], {c})]
        /\ parsing' = [parsing EXCEPT ![c] = "none"]
        /\ UNCHANGED <<filters, excused, calls, crashes>>
    BY <1>2 DEF EndLot
  <2>2. /\ relevance' \in [Cars -> Rows \cup {"none"}]
        /\ \A d \in Cars \ {c} : relevance[d] # "none" => relevance'[d] # "none"
    BY <1>s, <2>1 DEF Tables, Rows
  <2>5. CallsSound(call', relevance', filters')
    <3>1. PICK gone : gone = {c}
      OBVIOUS
    <3>2. \A m \in Calls : call'[m] = WithoutRows(call[m], gone)
      BY <2>1, <3>1
    <3>3. \A d \in Cars \ gone : relevance[d] # "none" => relevance'[d] # "none"
      BY <2>2, <3>1
    <3>4. AreCalls(call') /\ filters' = filters
      BY <2>1 DEF AreCalls
    <3>5. QED
      BY <3>2, <3>3, <3>4, EndedCalls
  <2>6. Tables'
    BY <1>s, <2>1, <2>2 DEF Tables
  <2>7. QED
    BY <2>5, <2>6 DEF Shape
<1>3. CASE ParseDone(c)
  <2>1. PICK more \in {"running", "done"} :
        /\ relevance' = [relevance EXCEPT ![c] = "active"]
        /\ parsing' = [parsing EXCEPT ![c] = more]
        /\ excused' \subseteq excused \cup {c}
        /\ UNCHANGED <<filters, call, calls, crashes>>
    BY <1>3 DEF ParseDone
  <2>2. /\ relevance' \in [Cars -> Rows \cup {"none"}]
        /\ \A d \in Cars : relevance[d] # "none" => relevance'[d] # "none"
    BY <1>s, <2>1 DEF Tables, Rows
  <2>3. \A m \in Calls : RowsThere(call[m], relevance')
    BY <1>s, <2>2 DEF CallsSound, RowsThere, WellFormed, CallRecord
  <2>4. CallsSound(call', relevance', filters')
    BY <1>s, <2>1, <2>3 DEF CallsSound
  <2>5. Tables'
    BY <1>s, <2>1, <2>2 DEF Tables
  <2>6. QED
    BY <2>4, <2>5 DEF Shape
<1>4. CASE ParseFails(c)
  <2>1. PICK left \in {"none", "done"} :
        /\ parsing' = [parsing EXCEPT ![c] = left]
        /\ UNCHANGED <<filters, relevance, call, excused, calls, crashes>>
    BY <1>4 DEF ParseFails
  <2>2. Tables'
    BY <1>s, <2>1 DEF Tables
  <2>3. QED
    BY <1>s, <2>1, <2>2 DEF Shape
<1>5. EndLot(c) => relevance[c] \in {"irrelevant", "active"}
  BY DEF EndLot
<1>6. QED
  BY <1>1, <1>2, <1>3, <1>4, <1>5

\* Every step keeps the types.
LEMMA ShapeStep == Shape /\ [Next]_vars => Shape'
<1> SUFFICES ASSUME Shape, [Next]_vars PROVE Shape'
  OBVIOUS
<1>s. CallsSound(call, relevance, filters) /\ Tables
  BY DEF Shape
<1>1. ASSUME NEW n \in Calls, ImportRefused(n) PROVE Shape'
  <2>1. /\ calls < MaxCalls /\ calls' = calls + 1
        /\ UNCHANGED <<filters, relevance, parsing, call, excused, crashes>>
    BY <1>1 DEF ImportRefused
  <2>2. Tables'
    BY <1>s, <2>1, RelevanceBoundsAssumption DEF Tables
  <2>3. QED
    BY <1>s, <2>1, <2>2 DEF Shape
<1>2. ASSUME NEW i \in FilterIds, Kickoff(i) PROVE Shape'
  <2> DEFINE due == {c \in Cars : Present(c) /\ parsing[c] = "none" /\ Matches(filters[i], c)}
  <2>1. /\ parsing' = [c \in Cars |-> IF c \in due THEN "running" ELSE parsing[c]]
        /\ UNCHANGED <<filters, relevance, call, excused, calls, crashes>>
    BY <1>2 DEF Kickoff
  <2> HIDE DEF due
  <2>2. Tables'
    BY <1>s, <2>1 DEF Tables
  <2>3. QED
    BY <1>s, <2>1, <2>2 DEF Shape
<1>3. CASE UNCHANGED vars
  <2>1. UNCHANGED <<filters, relevance, parsing, call, excused, calls, crashes>>
    BY <1>3 DEF vars
  <2>2. Tables'
    BY <1>s, <2>1 DEF Tables
  <2>3. QED
    BY <1>s, <2>1, <2>2 DEF Shape
<1>4. QED
  BY <1>1, <1>2, <1>3, EnteringStep, ReadFiltersStep, UpsertReadStep, SweepReadStep,
    GoingOnStep, FinishingStep, StoringStep, SweepDeleteStep, RefusingStep, CarStep DEF Next

\* And they hold initially.
LEMMA ShapeInit == Init => Shape
<1> SUFFICES ASSUME Init PROVE Shape
  OBVIOUS
<1>1. call = [n \in Calls |-> Idle]
  BY DEF Init
<1>2. \A n \in Calls : call[n].pc # "creating" /\ WellFormed(call[n])
                     /\ RowsThere(call[n], relevance)
  BY <1>1, IdleSound DEF RowsThere
<1>3. CallsSound(call, relevance, filters)
  BY <1>1, <1>2 DEF CallsSound, AreCalls, OwnId
<1>4. Tables
  BY RelevanceBoundsAssumption DEF Init, Tables
<1>5. QED
  BY <1>3, <1>4 DEF Shape

-----------------------------------------------------------------------------
(* Active cars are not deleted.                                             *)

LostActive(c) == relevance[c] = "active" /\ relevance'[c] = "none"

\* What takes a row of an active car away.
LEMMA ActiveGoneStep ==
  ASSUME Shape, [Next]_vars, NEW c \in Cars, LostActive(c)
  PROVE  \E n \in Calls : call[n].pc \in {"deleting", "sweeping"} /\ c \in call[n].cars
<1>s. /\ relevance \in [Cars -> Rows \cup {"none"}]
      /\ relevance[c] = "active" /\ relevance'[c] = "none" /\ relevance' # relevance
  BY DEF Shape, Tables, LostActive
<1>1. ASSUME NEW n \in Calls,
             \/ CommitFilter(n) \/ ApplyPatch(n) \/ DeleteFilter(n)
             \/ StoreLots(n) \/ UpsertWrite(n) \/ SweepDelete(n) \/ Refresh(n)
      PROVE  call[n].pc \in {"deleting", "sweeping"} /\ c \in call[n].cars
  <2>s. WellFormed(call[n])
    BY DEF Shape, CallsSound
  <2>1. ~CommitFilter(n)
    <3>1. CommitFilter(n) => SetRelevance(call[n].cars, {}, {})
      BY DEF CommitFilter
    <3>2. SetRelevance(call[n].cars, {}, {}) => relevance'[c] \in {"active", relevance[c]}
      BY RelevanceSet
    <3>3. QED
      BY <1>s, <3>1, <3>2
  <2>2. ~ApplyPatch(n)
    <3> SUFFICES ASSUME ApplyPatch(n) PROVE FALSE
      OBVIOUS
    <3> DEFINE matched == {d \in Cars : Present(d) /\ PatchMatches(filters[call[n].filter], d)}
               lost == Loses(call[n], matched)
               gone == GoneFromArchive(lost)
               on == Having("irrelevant", matched \ call[n].cars)
               off == Having("active", lost)
    <3>1. SetRelevance(on, off, gone)
      BY DEF ApplyPatch
    <3>2. on \cap off = {} /\ on \cap gone = {} /\ off \cap gone = {} /\ c \notin gone
      BY <1>s DEF GoneFromArchive, Having
    <3> HIDE DEF on, off, gone, lost, matched
    <3>3. relevance'[c] \in {"active", "irrelevant", relevance[c]}
      BY <3>1, <3>2, RelevanceSet
    <3>4. QED
      BY <1>s, <3>3
  <2>3. ~StoreLots(n) /\ ~UpsertWrite(n) /\ ~Refresh(n)
    <3> SUFFICES ASSUME StoreLots(n) \/ UpsertWrite(n) \/ Refresh(n) PROVE FALSE
      OBVIOUS
    <3>1. /\ call[n].pc \in Decides
          /\ relevance'[c] \in {relevance[c], call[n].form[c]}
          /\ relevance'[c] # relevance[c] => c \in call[n].cars
      BY DEF StoreLots, UpsertWrite, Refresh, Store, Decides, ByVin
    <3>2. QED
      BY <1>s, <2>s, <3>1 DEF WellFormed, Decisions, Rows
  <2>4. CASE DeleteFilter(n)
    <3>1. call[n].pc = "deleting" /\ SetRelevance({}, call[n].active, call[n].cars)
      BY <2>4 DEF DeleteFilter
    <3>2. call[n].active \cap call[n].cars = {}
      BY <2>s, <3>1 DEF WellFormed
    <3>3. c \notin call[n].cars => relevance'[c] \in {"irrelevant", relevance[c]}
      BY <3>1, <3>2, RelevanceSet
    <3>4. QED
      BY <1>s, <3>1, <3>3
  <2>5. CASE SweepDelete(n)
    <3>1. call[n].pc = "sweeping" /\ SetRelevance({}, {}, call[n].cars)
      BY <2>5 DEF SweepDelete
    <3>2. c \notin call[n].cars => relevance'[c] = relevance[c]
      BY <3>1, RelevanceSet
    <3>3. QED
      BY <1>s, <3>1, <3>2
  <2>6. QED
    BY <1>1, <2>1, <2>2, <2>3, <2>4, <2>5
<1>2. ASSUME NEW d \in Cars PROVE ~EndLot(d) /\ ~ParseDone(d)
  BY <1>s DEF EndLot, ParseDone
<1>3. QED
  BY <1>1, <1>2, <1>s DEF Next, vars, CreateFilter, PatchFilter, CommitPatch, PatchRefused,
    ReadArchived, DeleteArchived, ReadFilters, ImportRefused, Crash, ParseFails, Kickoff,
    ApplyRefused, DeleteRefused, UpsertRead, UpsertRefused, SweepRead, RefreshRead, SweepFails

-----------------------------------------------------------------------------
(* The theorems about types and deletions.                                  *)

\* The type invariant holds, and the ids a creation or a deletion holds on to are
\* those of rows that are there.
THEOREM TypeCorrect == Spec => []TypeOK
<1>1. QED
  BY ShapeInit, ShapeStep, ShapeTypes, PTL DEF Spec

\* An active car is deleted only by one who holds its id since before it was active:
\* delete_filter, of archived cars, and the sweep, of irrelevant ones.  Neither a patch
\* nor the feed of ended lots deletes one, whatever the other calls have done since
\* they looked (admin.py:327-333, task.py:1290-1375).
THEOREM ActiveCarsAreKept == Spec => ActiveKept
<1>1. Shape /\ [Next]_vars =>
        [\A c \in Cars : relevance[c] = "active" /\ relevance'[c] = "none" =>
           \E n \in Calls : call[n].pc \in {"deleting", "sweeping"} /\ c \in call[n].cars]_vars
  BY ActiveGoneStep DEF LostActive
<1>2. QED
  BY <1>1, ShapeInit, ShapeStep, PTL DEF Spec, ActiveKept

-----------------------------------------------------------------------------
(* The lists: what holds for a car that is not excused.                     *)

HasYear(c) == CarOf[c].year # None

\* The row f of the table matches c, but for the year c may lack.
Covers(f, c) == f # None /\ PatchMatches(f, c)

Listed(fs, c) == HasYear(c) /\ \E i \in FilterIds : Covers(fs[i], c)

\* A call that is about c.
Near(k, fs, c) ==
  \/ c \in k.cars
  \/ k.pc \in OfFilter /\ (PatchMatches(k.form, c) \/ Covers(fs[k.filter], c))

\* Between the commits of a patch: c awaits what the new filter says of it, or at
\* least what the loss of the old one does.
Awaits(k, c) == k.pc = "patched" /\ PatchMatches(k.form, c)
Open(k, c) == k.pc = "patched" /\ (c \in k.cars \/ PatchMatches(k.form, c))

Awaited(c, cl) == \E m \in Calls : Awaits(cl[m], c)
AwaitedElsewhere(n, c, cl) == \E m \in Calls \ {n} : Awaits(cl[m], c)

\* What call n has read about c is still so; r is the relevance of c.
KnowsMatched(k, c, r) ==
  k.pc = "creating" =>
    (c \in k.cars <=> r # "none" /\ PatchMatches(k.form, c) /\ HasYear(c))

KnowsCovered(n, c, fs, r, cl) ==
  cl[n].pc = "patching" =>
    \/ AwaitedElsewhere(n, c, cl)
    \/ c \in cl[n].cars <=> r # "none" /\ Covers(fs[cl[n].filter], c)

KnowsFilter(n, c, fs, cl) ==
  cl[n].pc \in {"patched", "reading", "deleting"} =>
    \/ AwaitedElsewhere(n, c, cl)
    \/ PatchMatches(cl[n].form, c) <=> Covers(fs[cl[n].filter], c)

KnowsRelevance(k, c, r) ==
  /\ k.pc = "patched" /\ c \in k.cars /\ HasYear(c) => r # "irrelevant"
  /\ k.pc = "deleting" /\ DeleteMatches(k.form, c) /\ r = "active" =>
       c \in k.active \cup k.cars

KnowsDecision(k, c, fs, r, cl) ==
  k.pc \in Decides /\ c \in k.cars \ k.active =>
    /\ k.form[c] = "irrelevant" /\ Listed(fs, c) => Awaited(c, cl)
    /\ k.form[c] \in {"active", "kept"} /\ ~Listed(fs, c) =>
         r \in {"active", "archival"} /\ \E m \in Calls : Open(cl[m], c)

Knows(n, c, fs, r, cl) ==
  /\ KnowsMatched(cl[n], c, r) /\ KnowsCovered(n, c, fs, r, cl)
  /\ KnowsFilter(n, c, fs, cl) /\ KnowsRelevance(cl[n], c, r)
  /\ KnowsDecision(cl[n], c, fs, r, cl)

\* The car itself; p is its parse task.
OnItsList(c, fs, r, p, cl) ==
  /\ p = "running" => Listed(fs, c)
  /\ r = "irrelevant" /\ Listed(fs, c) => Awaited(c, cl)
  /\ r = "active" /\ ~Listed(fs, c) => \E m \in Calls : Open(cl[m], c)

InLine(c, fs, r, p, cl) ==
  OnItsList(c, fs, r, p, cl) /\ \A n \in Calls : Knows(n, c, fs, r, cl)

ListInv == \A c \in Cars \ excused : InLine(c, filters, relevance[c], parsing[c], call)

\* The three conditions in these terms: a condition on the model and the year, and
\* what each caller makes of what is left out.
LEMMA MatchesAre ==
  ASSUME NEW f \in Forms, NEW c \in Cars
  PROVE  /\ Matches(f, c) <=> PatchMatches(f, c) /\ HasYear(c)
         /\ DeleteMatches(f, c) => PatchMatches(f, c) /\ HasYear(c)
         /\ Matches(f, c) /\ f.model # None => DeleteMatches(f, c)
<1>1. CarOf[c].model # None
  BY FormsAssumption
<1>2. QED
  BY <1>1 DEF Matches, PatchMatches, DeleteMatches, HasYear, OfModel

\* Filters of the table.
LEMMA FilteredIs ==
  ASSUME Shape, NEW c \in Cars
  PROVE  /\ Filtered(c) <=> Listed(filters, c)
         /\ \A i \in Stored : filters[i] \in Forms /\ i \in FilterIds
         /\ \A i \in Stored : Covers(filters[i], c) <=> PatchMatches(filters[i], c)
<1>1. /\ \A i \in Stored : filters[i] \in Forms /\ i \in FilterIds
      /\ \A i \in Stored : Covers(filters[i], c) <=> PatchMatches(filters[i], c)
  BY DEF Shape, Tables, Stored, Covers
<1>2. Filtered(c) => Listed(filters, c)
  BY <1>1, MatchesAre DEF Filtered, Listed
<1>3. Listed(filters, c) => Filtered(c)
  BY <1>1, MatchesAre DEF Filtered, Listed, Covers, Stored
<1>4. QED
  BY <1>1, <1>2, <1>3

\* Whom a change concerns.
LEMMA ConcernedAre ==
  ASSUME Shape, NEW n \in Calls, NEW c \in Cars
  PROVE  c \in Concerned(n) <=> Near(call[n], filters, c)
<1> DEFINE k == call[n]
<1>1. WellFormed(k)
  BY DEF Shape, CallsSound
<1>2. CASE k.pc \notin OfFilter
  BY <1>2 DEF Concerned, Near
<1>3. CASE k.pc \in OfFilter
  <2> DEFINE Of(f) == {d \in Cars : f # None /\ PatchMatches(f, d)}
  <2>1. k.form \in Forms /\ k.form # None
    BY <1>1, <1>3, NoneIsNoRow DEF WellFormed
  <2>2. Concerned(n) = k.cars \cup Of(k.form) \cup Of(filters[k.filter])
    BY <1>3 DEF Concerned
  <2>3. QED
    BY <1>3, <2>1, <2>2 DEF Near, Covers
<1>4. QED
  BY <1>2, <1>3

\* A car two of them are about, or a parse task, is excused by what one of them does.
LEMMA ContendedAre ==
  ASSUME Shape, NEW n \in Calls, NEW c \in Cars, c \notin Contended(n),
         Near(call[n], filters, c)
  PROVE  /\ parsing[c] # "running"
         /\ \A m \in Calls \ {n} : ~Near(call[m], filters, c)
<1>1. c \in Concerned(n)
  BY ConcernedAre
<1>2. \A m \in Calls \ {n} : c \notin Concerned(m)
  BY <1>1 DEF Contended
<1>3. parsing[c] # "running"
  BY <1>1 DEF Contended
<1>4. QED
  BY <1>2, <1>3, ConcernedAre

\* What a call knows of a car it is not about.
LEMMA FarKnows ==
  ASSUME NEW c \in Cars, NEW fs, NEW r, NEW cl, NEW n \in Calls,
         WellFormed(cl[n]), ~Near(cl[n], fs, c)
  PROVE  /\ Knows(n, c, fs, r, cl) /\ ~Awaits(cl[n], c) /\ ~Open(cl[n], c)
<1>1. CASE cl[n].pc \notin OfFilter
  BY <1>1 DEF Near, Awaits, Open, Knows, KnowsMatched, KnowsCovered, KnowsFilter,
    KnowsRelevance, KnowsDecision, OfFilter
<1>2. CASE cl[n].pc \in OfFilter
  <2>1. /\ c \notin cl[n].cars /\ ~PatchMatches(cl[n].form, c)
        /\ ~Covers(fs[cl[n].filter], c)
    BY <1>2 DEF Near
  <2>2. ~DeleteMatches(cl[n].form, c)
    BY <1>2, <2>1, MatchesAre DEF WellFormed
  <2>3. QED
    BY <1>2, <2>1, <2>2 DEF Awaits, Open, Knows, KnowsMatched, KnowsCovered, KnowsFilter,
      KnowsRelevance, KnowsDecision
<1>3. QED
  BY <1>1, <1>2

\* A car nobody is about.
LEMMA Settled ==
  ASSUME NEW c \in Cars, NEW fs, NEW r, NEW p, NEW cl,
         \A m \in Calls : WellFormed(cl[m]) /\ ~Near(cl[m], fs, c),
         p = "running" => Listed(fs, c), r = "irrelevant" => ~Listed(fs, c),
         r = "active" => Listed(fs, c)
  PROVE  InLine(c, fs, r, p, cl)
BY FarKnows DEF InLine, OnItsList

\* The same call, as far as c goes.
Alike(k, k2, c) ==
  /\ k2.pc = k.pc /\ k2.filter = k.filter /\ k2.form = k.form
  /\ c \in k2.cars <=> c \in k.cars
  /\ c \in k2.active <=> c \in k.active

\* A step that changes nothing about c but perhaps the part n has in it.
LEMMA Frame ==
  ASSUME NEW c \in Cars, NEW fs, NEW fs2, NEW r, NEW p, NEW p2, NEW cl, NEW cl2, NEW n,
         InLine(c, fs, r, p, cl), \A m \in Calls : WellFormed(cl[m]),
         \A i \in FilterIds : Covers(fs2[i], c) <=> Covers(fs[i], c),
         p2 = "running" => p = "running" \/ Listed(fs, c),
         \A m \in Calls \ {n} : Alike(cl[m], cl2[m], c),
         n \in Calls => /\ Awaits(cl[n], c) => Awaits(cl2[n], c)
                        /\ Open(cl[n], c) => Open(cl2[n], c)
                        /\ Knows(n, c, fs2, r, cl2)
  PROVE  InLine(c, fs2, r, p2, cl2)
<1>1. Listed(fs2, c) <=> Listed(fs, c)
  BY DEF Listed
<1>2. ASSUME NEW m \in Calls
      PROVE  /\ Awaits(cl[m], c) => Awaits(cl2[m], c)
             /\ Open(cl[m], c) => Open(cl2[m], c)
  <2>1. CASE m = n
    BY <2>1
  <2>2. CASE m # n
    BY <2>2 DEF Alike, Awaits, Open
  <2>3. QED
    BY <2>1, <2>2
<1>3. /\ Awaited(c, cl) => Awaited(c, cl2)
      /\ (\E m \in Calls : Open(cl[m], c)) => \E m \in Calls : Open(cl2[m], c)
      /\ \A m \in Calls : AwaitedElsewhere(m, c, cl) => AwaitedElsewhere(m, c, cl2)
  BY <1>2 DEF Awaited, AwaitedElsewhere
<1>4. OnItsList(c, fs2, r, p2, cl2)
  BY <1>1, <1>3 DEF InLine, OnItsList
<1>5. ASSUME NEW m \in Calls \ {n} PROVE Knows(m, c, fs2, r, cl2)
  <2>1. Knows(m, c, fs, r, cl) /\ Alike(cl[m], cl2[m], c) /\ WellFormed(cl[m])
    BY DEF InLine
  <2>2. cl[m].pc \in OfFilter =>
          (Covers(fs2[cl[m].filter], c) <=> Covers(fs[cl[m].filter], c))
    BY <2>1 DEF WellFormed
  <2>3. KnowsMatched(cl2[m], c, r) /\ KnowsRelevance(cl2[m], c, r)
    BY <2>1 DEF Knows, KnowsMatched, KnowsRelevance, Alike
  <2>4. KnowsCovered(m, c, fs2, r, cl2) /\ KnowsFilter(m, c, fs2, cl2)
    BY <1>3, <2>1, <2>2 DEF Knows, KnowsCovered, KnowsFilter, Alike, OfFilter
  <2>5. KnowsDecision(cl2[m], c, fs2, r, cl2)
    BY <1>1, <1>3, <2>1 DEF Knows, KnowsDecision, Alike
  <2>6. QED
    BY <2>3, <2>4, <2>5 DEF Knows
<1>6. QED
  BY <1>4, <1>5 DEF InLine

-----------------------------------------------------------------------------
(* The lists: the steps.                                                    *)

\* What a step is to show.
Before(c) == InLine(c, filters, relevance[c], parsing[c], call)
After(c) == InLine(c, filters', relevance'[c], parsing'[c], call')

\* What is left of the other calls when n ends.
LEMMA FinishedCalls ==
  ASSUME Shape, NEW n \in Calls, NEW gone, Finish(n, gone), NEW c
  PROVE  /\ call'[n] = Idle
         /\ \A m \in Calls \ {n} :
              /\ call'[m].pc = call[m].pc /\ call'[m].filter = call[m].filter
              /\ call'[m].form = call[m].form /\ call'[m].cars \subseteq call[m].cars
              /\ c \notin gone => Alike(call[m], call'[m], c)
<1>1. /\ call'[n] = Idle
      /\ \A m \in Calls \ {n} : call'[m] = WithoutRows(call[m], gone) /\ WellFormed(call[m])
  BY DEF Finish, Shape, CallsSound
<1>2. ASSUME NEW m \in Calls \ {n}
      PROVE  /\ call'[m].pc = call[m].pc /\ call'[m].filter = call[m].filter
             /\ call'[m].form = call[m].form /\ call'[m].cars \subseteq call[m].cars
             /\ c \notin gone => Alike(call[m], call'[m], c)
  <2>1. call'[m] = WithoutRows(call[m], gone) /\ WellFormed(call[m])
    BY <1>1
  <2>2. CASE call[m].pc \in ByVin
    BY <2>1, <2>2 DEF WithoutRows, Alike
  <2>3. CASE call[m].pc \notin ByVin
    BY <2>1, <2>3, ThinnedCall DEF Alike
  <2>4. QED
    BY <2>2, <2>3
<1>3. QED
  BY <1>1, <1>2

\* Nothing is said of c by a call that is idle.
LEMMA IdleKnows ==
  ASSUME NEW c \in Cars, NEW fs, NEW r, NEW cl, NEW n \in Calls, cl[n] = Idle
  PROVE  Knows(n, c, fs, r, cl)
BY IdleSound, FarKnows DEF Near, OfFilter

\* A call ends and leaves c as it is.
LEMMA FinishedFar ==
  ASSUME Shape, NEW n \in Calls, NEW gone, Finish(n, gone), NEW c \in Cars \ gone, Before(c),
         ~Awaits(call[n], c), ~Open(call[n], c), relevance'[c] = relevance[c],
         parsing'[c] = parsing[c],
         \A i \in FilterIds : Covers(filters'[i], c) <=> Covers(filters[i], c)
  PROVE  After(c)
<1>1. /\ call'[n] = Idle /\ \A m \in Calls \ {n} : Alike(call[m], call'[m], c)
      /\ \A m \in Calls : WellFormed(call[m])
  BY FinishedCalls DEF Shape, CallsSound
<1>2. Knows(n, c, filters', relevance[c], call')
  BY <1>1, IdleKnows
<1>3. PICK fs2, r, p2, cl2 : /\ fs2 = filters' /\ r = relevance'[c] /\ p2 = parsing'[c]
                             /\ cl2 = call'
  OBVIOUS
<1>4. InLine(c, fs2, r, p2, cl2)
  BY <1>1, <1>2, <1>3, Frame DEF Before
<1>5. QED
  BY <1>3, <1>4 DEF After

\* A call ends that was the only one about c.
LEMMA FinishedAlone ==
  ASSUME Shape, Shape', NEW n \in Calls, NEW gone, Finish(n, gone), NEW c \in Cars,
         \A m \in Calls \ {n} : ~Near(call[m], filters, c),
         \A m \in Calls \ {n} :
           call[m].filter \in FilterIds /\ Covers(filters'[call[m].filter], c) =>
             Covers(filters[call[m].filter], c),
         parsing'[c] = "running" => Listed(filters', c),
         relevance'[c] = "irrelevant" => ~Listed(filters', c),
         relevance'[c] = "active" => Listed(filters', c)
  PROVE  After(c)
<1>1. call'[n] = Idle
  BY FinishedCalls
<1>2. ASSUME NEW m \in Calls
      PROVE  WellFormed(call'[m]) /\ ~Near(call'[m], filters', c)
  <2>1. WellFormed(call'[m]) /\ WellFormed(call[m])
    BY DEF Shape, CallsSound
  <2>2. CASE m = n
    BY <1>1, <2>1, <2>2, IdleSound DEF Near, OfFilter
  <2>3. CASE m # n
    <3>1. /\ call'[m].pc = call[m].pc /\ call'[m].filter = call[m].filter
          /\ call'[m].form = call[m].form /\ call'[m].cars \subseteq call[m].cars
      BY <2>3, FinishedCalls
    <3>2. ~Near(call[m], filters, c)
      BY <2>3
    <3>3. call[m].pc \in OfFilter => call[m].filter \in FilterIds
      BY <2>1 DEF WellFormed
    <3>4. QED
      BY <2>1, <2>3, <3>1, <3>2, <3>3 DEF Near
  <2>4. QED
    BY <2>2, <2>3
<1>3. QED
  BY <1>2, Settled DEF After

\* What is known of a car that only n is about, and no patch is half done.
LEMMA KnownAlone ==
  ASSUME Shape, NEW n \in Calls, NEW c \in Cars, Before(c),
         \A m \in Calls \ {n} : ~Near(call[m], filters, c)
  PROVE  /\ ~AwaitedElsewhere(n, c, call)
         /\ call[n].pc # "patched" =>
              /\ relevance[c] = "irrelevant" => ~Listed(filters, c)
              /\ relevance[c] = "active" => Listed(filters, c)
              /\ ~Awaited(c, call) /\ ~\E m \in Calls : Open(call[m], c)
<1>1. \A m \in Calls \ {n} : ~Awaits(call[m], c) /\ ~Open(call[m], c)
  BY FarKnows DEF Shape, CallsSound
<1>2. call[n].pc # "patched" => ~Awaits(call[n], c) /\ ~Open(call[n], c)
  BY DEF Awaits, Open
<1>3. QED
  BY <1>1, <1>2 DEF Before, InLine, OnItsList, Awaited, AwaitedElsewhere

\* A call is replaced, and c and the table of filters stay.
LEMMA ReplacedFrame ==
  ASSUME Shape, NEW n \in Calls, NEW k, call' = [call EXCEPT ![n] = k], NEW c \in Cars,
         Before(c), ~Awaits(call[n], c), ~Open(call[n], c), relevance'[c] = relevance[c],
         parsing'[c] = parsing[c],
         \A i \in FilterIds : Covers(filters'[i], c) <=> Covers(filters[i], c),
         Knows(n, c, filters', relevance[c], call')
  PROVE  After(c)
<1>1. /\ \A m \in Calls \ {n} : Alike(call[m], call'[m], c)
      /\ \A m \in Calls : WellFormed(call[m])
  BY DEF Alike, Shape, CallsSound, AreCalls
<1>2. PICK fs2, r, p2, cl2 : /\ fs2 = filters' /\ r = relevance'[c] /\ p2 = parsing'[c]
                             /\ cl2 = call'
  OBVIOUS
<1>3. /\ InLine(c, filters, r, parsing[c], call) /\ Knows(n, c, fs2, r, cl2)
      /\ ~Awaits(call[n], c) /\ ~Open(call[n], c)
      /\ \A i \in FilterIds : Covers(fs2[i], c) <=> Covers(filters[i], c)
      /\ \A m \in Calls \ {n} : Alike(call[m], cl2[m], c)
      /\ p2 = "running" => parsing[c] = "running"
  BY <1>1, <1>2 DEF Before
<1>4. InLine(c, fs2, r, p2, cl2)
  BY ONLY <1>1, <1>3, n \in Calls, c \in Cars, Frame
<1>5. QED
  BY <1>2, <1>4 DEF After

\* A call comes in; what is to be shown is what it knows.
LEMMA EnteredKnowing ==
  ASSUME Shape, NEW n \in Calls, NEW c \in Cars, Before(c),
         NEW k, Enter(n, k), UNCHANGED <<filters, relevance, parsing>>,
         ASSUME call'[n] = k, \A m \in Calls : Awaits(call[m], c) => Awaits(call'[m], c),
                \A m \in Calls : Open(call[m], c) => Open(call'[m], c)
         PROVE  Knows(n, c, filters, relevance[c], call')
  PROVE  After(c)
<1>s. CallsSound(call, relevance, filters)
  BY DEF Shape
<1>1. call[n].pc = "idle" /\ call' = [call EXCEPT ![n] = k]
  BY DEF Enter
<1>2. ~Awaits(call[n], c) /\ ~Open(call[n], c)
  BY <1>1 DEF Awaits, Open
<1>3. call'[n] = k
  BY <1>s, <1>1 DEF CallsSound, AreCalls
<1>4. \A m \in Calls : /\ Awaits(call[m], c) => Awaits(call'[m], c)
                       /\ Open(call[m], c) => Open(call'[m], c)
  BY <1>s, <1>1, <1>2 DEF CallsSound, AreCalls
<1>5. Knows(n, c, filters', relevance[c], call')
  BY <1>3, <1>4
<1>6. QED
  BY <1>1, <1>2, <1>5, ReplacedFrame

\* What a call reads is so when it reads it.
LEMMA EnteringLists ==
  ASSUME Shape, NEW n \in Calls, NEW c \in Cars, Before(c),
         CreateFilter(n) \/ PatchFilter(n) \/ ReadArchived(n)
  PROVE  After(c)
<1>1. CASE CreateFilter(n)
  <2>1. PICK i \in FilterIds \ Stored, f \in Forms :
          /\ Enter(n, Entry("creating", i, f, Activated(f)))
          /\ UNCHANGED <<filters, relevance, parsing>>
    BY <1>1 DEF CreateFilter, Entry
  <2>2. PICK k : k = Entry("creating", i, f, Activated(f))
    OBVIOUS
  <2>3. k.pc = "creating" /\ k.form = f /\ k.cars = Activated(f)
    <3>1. Activated(f) \in SUBSET Cars /\ f \in AnyForm /\ "creating" \in Kinds
      BY DEF Activated, AnyForm, Kinds, OfFilter
    <3>2. QED
      BY <2>2, <3>1, EntryFields
  <2>4. c \in Activated(f) <=> relevance[c] # "none" /\ PatchMatches(f, c) /\ HasYear(c)
    BY MatchesAre DEF Activated, Present
  <2>5. ASSUME call'[n] = k PROVE Knows(n, c, filters, relevance[c], call')
    BY <2>3, <2>4, <2>5 DEF Knows, KnowsMatched, KnowsCovered, KnowsFilter, KnowsRelevance,
      KnowsDecision, Decides, ByVin
  <2>6. QED
    BY EnteredKnowing, <2>1, <2>2, <2>5
<1>2. CASE PatchFilter(n)
  <2> DEFINE cars(i) == {d \in Cars : Present(d) /\ PatchMatches(filters[i], d)}
  <2>1. PICK i \in Stored, f \in Forms :
          /\ Enter(n, Entry("patching", i, f, cars(i)))
          /\ UNCHANGED <<filters, relevance, parsing>>
    BY <1>2 DEF PatchFilter, Entry
  <2>2. PICK k : k = Entry("patching", i, f, cars(i))
    OBVIOUS
  <2>3. k.pc = "patching" /\ k.filter = i /\ k.cars = cars(i)
    <3>1. /\ cars(i) \in SUBSET Cars /\ f \in AnyForm /\ "patching" \in Kinds
          /\ i \in FilterIds \cup {None}
      BY DEF AnyForm, Kinds, OfFilter, Stored
    <3>2. QED
      BY <2>2, <3>1, EntryFields
  <2>4. c \in cars(i) <=> relevance[c] # "none" /\ Covers(filters[i], c)
    BY FilteredIs DEF Present
  <2>5. ASSUME call'[n] = k PROVE Knows(n, c, filters, relevance[c], call')
    BY <2>3, <2>4, <2>5 DEF Knows, KnowsMatched, KnowsCovered, KnowsFilter, KnowsRelevance,
      KnowsDecision, Decides, ByVin
  <2> HIDE DEF cars
  <2>6. QED
    BY EnteredKnowing, <2>1, <2>2, <2>5
<1>3. CASE ReadArchived(n)
  <2> DEFINE cars(i) == {d \in Having("archival", Cars) : DeleteMatches(filters[i], d)}
  <2>1. PICK i \in Stored :
          /\ Enter(n, Entry("reading", i, filters[i], cars(i)))
          /\ UNCHANGED <<filters, relevance, parsing>>
    BY <1>3 DEF ReadArchived, Entry
  <2>2. PICK k : k = Entry("reading", i, filters[i], cars(i))
    OBVIOUS
  <2>3. k.pc = "reading" /\ k.filter = i /\ k.form = filters[i]
    <3>1. /\ cars(i) \in SUBSET Cars /\ filters[i] \in AnyForm /\ "reading" \in Kinds
          /\ i \in FilterIds \cup {None}
      BY FilteredIs DEF AnyForm, Kinds, OfFilter, Having
    <3>2. QED
      BY <2>2, <3>1, EntryFields
  <2>4. Covers(filters[i], c) <=> PatchMatches(filters[i], c)
    BY FilteredIs
  <2>5. ASSUME call'[n] = k PROVE Knows(n, c, filters, relevance[c], call')
    BY <2>3, <2>4, <2>5 DEF Knows, KnowsMatched, KnowsCovered, KnowsFilter, KnowsRelevance,
      KnowsDecision, Decides, ByVin
  <2> HIDE DEF cars
  <2>6. QED
    BY EnteredKnowing, <2>1, <2>2, <2>5
<1>4. QED
  BY <1>1, <1>2, <1>3

\* What a call that comes in has decided for c agrees with the filters, or keeps c
\* as it is, or archives it.
RightlyDecided(k, c) ==
  k.pc \in Decides /\ c \in k.cars \ k.active =>
    \/ k.form[c] = "irrelevant" /\ ~Listed(filters, c)
    \/ k.form[c] \in {"active", "kept"} /\ Listed(filters, c)
    \/ k.form[c] = relevance[c]
    \/ k.form[c] \in {"active", "kept"} /\ relevance[c] = "active"
    \/ k.form[c] = "archival"

\* A call comes in that is about cars; what it has decided is so.
LEMMA DecidedLists ==
  ASSUME Shape, NEW n \in Calls, NEW c \in Cars, Before(c),
         NEW k, Enter(n, k), UNCHANGED <<filters, relevance, parsing>>, k.pc \notin OfFilter,
         RightlyDecided(k, c)
  PROVE  After(c)
<1> SUFFICES ASSUME call'[n] = k, \A m \in Calls : Awaits(call[m], c) => Awaits(call'[m], c),
                    \A m \in Calls : Open(call[m], c) => Open(call'[m], c)
             PROVE  Knows(n, c, filters, relevance[c], call')
  BY EnteredKnowing
<1>a. Awaited(c, call) => Awaited(c, call')
  BY DEF Awaited
<1>o. (\E m \in Calls : Open(call[m], c)) => \E m \in Calls : Open(call'[m], c)
  OBVIOUS
<1>2. OnItsList(c, filters, relevance[c], parsing[c], call)
  BY DEF Before, InLine
<1>3. KnowsDecision(k, c, filters, relevance[c], call')
  <2> SUFFICES ASSUME k.pc \in Decides, c \in k.cars \ k.active
               PROVE  /\ k.form[c] = "irrelevant" /\ Listed(filters, c) => Awaited(c, call')
                      /\ k.form[c] \in {"active", "kept"} /\ ~Listed(filters, c) =>
                           /\ relevance[c] \in {"active", "archival"}
                           /\ \E m \in Calls : Open(call'[m], c)
    BY DEF KnowsDecision
  <2>1. QED
    BY <1>a, <1>o, <1>2 DEF RightlyDecided, OnItsList, Shape, Tables, Rows
<1>4. QED
  BY <1>3 DEF Knows, KnowsMatched, KnowsCovered, KnowsFilter, KnowsRelevance, OfFilter

\* An import decides from the filters; what it decides is so, but for the mileage.
LEMMA ReadFiltersLists ==
  ASSUME Shape, NEW n \in Calls, NEW c \in Cars, Before(c), ReadFilters(n)
  PROVE  After(c)
<1> DEFINE judged(lots, again) == Having("none", lots) \cup again
           Decided(lots, again, d) ==
             IF d \notin judged(lots, again) THEN relevance[d]
             ELSE IF Accepted(d) THEN "active" ELSE "irrelevant"
           form(lots, again) == [d \in lots |-> Decided(lots, again, d)]
           free(lots, again) == {d \in judged(lots, again) : Accepted(d) /\ ~Filtered(d)}
<1>p. PICK lots \in SUBSET Cars \ {{}} : \E again \in SUBSET Having("archival", lots) :
        /\ \A d \in judged(lots, again) : Accepted(d) \/ ~Undecidable(d)
        /\ Enter(n, CarsEntry("importing", lots, form(lots, again), free(lots, again)))
        /\ UNCHANGED <<filters, relevance, parsing>>
  BY DEF ReadFilters, CarsEntry
<1>1. PICK again \in SUBSET Having("archival", lots) :
        /\ \A d \in judged(lots, again) : Accepted(d) \/ ~Undecidable(d)
        /\ Enter(n, CarsEntry("importing", lots, form(lots, again), free(lots, again)))
        /\ UNCHANGED <<filters, relevance, parsing>>
  BY <1>p
<1>2. PICK k : k = CarsEntry("importing", lots, form(lots, again), free(lots, again))
  OBVIOUS
<1>3. Shape' /\ k.pc = "importing" /\ k.cars = lots /\ k.form = form(lots, again)
      /\ k.active = free(lots, again)
  <2>1. free(lots, again) \in SUBSET Cars /\ "importing" \in Kinds
    BY DEF Having, Kinds, ByVin
  <2>2. \A d \in lots : Decided(lots, again, d) \in Decisions
    BY DEF Having, Decisions, Rows, Shape, Tables
  <2>3. form(lots, again) \in AnyForm
    BY <2>2 DEF AnyForm
  <2> HIDE DEF form, free
  <2>4. QED
    BY <1>2, <2>1, <2>3, CarsEntryFields, ReadFiltersStep
<1>4. ASSUME c \in lots, c \in judged(lots, again), c \notin free(lots, again)
      PROVE  /\ k.form[c] = "active" => Listed(filters, c)
             /\ k.form[c] = "irrelevant" => ~Listed(filters, c)
             /\ k.form[c] \in {"active", "irrelevant"}
  <2>1. k.form[c] = IF Accepted(c) THEN "active" ELSE "irrelevant"
    BY <1>3, <1>4
  <2>2. Accepted(c) => Filtered(c)
    BY <1>4
  <2>3. ~Accepted(c) => ~Undecidable(c)
    BY <1>1, <1>4
  <2>4. ~Accepted(c) => ~Filtered(c)
    BY <2>3 DEF Accepted, Accepts, Undecidable, Raises, Filtered, Matches
  <2>5. QED
    BY <2>1, <2>2, <2>4, FilteredIs
<1>5. c \in lots /\ c \notin judged(lots, again) => k.form[c] = relevance[c]
  BY <1>3
<1> HIDE DEF judged, form, free
<1>6. k.pc \notin OfFilter
  BY <1>3 DEF OfFilter
<1>7. RightlyDecided(k, c)
  BY <1>3, <1>4, <1>5 DEF RightlyDecided
<1>8. Enter(n, k) /\ UNCHANGED <<filters, relevance, parsing>>
  BY <1>1, <1>2
<1>9. QED
  BY <1>6, <1>7, <1>8, DecidedLists

\* An entry by hand, and the sweep.
LEMMA OtherReadsLists ==
  ASSUME Shape, NEW n \in Calls, NEW c \in Cars, Before(c),
         UpsertRead(n) \/ SweepRead(n) \/ RefreshRead(n)
  PROVE  After(c)
<1>1. CASE UpsertRead(n)
  <2> DEFINE p(d) == IF Present(d) THEN "updating" ELSE "inserting"
             v(d) == IF relevance[d] = "active" THEN "kept" ELSE "active"
             free(d) == {x \in {d} : ~Filtered(x)}
  <2>1. PICK d \in Cars : /\ Enter(n, CarsEntry(p(d), {d}, [x \in {d} |-> v(d)], free(d)))
                          /\ UNCHANGED <<filters, relevance, parsing>>
    BY <1>1 DEF UpsertRead, CarsEntry
  <2>2. PICK form : form = [x \in {d} |-> v(d)]
    OBVIOUS
  <2>3. PICK k : k = CarsEntry(p(d), {d}, form, free(d))
    OBVIOUS
  <2>4. /\ v(d) \in Decisions /\ free(d) \in SUBSET Cars /\ p(d) \in {"updating", "inserting"}
        /\ v(d) = "kept" => relevance[d] = "active"
        /\ d \notin free(d) => Filtered(d)
        /\ v(d) \in {"active", "kept"}
    BY DEF Decisions, Rows
  <2> HIDE DEF p, v, free
  <2>5. form \in AnyForm /\ form[d] = v(d)
    BY <2>2, <2>4, OneDecision
  <2>6. p(d) \in Kinds /\ p(d) \notin OfFilter
    BY <2>4 DEF Kinds, ByVin, OfFilter
  <2>7. k.pc = p(d) /\ k.cars = {d} /\ k.form = form /\ k.active = free(d)
    BY <2>3, <2>4, <2>5, <2>6, CarsEntryFields
  <2>8. c = d /\ c \notin free(d) => Listed(filters, c)
    BY <2>4, FilteredIs
  <2>9. RightlyDecided(k, c)
    BY <2>4, <2>5, <2>7, <2>8 DEF RightlyDecided
  <2>10. Enter(n, k) /\ UNCHANGED <<filters, relevance, parsing>> /\ k.pc \notin OfFilter
    BY <2>1, <2>2, <2>3, <2>6, <2>7
  <2>11. QED
    BY <2>9, <2>10, DecidedLists
<1>2. CASE SweepRead(n)
  <2>1. PICK cars \in SUBSET Having("irrelevant", Cars) :
          /\ Enter(n, CarsEntry("sweeping", cars, None, {}))
          /\ UNCHANGED <<filters, relevance, parsing>>
    <3>1. PICK cars \in SUBSET Having("irrelevant", Cars) :
            /\ Enter(n, [Idle EXCEPT !.pc = "sweeping", !.cars = cars])
            /\ UNCHANGED <<filters, relevance, parsing>>
      BY <1>2 DEF SweepRead
    <3>2. [Idle EXCEPT !.pc = "sweeping", !.cars = cars] = CarsEntry("sweeping", cars, None, {})
      BY CarsEntryForms
    <3>3. QED
      BY <3>1, <3>2
  <2>2. PICK k : k = CarsEntry("sweeping", cars, None, {})
    OBVIOUS
  <2>3. cars \in SUBSET Cars /\ "sweeping" \in Kinds /\ None \in AnyForm
    BY <2>1 DEF Having, Kinds, AnyForm
  <2>4. k.pc = "sweeping"
    BY <2>2, <2>3, CarsEntryFields
  <2>5. k.pc \notin OfFilter /\ k.pc \notin Decides
    BY <2>4 DEF OfFilter, Decides, ByVin
  <2>6. QED
    BY <2>1, <2>2, <2>5, DecidedLists DEF RightlyDecided
<1>3. CASE RefreshRead(n)
  <2>1. PICK d \in Having("active", Cars), answer \in {"active", "archival"} :
          /\ Enter(n, CarsEntry("refreshing", {d}, [x \in {d} |-> answer], {}))
          /\ UNCHANGED <<filters, relevance, parsing>>
    <3>1. PICK d \in Having("active", Cars), answer \in {"active", "archival"} :
            /\ Enter(n, [Idle EXCEPT !.pc = "refreshing", !.cars = {d},
                                     !.form = [x \in {d} |-> answer]])
            /\ UNCHANGED <<filters, relevance, parsing>>
      BY <1>3 DEF RefreshRead
    <3>2. [Idle EXCEPT !.pc = "refreshing", !.cars = {d}, !.form = [x \in {d} |-> answer]]
            = CarsEntry("refreshing", {d}, [x \in {d} |-> answer], {})
      BY CarsEntryForms
    <3>3. Enter(n, CarsEntry("refreshing", {d}, [x \in {d} |-> answer], {}))
      BY <3>1, <3>2
    <3>4. QED
      BY <3>1, <3>3
  <2>2. PICK form : form = [x \in {d} |-> answer]
    OBVIOUS
  <2>3. PICK k : k = CarsEntry("refreshing", {d}, form, {})
    OBVIOUS
  <2>4. d \in Cars /\ relevance[d] = "active" /\ answer \in Decisions
    BY DEF Having, Decisions, Rows
  <2>5. form \in AnyForm /\ form[d] = answer
    BY <2>2, <2>4, OneDecision
  <2>6. k.pc = "refreshing" /\ k.cars = {d} /\ k.form = form
    BY <2>3, <2>4, <2>5, CarsEntryFields DEF Kinds, ByVin
  <2>7. k.pc \notin OfFilter
    BY <2>6 DEF OfFilter
  <2>8. RightlyDecided(k, c)
    BY <2>4, <2>5, <2>6 DEF RightlyDecided
  <2>9. Enter(n, k) /\ UNCHANGED <<filters, relevance, parsing>>
    BY <2>1, <2>2, <2>3
  <2>10. QED
    BY <2>7, <2>8, <2>9, DecidedLists
<1>4. QED
  BY <1>1, <1>2, <1>3

\* The first commit of a patch: the filter is the new one, the cars are as before.
LEMMA CommitPatchLists ==
  ASSUME Shape, Shape', NEW n \in Calls, CommitPatch(n), NEW c \in Cars, Before(c),
         c \notin excused'
  PROVE  After(c)
<1> DEFINE k == call[n]
           i == call[n].filter
<1>s. /\ CallsSound(call, relevance, filters) /\ Tables
      /\ \A m \in Calls : WellFormed(call[m])
      /\ \A m \in Calls : WellFormed(call'[m])
  BY DEF Shape, CallsSound
<1>1. /\ k.pc = "patching" /\ i \in Stored
      /\ filters' = [filters EXCEPT ![i] = k.form]
      /\ call' = [call EXCEPT ![n] = [k EXCEPT !.pc = "patched"]]
      /\ UNCHANGED <<relevance, parsing>> /\ c \notin Contended(n)
  BY DEF CommitPatch, Become
<1>2. /\ k.form \in Forms /\ k.form # None /\ i \in FilterIds
  BY <1>s, <1>1, NoneIsNoRow DEF WellFormed, OfFilter
<1>3. /\ call'[n].pc = "patched" /\ call'[n].filter = i /\ call'[n].form = k.form
      /\ call'[n].cars = k.cars /\ call'[n].active = k.active
      /\ \A m \in Calls \ {n} : call'[m] = call[m]
  BY <1>s, <1>1 DEF CallsSound, AreCalls, WellFormed, CallRecord
<1>4. /\ Covers(filters'[i], c) <=> PatchMatches(k.form, c)
      /\ \A j \in FilterIds \ {i} : filters'[j] = filters[j]
      /\ Covers(filters[i], c) <=> PatchMatches(filters[i], c)
  BY <1>s, <1>1, <1>2, FilteredIs DEF Covers, Tables
<1>5. CASE ~Near(k, filters, c)
  <2>1. /\ c \notin k.cars /\ ~PatchMatches(k.form, c) /\ ~Covers(filters[i], c)
    BY <1>1, <1>5 DEF Near, OfFilter
  <2>2. ~Near(call'[n], filters', c)
    BY <1>3, <1>4, <2>1 DEF Near
  <2>3. Knows(n, c, filters', relevance[c], call')
    BY <1>s, <2>2, FarKnows
  <2>4. \A j \in FilterIds : Covers(filters'[j], c) <=> Covers(filters[j], c)
    BY <1>4, <2>1
  <2>5. ~Awaits(call[n], c) /\ ~Open(call[n], c)
    BY <1>1 DEF Awaits, Open
  <2>6. PICK d : d = [k EXCEPT !.pc = "patched"]
    OBVIOUS
  <2>7. QED
    BY <1>1, <2>3, <2>4, <2>5, <2>6, ReplacedFrame
<1>6. CASE Near(k, filters, c)
  <2>1. parsing[c] # "running" /\ \A m \in Calls \ {n} : ~Near(call[m], filters, c)
    BY <1>1, <1>6, ContendedAre
  <2>2. /\ relevance[c] = "irrelevant" => ~Listed(filters, c)
        /\ relevance[c] = "active" => Listed(filters, c)
        /\ ~AwaitedElsewhere(n, c, call)
    BY <1>1, <2>1, KnownAlone
  <2>3. c \in k.cars <=> relevance[c] # "none" /\ Covers(filters[i], c)
    BY <1>1, <2>2 DEF Before, InLine, Knows, KnowsCovered
  <2>4. ~PatchMatches(k.form, c) => (Listed(filters', c) => Listed(filters, c))
    BY <1>4 DEF Listed
  <2>5. ~Covers(filters[i], c) => (Listed(filters, c) => Listed(filters', c))
    BY <1>4 DEF Listed
  <2>6. OnItsList(c, filters', relevance[c], parsing[c], call')
    <3>1. PatchMatches(k.form, c) => Awaited(c, call')
      BY <1>3 DEF Awaited, Awaits
    <3>2. PatchMatches(k.form, c) \/ c \in k.cars => \E m \in Calls : Open(call'[m], c)
      BY <1>3 DEF Open
    <3>3. relevance[c] = "active" /\ ~Listed(filters', c) =>
            PatchMatches(k.form, c) \/ c \in k.cars
      BY <2>2, <2>3, <2>5
    <3>4. QED
      BY <2>1, <2>2, <2>4, <3>1, <3>2, <3>3 DEF OnItsList
  <2>7. Knows(n, c, filters', relevance[c], call')
    <3>1. c \in k.cars /\ HasYear(c) => Listed(filters, c)
      BY <1>2, <2>3 DEF Listed
    <3>2. QED
      BY <1>3, <1>4, <2>2, <3>1 DEF Knows, KnowsMatched, KnowsCovered, KnowsFilter,
        KnowsRelevance, KnowsDecision, Decides, ByVin
  <2>8. ASSUME NEW m \in Calls \ {n} PROVE Knows(m, c, filters', relevance[c], call')
    <3>1. call'[m] = call[m] /\ ~Near(call[m], filters, c) /\ WellFormed(call[m])
      BY <1>s, <1>3, <2>1
    <3>2. CASE call[m].filter # i \/ ~PatchMatches(k.form, c)
      <4>1. ~Near(call'[m], filters', c)
        BY <1>4, <3>1, <3>2 DEF Near, WellFormed
      <4>2. QED
        BY <1>s, <4>1, FarKnows
    <3>3. CASE call[m].filter = i /\ PatchMatches(k.form, c)
      <4>1. AwaitedElsewhere(m, c, call')
        BY <1>3, <3>3 DEF AwaitedElsewhere, Awaits
      <4>2. /\ c \notin call'[m].cars
            /\ call'[m].pc \in OfFilter => ~PatchMatches(call'[m].form, c)
        BY <1>2, <3>1, <3>3, NoneIsNoRow DEF Near, WellFormed
      <4>3. call'[m].pc = "deleting" => ~DeleteMatches(call'[m].form, c)
        BY <1>s, <4>2, MatchesAre DEF WellFormed, OfFilter
      <4>4. QED
        BY <4>1, <4>2, <4>3 DEF Knows, KnowsMatched, KnowsCovered, KnowsFilter,
          KnowsRelevance, KnowsDecision, OfFilter
    <3>4. QED
      BY <3>2, <3>3
  <2>9. InLine(c, filters', relevance[c], parsing[c], call')
    BY <2>6, <2>7, <2>8 DEF InLine
  <2>10. QED
    BY <1>1, <2>9 DEF After
<1>7. QED
  BY <1>5, <1>6

\* The second look of a deletion, at the active cars.
LEMMA DeleteArchivedLists ==
  ASSUME Shape, NEW n \in Calls, DeleteArchived(n), NEW c \in Cars, Before(c)
  PROVE  After(c)
<1> DEFINE k == call[n]
           active == {d \in Having("active", Cars) \ k.cars : DeleteMatches(k.form, d)}
<1>s. CallsSound(call, relevance, filters) /\ WellFormed(k)
  BY DEF Shape, CallsSound
<1>1. PICK d : d = [k EXCEPT !.pc = "deleting", !.active = active]
  OBVIOUS
<1>2. /\ k.pc = "reading" /\ call' = [call EXCEPT ![n] = d]
      /\ UNCHANGED <<filters, relevance, parsing>>
  BY <1>1 DEF DeleteArchived, Become
<1>3. /\ d.pc = "deleting" /\ d.filter = k.filter /\ d.form = k.form /\ d.cars = k.cars
      /\ d.active = active
  BY <1>s, <1>1 DEF WellFormed, CallRecord
<1>4. call'[n] = d /\ \A m \in Calls \ {n} : call'[m] = call[m]
  BY <1>s, <1>2 DEF CallsSound, AreCalls
<1>5. KnowsFilter(n, c, filters, call')
  <2>1. KnowsFilter(n, c, filters, call)
    BY DEF Before, InLine, Knows
  <2>2. AwaitedElsewhere(n, c, call) => AwaitedElsewhere(n, c, call')
    BY <1>4 DEF AwaitedElsewhere
  <2>3. QED
    BY <1>2, <1>3, <1>4, <2>1, <2>2 DEF KnowsFilter
<1>6. KnowsRelevance(d, c, relevance[c])
  BY <1>3 DEF KnowsRelevance, Having
<1> HIDE DEF active
<1>7. Knows(n, c, filters, relevance[c], call')
  BY <1>3, <1>4, <1>5, <1>6 DEF Knows, KnowsMatched, KnowsCovered, KnowsDecision, Decides, ByVin
<1>8. ~Awaits(call[n], c) /\ ~Open(call[n], c)
  BY <1>2 DEF Awaits, Open
<1>9. Knows(n, c, filters', relevance[c], call')
  BY <1>2, <1>7
<1>10. QED
  BY <1>2, <1>8, <1>9, ReplacedFrame

\* A creation commits: what it has found is on the list.
LEMMA CommitFilterLists ==
  ASSUME Shape, Shape', NEW n \in Calls, CommitFilter(n), NEW c \in Cars,
         c \notin excused => Before(c), c \notin excused'
  PROVE  After(c)
<1> DEFINE k == call[n]
           i == call[n].filter
<1>s. /\ CallsSound(call, relevance, filters) /\ Tables /\ WellFormed(k)
      /\ OwnId(n, call, filters)
  BY DEF Shape, CallsSound
<1>1. /\ k.pc = "creating" /\ filters' = [filters EXCEPT ![i] = k.form]
      /\ SetRelevance(k.cars, {}, {}) /\ Finish(n, {}) /\ parsing' = parsing
      /\ c \notin Contended(n) /\ (c \in k.cars \/ Before(c))
  BY DEF CommitFilter
<1>2. /\ k.form \in Forms /\ k.form # None /\ i \in FilterIds /\ filters[i] = None
      /\ \A m \in Calls \ {n} : call[m].filter # i
  BY <1>s, <1>1, NoneIsNoRow DEF WellFormed, OfFilter, OwnId
<1>3. /\ Covers(filters'[i], c) <=> PatchMatches(k.form, c)
      /\ \A j \in FilterIds \ {i} : filters'[j] = filters[j]
      /\ ~Covers(filters[i], c)
  BY <1>s, <1>1, <1>2 DEF Covers, Tables
<1>4. /\ c \in k.cars => relevance'[c] = "active" /\ Matches(k.form, c)
      /\ c \notin k.cars => relevance'[c] = relevance[c]
  BY <1>s, <1>1, RelevanceSet DEF WellFormed
<1>5. CASE ~Near(k, filters, c)
  <2>1. c \notin k.cars /\ ~PatchMatches(k.form, c)
    BY <1>1, <1>5 DEF Near, OfFilter
  <2>2. \A j \in FilterIds : Covers(filters'[j], c) <=> Covers(filters[j], c)
    BY <1>3, <2>1
  <2>3. ~Awaits(call[n], c) /\ ~Open(call[n], c)
    BY <1>1 DEF Awaits, Open
  <2>4. QED
    BY <1>1, <1>4, <2>1, <2>2, <2>3, FinishedFar
<1>6. CASE Near(k, filters, c)
  <2>1. parsing[c] # "running" /\ \A m \in Calls \ {n} : ~Near(call[m], filters, c)
    BY <1>1, <1>6, ContendedAre
  <2>2. \A m \in Calls \ {n} :
          call[m].filter \in FilterIds /\ Covers(filters'[call[m].filter], c) =>
            Covers(filters[call[m].filter], c)
    BY <1>2, <1>3
  <2>3. CASE c \in k.cars
    <3>1. Listed(filters', c)
      BY <1>2, <1>3, <1>4, <2>3, MatchesAre DEF Listed
    <3>2. QED
      BY <1>1, <1>4, <2>1, <2>2, <2>3, <3>1, FinishedAlone
  <2>4. CASE c \notin k.cars
    <3>1. /\ relevance[c] = "irrelevant" => ~Listed(filters, c)
          /\ relevance[c] = "active" => Listed(filters, c)
      BY <1>1, <2>1, <2>4, KnownAlone
    <3>2. KnowsMatched(k, c, relevance[c])
      BY <1>1, <2>4 DEF Before, InLine, Knows
    <3>3. relevance[c] # "none" => (Listed(filters', c) <=> Listed(filters, c))
      BY <1>1, <1>3, <2>4, <3>2 DEF KnowsMatched, Listed
    <3>4. QED
      BY <1>1, <1>4, <2>1, <2>2, <2>4, <3>1, <3>3, FinishedAlone
  <2>5. QED
    BY <2>3, <2>4
<1>7. QED
  BY <1>5, <1>6

\* The second commit of a patch brings its cars in line with the filter.
LEMMA ApplyPatchLists ==
  ASSUME Shape, Shape', NEW n \in Calls, ApplyPatch(n), NEW c \in Cars, Before(c),
         c \notin excused'
  PROVE  After(c)
<1> DEFINE k == call[n]
           i == call[n].filter
           matched == {d \in Cars : Present(d) /\ PatchMatches(filters[i], d)}
           lost == Loses(k, matched)
           gone == GoneFromArchive(lost)
           on == Having("irrelevant", matched \ k.cars)
           off == Having("active", lost)
<1>s. /\ CallsSound(call, relevance, filters) /\ Tables /\ WellFormed(k)
      /\ RowsThere(k, relevance) /\ k.cars \subseteq Cars
  BY DEF Shape, CallsSound, WellFormed, CallRecord
<1>1. /\ k.pc = "patched" /\ i \in Stored /\ filters' = filters
      /\ SetRelevance(on, off, gone) /\ Finish(n, gone)
      /\ parsing' = [d \in Cars |-> IF d \in gone THEN "none" ELSE parsing[d]]
      /\ c \notin Contended(n) /\ c \notin lost \cap Shared(i)
      /\ c \in matched => Matches(filters[i], c)
  BY DEF ApplyPatch
<1>2. /\ c \in matched <=> relevance[c] # "none" /\ PatchMatches(filters[i], c)
      /\ c \in lost <=> c \in k.cars /\ c \notin matched
      /\ c \in gone <=> c \in lost /\ relevance[c] = "archival"
      /\ c \in on <=> c \in matched /\ c \notin k.cars /\ relevance[c] = "irrelevant"
      /\ c \in off <=> c \in lost /\ relevance[c] = "active"
      /\ on \cap off = {} /\ on \cap gone = {} /\ off \cap gone = {}
  BY <1>s DEF Loses, GoneFromArchive, Having, Present
<1>i. i \in FilterIds /\ filters[i] \in Forms /\ (Covers(filters[i], c) <=> PatchMatches(filters[i], c))
  BY <1>1, FilteredIs
<1>p. /\ c \in k.cars => relevance[c] # "none"
      /\ c \in gone => parsing'[c] = "none"
      /\ c \notin gone => parsing'[c] = parsing[c]
  BY <1>s, <1>1 DEF RowsThere, ByVin
<1>h. c \in lost => \A j \in FilterIds \ {i} : ~(HasYear(c) /\ Covers(filters[j], c))
  <2> SUFFICES ASSUME c \in lost, NEW j \in FilterIds \ {i}, HasYear(c), Covers(filters[j], c)
               PROVE  FALSE
    OBVIOUS
  <2>1. j \in Stored /\ filters[j] \in Forms
    BY <1>s DEF Covers, Stored, Tables
  <2>2. Matches(filters[j], c)
    BY <2>1, MatchesAre DEF Covers
  <2>3. c \in Shared(i)
    BY <2>1, <2>2 DEF Shared
  <2>4. QED
    BY <1>1, <2>3
<1> HIDE DEF matched, lost, gone, on, off
<1>3. /\ c \in gone => relevance'[c] = "none"
      /\ c \in on => relevance'[c] = "active"
      /\ c \in off => relevance'[c] = "irrelevant"
      /\ c \notin gone \cup on \cup off => relevance'[c] = relevance[c]
  BY <1>1, <1>2, RelevanceSet
<1>4. CASE ~Near(k, filters, c)
  <2>1. c \notin k.cars /\ ~PatchMatches(filters[i], c)
    BY <1>1, <1>4, <1>i DEF Near, OfFilter
  <2>2. c \notin gone /\ relevance'[c] = relevance[c] /\ parsing'[c] = parsing[c]
    BY <1>2, <1>3, <1>p, <2>1
  <2>3. ~Awaits(call[n], c) /\ ~Open(call[n], c)
    BY <1>s, <1>4, FarKnows
  <2>4. c \in Cars \ gone
    BY <2>2
  <2>5. \A j \in FilterIds : Covers(filters'[j], c) <=> Covers(filters[j], c)
    BY <1>1
  <2>6. QED
    BY <1>1, <2>2, <2>3, <2>4, <2>5, FinishedFar
<1>5. CASE Near(k, filters, c)
  <2>1. parsing[c] # "running" /\ \A m \in Calls \ {n} : ~Near(call[m], filters, c)
    BY <1>1, <1>5, ContendedAre
  <2>2. ~AwaitedElsewhere(n, c, call)
    BY <2>1, KnownAlone
  <2>3. PatchMatches(k.form, c) <=> PatchMatches(filters[i], c)
    BY <1>1, <1>i, <2>2 DEF Before, InLine, Knows, KnowsFilter
  <2>4. c \in k.cars /\ HasYear(c) => relevance[c] # "irrelevant"
    BY <1>1 DEF Before, InLine, Knows, KnowsRelevance
  <2>5. /\ relevance'[c] = "irrelevant" => ~Listed(filters, c)
        /\ relevance'[c] = "active" => Listed(filters, c)
    <3>1. CASE c \in matched
      <4>1. Listed(filters, c)
        BY <1>1, <1>i, <3>1, MatchesAre DEF Listed
      <4>2. relevance'[c] # "irrelevant"
        BY <1>2, <1>3, <2>4, <3>1, <4>1 DEF Listed
      <4>3. QED
        BY <4>1, <4>2
    <3>2. CASE c \in lost
      <4>1. ~PatchMatches(filters[i], c)
        BY <1>2, <1>p, <3>2
      <4>2. ~Listed(filters, c)
        BY <1>h, <1>i, <3>2, <4>1 DEF Listed
      <4>3. relevance'[c] # "active"
        BY <1>2, <1>3, <3>2
      <4>4. QED
        BY <4>2, <4>3
    <3>3. CASE c \notin matched /\ c \notin lost
      <4>1. PatchMatches(filters[i], c)
        BY <1>1, <1>2, <1>5, <1>i, <2>3, <3>3 DEF Near
      <4>2. relevance'[c] = "none"
        BY <1>2, <1>3, <3>3, <4>1
      <4>3. QED
        BY <4>2
    <3>4. QED
      BY <3>1, <3>2, <3>3
  <2>6. parsing'[c] # "running"
    BY <1>p, <2>1
  <2>7. QED
    BY <1>1, <2>1, <2>5, <2>6, FinishedAlone
<1>6. QED
  BY <1>4, <1>5

\* A patch whose filter is gone ends; its cars are excused.
LEMMA PatchRefusedLists ==
  ASSUME Shape, NEW n \in Calls, PatchRefused(n), NEW c \in Cars, Before(c),
         c \notin excused'
  PROVE  After(c)
<1> DEFINE k == call[n]
<1>s. CallsSound(call, relevance, filters) /\ WellFormed(k)
  BY DEF Shape, CallsSound
<1>1. /\ k.pc \in {"patching", "patched"} /\ k.filter \notin Stored
      /\ Finish(n, {}) /\ UNCHANGED <<filters, relevance, parsing>>
      /\ c \notin Contended(n) /\ c \notin k.cars
  BY DEF PatchRefused
<1>2. ~Covers(filters[k.filter], c)
  BY <1>s, <1>1 DEF WellFormed, OfFilter, Stored, Covers
<1>3. ~(k.pc = "patched" /\ PatchMatches(k.form, c))
  <2> SUFFICES ASSUME k.pc = "patched", PatchMatches(k.form, c) PROVE FALSE
    OBVIOUS
  <2>1. Near(k, filters, c)
    BY DEF Near, OfFilter
  <2>2. \A m \in Calls \ {n} : ~Near(call[m], filters, c)
    BY <1>1, <2>1, ContendedAre
  <2>3. ~AwaitedElsewhere(n, c, call)
    BY <2>2, KnownAlone
  <2>4. KnowsFilter(n, c, filters, call)
    BY DEF Before, InLine, Knows
  <2>5. QED
    BY <1>2, <2>3, <2>4 DEF KnowsFilter
<1>4. ~Awaits(call[n], c) /\ ~Open(call[n], c)
  BY <1>1, <1>3 DEF Awaits, Open
<1>5. QED
  BY <1>1, <1>4, FinishedFar

\* A deletion commits: what no other filter matches leaves the list.
LEMMA DeleteFilterLists ==
  ASSUME Shape, Shape', NEW n \in Calls, DeleteFilter(n), NEW c \in Cars, Before(c),
         c \notin excused'
  PROVE  After(c)
<1> DEFINE k == call[n]
           i == call[n].filter
<1>s. /\ CallsSound(call, relevance, filters) /\ Tables /\ WellFormed(k)
  BY DEF Shape, CallsSound
<1>1. /\ k.pc = "deleting" /\ filters' = [filters EXCEPT ![i] = None]
      /\ SetRelevance({}, k.active, k.cars) /\ Finish(n, k.cars)
      /\ parsing' = [d \in Cars |-> IF d \in k.cars THEN "none" ELSE parsing[d]]
      /\ c \notin Contended(n) /\ c \notin k.active \cap Shared(i)
      /\ ~(k.form.model = None /\ Matches(k.form, c))
  BY DEF DeleteFilter
<1>2. /\ k.form \in Forms /\ i \in FilterIds /\ k.cars \cap k.active = {}
      /\ c \in k.active => DeleteMatches(k.form, c)
  BY <1>s, <1>1 DEF WellFormed, OfFilter
<1>3. /\ ~Covers(filters'[i], c)
      /\ \A j \in FilterIds \ {i} : filters'[j] = filters[j]
  BY <1>s, <1>1, <1>2 DEF Covers, Tables
<1>4. /\ c \in k.cars => relevance'[c] = "none"
      /\ c \in k.active => relevance'[c] = "irrelevant"
      /\ c \notin k.cars \cup k.active => relevance'[c] = relevance[c]
  BY <1>1, <1>2, RelevanceSet
<1>5. /\ c \in k.cars => parsing'[c] = "none"
      /\ c \notin k.cars => parsing'[c] = parsing[c]
  BY <1>1
<1>6. CASE ~Near(k, filters, c)
  <2>1. c \notin k.cars /\ ~PatchMatches(k.form, c) /\ ~Covers(filters[i], c)
    BY <1>1, <1>6 DEF Near, OfFilter
  <2>2. c \notin k.active
    BY <1>2, <2>1, MatchesAre
  <2>3. c \in Cars \ k.cars /\ relevance'[c] = relevance[c] /\ parsing'[c] = parsing[c]
    BY <1>4, <1>5, <2>1, <2>2
  <2>4. \A j \in FilterIds : Covers(filters'[j], c) <=> Covers(filters[j], c)
    BY <1>3, <2>1
  <2>5. ~Awaits(call[n], c) /\ ~Open(call[n], c)
    BY <1>1 DEF Awaits, Open
  <2>6. QED
    BY <1>1, <2>3, <2>4, <2>5, FinishedFar
<1>7. CASE Near(k, filters, c)
  <2>1. parsing[c] # "running" /\ \A m \in Calls \ {n} : ~Near(call[m], filters, c)
    BY <1>1, <1>7, ContendedAre
  <2>2. /\ relevance[c] = "irrelevant" => ~Listed(filters, c)
        /\ relevance[c] = "active" => Listed(filters, c)
        /\ ~AwaitedElsewhere(n, c, call)
    BY <1>1, <2>1, KnownAlone
  <2>3. PatchMatches(k.form, c) <=> Covers(filters[i], c)
    BY <1>1, <2>2 DEF Before, InLine, Knows, KnowsFilter
  <2>4. DeleteMatches(k.form, c) /\ relevance[c] = "active" => c \in k.active \cup k.cars
    BY <1>1 DEF Before, InLine, Knows, KnowsRelevance
  <2>5. /\ relevance'[c] = "irrelevant" => ~Listed(filters', c)
        /\ relevance'[c] = "active" => Listed(filters', c)
    <3>1. CASE c \in k.cars
      BY <1>4, <3>1
    <3>2. CASE c \in k.active
      <4> SUFFICES ASSUME Listed(filters', c) PROVE FALSE
        BY <1>4, <3>2
      <4>1. PICK j \in FilterIds : HasYear(c) /\ Covers(filters'[j], c)
        BY DEF Listed
      <4>2. j # i /\ Covers(filters[j], c)
        BY <1>3, <4>1
      <4>3. j \in Stored /\ filters[j] \in Forms
        BY <1>s, <4>2 DEF Covers, Stored, Tables
      <4>4. Matches(filters[j], c)
        BY <4>1, <4>2, <4>3, MatchesAre DEF Covers
      <4>5. c \in Shared(i)
        BY <4>2, <4>3, <4>4 DEF Shared
      <4>6. QED
        BY <1>1, <3>2, <4>5
    <3>3. CASE c \notin k.cars \cup k.active /\ Matches(k.form, c)
      <4>1. DeleteMatches(k.form, c)
        BY <1>1, <1>2, <3>3, MatchesAre
      <4>2. Listed(filters, c)
        BY <1>2, <2>3, <3>3, MatchesAre DEF Listed
      <4>3. QED
        BY <1>4, <2>2, <2>4, <3>3, <4>1, <4>2
    <3>4. CASE c \notin k.cars \cup k.active /\ ~Matches(k.form, c)
      <4>1. ~HasYear(c) \/ ~Covers(filters[i], c)
        BY <1>2, <2>3, <3>4, MatchesAre
      <4>2. Listed(filters', c) <=> Listed(filters, c)
        BY <1>3, <4>1 DEF Listed
      <4>3. QED
        BY <1>4, <2>2, <3>4, <4>2
    <3>5. QED
      BY <3>1, <3>2, <3>3, <3>4
  <2>6. parsing'[c] # "running"
    BY <1>5, <2>1
  <2>7. \A m \in Calls \ {n} :
          call[m].filter \in FilterIds /\ Covers(filters'[call[m].filter], c) =>
            Covers(filters[call[m].filter], c)
    BY <1>3
  <2>8. QED
    BY <1>1, <2>1, <2>5, <2>6, <2>7, FinishedAlone
<1>8. QED
  BY <1>6, <1>7

\* A call writes what it has decided.
LEMMA StoringLists ==
  ASSUME Shape, Shape', NEW n \in Calls, StoreLots(n) \/ UpsertWrite(n) \/ Refresh(n),
         NEW c \in Cars, Before(c), c \notin excused'
  PROVE  After(c)
<1> DEFINE k == call[n]
<1>s. WellFormed(k)
  BY DEF Shape, CallsSound
<1>1. /\ k.pc \in Decides /\ Finish(n, {}) /\ filters' = filters /\ c \notin Contended(n)
      /\ relevance'[c] \in {relevance[c], k.form[c]} /\ parsing'[c] \in {parsing[c], "running"}
      /\ c \notin k.cars => relevance'[c] = relevance[c] /\ parsing'[c] = parsing[c]
      /\ relevance'[c] # relevance[c] => relevance'[c] = k.form[c]
      /\ parsing'[c] # parsing[c] => k.form[c] \in {"active", "kept"}
      /\ c \notin k.active
  <2>1. CASE StoreLots(n)
    BY <2>1 DEF StoreLots, Store, Decides, ByVin
  <2>2. CASE UpsertWrite(n)
    <3>1. c \in k.cars => k.form[c] \in {"active", "kept"}
      BY <1>s, <2>2 DEF WellFormed, UpsertWrite
    <3>2. QED
      BY <2>2, <3>1 DEF UpsertWrite, Store, Decides, ByVin
  <2>3. CASE Refresh(n)
    <3>1. c \notin k.active
      BY <1>s, <2>3 DEF WellFormed, Refresh
    <3>2. QED
      BY <2>3, <3>1 DEF Refresh, Store, Decides, ByVin
  <2>4. QED
    BY <2>1, <2>2, <2>3
<1>2. CASE c \notin k.cars
  <2>1. ~Awaits(call[n], c) /\ ~Open(call[n], c)
    BY <1>1 DEF Awaits, Open, Decides, ByVin
  <2>2. QED
    BY <1>1, <1>2, <2>1, FinishedFar
<1>3. CASE c \in k.cars
  <2>1. Near(k, filters, c) /\ k.pc # "patched"
    BY <1>1, <1>3 DEF Near, Decides, ByVin
  <2>2. parsing[c] # "running" /\ \A m \in Calls \ {n} : ~Near(call[m], filters, c)
    BY <1>1, <2>1, ContendedAre
  <2>3. /\ ~Awaited(c, call) /\ ~\E m \in Calls : Open(call[m], c)
        /\ relevance[c] = "irrelevant" => ~Listed(filters, c)
        /\ relevance[c] = "active" => Listed(filters, c)
    BY <2>1, <2>2, KnownAlone
  <2>4. KnowsDecision(k, c, filters, relevance[c], call)
    BY DEF Before, InLine, Knows
  <2>5. /\ k.form[c] = "irrelevant" => ~Listed(filters, c)
        /\ k.form[c] \in {"active", "kept"} => Listed(filters, c)
    BY <1>1, <1>3, <2>3, <2>4 DEF KnowsDecision
  <2>6. /\ parsing'[c] = "running" => Listed(filters', c)
        /\ relevance'[c] = "irrelevant" => ~Listed(filters', c)
        /\ relevance'[c] = "active" => Listed(filters', c)
    BY <1>1, <2>2, <2>3, <2>5
  <2>7. QED
    BY <1>1, <2>2, <2>6, FinishedAlone
<1>4. QED
  BY <1>2, <1>3

\* The sweep deletes irrelevant cars.
LEMMA SweepDeleteLists ==
  ASSUME Shape, Shape', NEW n \in Calls, SweepDelete(n), NEW c \in Cars, Before(c),
         c \notin excused'
  PROVE  After(c)
<1> DEFINE k == call[n]
<1>1. /\ k.pc = "sweeping" /\ SetRelevance({}, {}, k.cars) /\ Finish(n, k.cars)
      /\ filters' = filters /\ c \notin Contended(n)
      /\ parsing'[c] = IF c \in k.cars THEN "none" ELSE parsing[c]
  BY DEF SweepDelete
<1>2. /\ c \in k.cars => relevance'[c] = "none"
      /\ c \notin k.cars => relevance'[c] = relevance[c]
  BY <1>1, RelevanceSet
<1>3. CASE c \notin k.cars
  <2>1. ~Awaits(call[n], c) /\ ~Open(call[n], c)
    BY <1>1 DEF Awaits, Open
  <2>2. c \in Cars \ k.cars /\ relevance'[c] = relevance[c] /\ parsing'[c] = parsing[c]
    BY <1>1, <1>2, <1>3
  <2>3. \A i \in FilterIds : Covers(filters'[i], c) <=> Covers(filters[i], c)
    BY <1>1
  <2>4. QED
    BY <1>1, <2>1, <2>2, <2>3, FinishedFar
<1>4. CASE c \in k.cars
  <2>1. \A m \in Calls \ {n} : ~Near(call[m], filters, c)
    BY <1>1, <1>4, ContendedAre DEF Near
  <2>2. relevance'[c] = "none" /\ parsing'[c] = "none"
    BY <1>1, <1>2, <1>4
  <2>3. QED
    BY <1>1, <2>1, <2>2, FinishedAlone
<1>5. QED
  BY <1>3, <1>4

\* A call ends with nothing done; the cars of a patch are excused.
LEMMA RefusedLists ==
  ASSUME Shape, NEW n \in Calls,
         ApplyRefused(n) \/ DeleteRefused(n) \/ UpsertRefused(n) \/ SweepFails(n),
         NEW c \in Cars, Before(c), c \notin excused'
  PROVE  After(c)
<1>1. /\ Finish(n, {}) /\ UNCHANGED <<filters, relevance, parsing>>
      /\ call[n].pc = "patched" => c \notin Concerned(n)
  BY DEF ApplyRefused, DeleteRefused, UpsertRefused, SweepFails
<1>2. WellFormed(call[n])
  BY DEF Shape, CallsSound
<1>3. ~Awaits(call[n], c) /\ ~Open(call[n], c)
  <2>1. CASE call[n].pc = "patched"
    BY <1>1, <1>2, <2>1, ConcernedAre, FarKnows
  <2>2. CASE call[n].pc # "patched"
    BY <2>2 DEF Awaits, Open
  <2>3. QED
    BY <2>1, <2>2
<1>4. QED
  BY <1>1, <1>3, FinishedFar

\* A call that dies leaves the cars as they are; those of a patch are excused.
LEMMA CrashLists ==
  ASSUME Shape, NEW n \in Calls, Crash(n), NEW c \in Cars, Before(c), c \notin excused'
  PROVE  After(c)
<1>1. /\ Finish(n, {}) /\ UNCHANGED <<filters, relevance, parsing>>
      /\ call[n].pc = "patched" => c \notin Concerned(n)
  BY DEF Crash
<1>2. WellFormed(call[n])
  BY DEF Shape, CallsSound
<1>3. ~Awaits(call[n], c) /\ ~Open(call[n], c)
  <2>1. CASE call[n].pc = "patched"
    BY <1>1, <1>2, <2>1, ConcernedAre, FarKnows
  <2>2. CASE call[n].pc # "patched"
    BY <2>2 DEF Awaits, Open
  <2>3. QED
    BY <2>1, <2>2
<1>4. QED
  BY <1>1, <1>3, FinishedFar

\* Only the parse task of a car changes.
LEMMA ParsingFrame ==
  ASSUME NEW c, NEW fs, NEW r, NEW p, NEW p2, NEW cl, InLine(c, fs, r, p, cl),
         p2 = "running" => p = "running" \/ Listed(fs, c)
  PROVE  InLine(c, fs, r, p2, cl)
BY DEF InLine, OnItsList

\* The feed of ended lots.
LEMMA EndLotLists ==
  ASSUME Shape, NEW d \in Cars, EndLot(d), NEW c \in Cars, Before(c)
  PROVE  After(c)
<1>s. /\ CallsSound(call, relevance, filters) /\ Tables /\ \A m \in Calls : WellFormed(call[m])
      /\ filters' = filters /\ relevance[d] \in {"irrelevant", "active"}
      /\ \A m \in Calls : call[m].pc \in {"creating", "deleting"} => d \notin call[m].cars
  BY DEF Shape, CallsSound, EndLot
<1>1. CASE relevance[d] = "active"
  <2>1. /\ relevance' = [relevance EXCEPT ![d] = "archival"] /\ call' = call
        /\ parsing' = parsing
    BY <1>1 DEF EndLot
  <2>2. CASE c # d
    <3>1. relevance'[c] = relevance[c]
      BY <1>s, <2>1, <2>2 DEF Tables
    <3>2. QED
      BY <1>s, <2>1, <3>1 DEF Before, After
  <2>3. CASE c = d
    <3>1. relevance[c] = "active" /\ relevance'[c] = "archival"
      BY <1>s, <1>1, <2>1, <2>3 DEF Tables
    <3>2. InLine(c, filters, "active", parsing[c], call)
      BY <3>1 DEF Before
    <3>3. \A m \in Calls : Knows(m, c, filters, "archival", call)
      BY <3>2 DEF InLine, Knows, KnowsMatched, KnowsCovered, KnowsFilter, KnowsRelevance,
        KnowsDecision
    <3>4. InLine(c, filters, "archival", parsing[c], call)
      BY <3>2, <3>3 DEF InLine, OnItsList
    <3>5. QED
      BY <1>s, <2>1, <3>1, <3>4 DEF After
  <2>4. QED
    BY <2>2, <2>3
<1>2. CASE relevance[d] = "irrelevant"
  <2>g. PICK gone : gone = {d}
    OBVIOUS
  <2>1. /\ relevance' = [relevance EXCEPT ![d] = "none"]
        /\ \A m \in Calls : call'[m] = WithoutRows(call[m], gone)
        /\ parsing' = [parsing EXCEPT ![d] = "none"]
    BY <1>2, <2>g DEF EndLot
  <2>2. ASSUME NEW m \in Calls
        PROVE  /\ call'[m].pc = call[m].pc /\ call'[m].filter = call[m].filter
               /\ call'[m].form = call[m].form /\ call'[m].cars \subseteq call[m].cars
               /\ c \notin gone => Alike(call[m], call'[m], c)
               /\ call[m].pc \notin ByVin /\ c \in gone => c \notin call'[m].cars
               /\ call[m].pc \in ByVin => call'[m].cars = call[m].cars /\ call'[m].active = call[m].active
    <3>1. call'[m] = WithoutRows(call[m], gone) /\ WellFormed(call[m])
      BY <1>s, <2>1
    <3>2. CASE call[m].pc \in ByVin
      BY <3>1, <3>2 DEF WithoutRows, Alike
    <3>3. CASE call[m].pc \notin ByVin
      BY <3>1, <3>3, ThinnedCall DEF Alike
    <3>4. QED
      BY <3>2, <3>3
  <2>3. CASE c # d
    <3>1. /\ relevance'[c] = relevance[c] /\ parsing'[c] = parsing[c]
          /\ \A m \in Calls : Alike(call[m], call'[m], c)
      BY <1>s, <2>1, <2>2, <2>3, <2>g DEF Tables
    <3>2. PICK n : n \notin Calls
      BY NoSetContainsEverything
    <3>3. PICK cl2 : cl2 = call'
      OBVIOUS
    <3>4. \A m \in Calls \ {n} : Alike(call[m], cl2[m], c)
      BY <3>1, <3>3
    <3>5. InLine(c, filters, relevance[c], parsing[c], call)
      BY DEF Before
    <3>8. \A m \in Calls : WellFormed(call[m])
      BY <1>s
    <3>6. InLine(c, filters, relevance[c], parsing[c], cl2)
      BY ONLY c \in Cars, <3>2, <3>4, <3>5, <3>8, Frame
    <3>7. QED
      BY <1>s, <3>1, <3>3, <3>6 DEF After
  <2>4. CASE c = d
    <3>1. relevance'[c] = "none" /\ parsing'[c] = "none" /\ c \in gone
      BY <1>s, <2>1, <2>4, <2>g DEF Tables
    <3>2. InLine(c, filters, "irrelevant", parsing[c], call)
      BY <1>2, <2>4 DEF Before
    <3>3. \A m \in Calls : AwaitedElsewhere(m, c, call) => AwaitedElsewhere(m, c, call')
      BY <2>2 DEF AwaitedElsewhere, Awaits
    <3>4. Awaited(c, call) => Awaited(c, call')
      BY <2>2 DEF Awaited, Awaits
    <3>5. ASSUME NEW m \in Calls PROVE Knows(m, c, filters, "none", call')
      <4>1. Knows(m, c, filters, "irrelevant", call)
        BY <3>2 DEF InLine
      <4>2. KnowsMatched(call'[m], c, "none")
        BY <2>2, <3>1 DEF KnowsMatched, ByVin
      <4>3. KnowsCovered(m, c, filters, "none", call') /\ KnowsFilter(m, c, filters, call')
        BY <2>2, <3>1, <3>3, <4>1 DEF Knows, KnowsCovered, KnowsFilter, ByVin
      <4>4. KnowsRelevance(call'[m], c, "none")
        BY DEF KnowsRelevance
      <4>5. KnowsDecision(call'[m], c, filters, "none", call')
        BY <2>2, <3>1, <3>4, <4>1 DEF Knows, KnowsDecision
      <4>6. QED
        BY <4>2, <4>3, <4>4, <4>5 DEF Knows
    <3>6. InLine(c, filters, "none", "none", call')
      BY <3>5 DEF InLine, OnItsList
    <3>7. QED
      BY <1>s, <3>1, <3>6 DEF After
  <2>5. QED
    BY <2>3, <2>4
<1>3. QED
  BY <1>s, <1>1, <1>2

\* Parse tasks, and the kickoffs that start them.
LEMMA ParseLists ==
  ASSUME Shape, NEW c \in Cars, Before(c), c \notin excused',
         (\E d \in Cars : ParseDone(d) \/ ParseFails(d)) \/ \E i \in FilterIds : Kickoff(i)
  PROVE  After(c)
<1>s. Tables /\ \A m \in Calls : WellFormed(call[m])
  BY DEF Shape, CallsSound
<1>b. InLine(c, filters, relevance[c], parsing[c], call)
  BY DEF Before
<1>1. ASSUME NEW d \in Cars, ParseDone(d) PROVE After(c)
  <2>1. PICK more \in {"running", "done"} :
        /\ parsing[d] = "running" /\ relevance' = [relevance EXCEPT ![d] = "active"]
        /\ parsing' = [parsing EXCEPT ![d] = more] /\ filters' = filters /\ call' = call
        /\ excused' = excused \cup ({d} \cap UNION {Concerned(n) : n \in Calls})
    BY <1>1 DEF ParseDone
  <2>2. CASE c # d
    <3>1. relevance'[c] = relevance[c] /\ parsing'[c] = parsing[c]
      BY <1>s, <2>1, <2>2 DEF Tables
    <3>2. QED
      BY <1>b, <2>1, <3>1 DEF After
  <2>3. CASE c = d
    <3>1. relevance'[c] = "active" /\ parsing'[c] = more
      BY <1>s, <2>1, <2>3 DEF Tables
    <3>2. \A m \in Calls : c \notin Concerned(m)
      BY <2>1, <2>3
    <3>3. \A m \in Calls : WellFormed(call[m]) /\ ~Near(call[m], filters, c)
      BY <1>s, <3>2, ConcernedAre
    <3>4. Listed(filters, c)
      BY <1>b, <2>1, <2>3 DEF InLine, OnItsList
    <3>5. InLine(c, filters, "active", more, call)
      BY <3>3, <3>4, Settled
    <3>6. QED
      BY <2>1, <3>1, <3>5 DEF After
  <2>4. QED
    BY <2>2, <2>3
<1>2. ASSUME NEW d \in Cars, ParseFails(d) PROVE After(c)
  <2>1. PICK left \in {"none", "done"} :
        /\ parsing' = [parsing EXCEPT ![d] = left]
        /\ filters' = filters /\ relevance' = relevance /\ call' = call
    BY <1>2 DEF ParseFails
  <2>2. parsing'[c] = "running" => parsing[c] = "running"
    BY <1>s, <2>1 DEF Tables
  <2>3. PICK p2 : p2 = parsing'[c]
    OBVIOUS
  <2>4. InLine(c, filters, relevance[c], p2, call)
    BY <1>b, <2>2, <2>3, ParsingFrame
  <2>5. QED
    BY <2>1, <2>3, <2>4 DEF After
<1>3. ASSUME NEW i \in FilterIds, Kickoff(i) PROVE After(c)
  <2> DEFINE due == {d \in Cars : Present(d) /\ parsing[d] = "none" /\ Matches(filters[i], d)}
  <2>1. /\ i \in Stored /\ parsing' = [d \in Cars |-> IF d \in due THEN "running" ELSE parsing[d]]
        /\ filters' = filters /\ relevance' = relevance /\ call' = call
    BY <1>3 DEF Kickoff
  <2>2. c \in due => Listed(filters, c)
    BY <2>1, FilteredIs DEF Filtered
  <2> HIDE DEF due
  <2>3. parsing'[c] = "running" => parsing[c] = "running" \/ Listed(filters, c)
    BY <2>1, <2>2
  <2>4. PICK p2 : p2 = parsing'[c]
    OBVIOUS
  <2>5. InLine(c, filters, relevance[c], p2, call)
    BY <1>b, <2>3, <2>4, ParsingFrame
  <2>6. QED
    BY <2>1, <2>4, <2>5 DEF After
<1>4. QED
  BY <1>1, <1>2, <1>3

\* Every step keeps the lists.
LEMMA ListStep == Shape /\ Shape' /\ ListInv /\ [Next]_vars => ListInv'
<1> SUFFICES ASSUME Shape, Shape', ListInv, [Next]_vars, NEW c \in Cars, c \notin excused'
             PROVE  After(c)
  BY DEF ListInv, After
<1>1. c \notin excused => Before(c)
  BY DEF ListInv, Before
<1>2. ASSUME NEW n \in Calls, CommitFilter(n) PROVE After(c)
  BY <1>1, <1>2, CommitFilterLists
<1>3. ASSUME excused \subseteq excused' PROVE Before(c)
  BY <1>1, <1>3
<1>4. ASSUME NEW n \in Calls,
             \/ CreateFilter(n) \/ PatchFilter(n) \/ ReadArchived(n) \/ ReadFilters(n)
             \/ UpsertRead(n) \/ SweepRead(n) \/ RefreshRead(n)
      PROVE  After(c)
  <2>1. excused' = excused
    BY <1>4 DEF CreateFilter, PatchFilter, ReadArchived, ReadFilters, UpsertRead, SweepRead,
      RefreshRead
  <2>2. QED
    BY <1>3, <1>4, <2>1, EnteringLists, ReadFiltersLists, OtherReadsLists
<1>5. ASSUME NEW n \in Calls, CommitPatch(n) PROVE After(c)
  <2>1. excused \subseteq excused'
    BY <1>5 DEF CommitPatch
  <2>2. QED
    BY <1>3, <1>5, <2>1, CommitPatchLists
<1>6. ASSUME NEW n \in Calls, ApplyPatch(n) PROVE After(c)
  <2>1. excused \subseteq excused'
    BY <1>6 DEF ApplyPatch
  <2>2. QED
    BY <1>3, <1>6, <2>1, ApplyPatchLists
<1>7. ASSUME NEW n \in Calls, PatchRefused(n) PROVE After(c)
  <2>1. excused \subseteq excused'
    BY <1>7 DEF PatchRefused
  <2>2. QED
    BY <1>3, <1>7, <2>1, PatchRefusedLists
<1>8. ASSUME NEW n \in Calls, DeleteArchived(n) PROVE After(c)
  <2>1. excused' = excused
    BY <1>8 DEF DeleteArchived
  <2>2. QED
    BY <1>3, <1>8, <2>1, DeleteArchivedLists
<1>9. ASSUME NEW n \in Calls, DeleteFilter(n) PROVE After(c)
  <2>1. excused \subseteq excused'
    BY <1>9 DEF DeleteFilter
  <2>2. QED
    BY <1>3, <1>9, <2>1, DeleteFilterLists
<1>10. ASSUME NEW n \in Calls, StoreLots(n) \/ UpsertWrite(n) \/ Refresh(n) PROVE After(c)
  <2>1. excused \subseteq excused'
    BY <1>10 DEF StoreLots, UpsertWrite, Refresh
  <2>2. QED
    BY <1>3, <1>10, <2>1, StoringLists
<1>11. ASSUME NEW n \in Calls, Crash(n) PROVE After(c)
  <2>1. excused \subseteq excused'
    BY <1>11 DEF Crash
  <2>2. QED
    BY <1>3, <1>11, <2>1, CrashLists
<1>12. ASSUME NEW d \in Cars, EndLot(d) PROVE After(c)
  <2>1. excused' = excused
    BY <1>12 DEF EndLot
  <2>2. QED
    BY <1>3, <1>12, <2>1, EndLotLists
<1>13. ASSUME (\E d \in Cars : ParseDone(d) \/ ParseFails(d)) \/ \E i \in FilterIds : Kickoff(i)
       PROVE  After(c)
  <2>1. excused \subseteq excused'
    BY <1>13 DEF ParseDone, ParseFails, Kickoff
  <2>2. QED
    BY <1>3, <1>13, <2>1, ParseLists
<1>14. ASSUME UNCHANGED <<filters, relevance, parsing, call, excused>> PROVE After(c)
  BY <1>1, <1>14 DEF Before, After
<1>15. ASSUME NEW n \in Calls, ImportRefused(n) PROVE After(c)
  BY <1>14, <1>15 DEF ImportRefused
<1>16. ASSUME NEW n \in Calls, SweepDelete(n) PROVE After(c)
  <2>1. excused \subseteq excused'
    BY <1>16 DEF SweepDelete
  <2>2. QED
    BY <1>3, <1>16, <2>1, SweepDeleteLists
<1>17. ASSUME NEW n \in Calls,
              ApplyRefused(n) \/ DeleteRefused(n) \/ UpsertRefused(n) \/ SweepFails(n)
       PROVE  After(c)
  <2>1. excused \subseteq excused'
    BY <1>17 DEF ApplyRefused, DeleteRefused, UpsertRefused, SweepFails
  <2>2. QED
    BY <1>3, <1>17, <2>1, RefusedLists
<1>18. CASE UNCHANGED vars
  BY <1>14, <1>18 DEF vars
<1>19. QED
  BY <1>2, <1>4, <1>5, <1>6, <1>7, <1>8, <1>9, <1>10, <1>11, <1>12, <1>13, <1>15, <1>16,
    <1>17, <1>18 DEF Next

\* Nothing is stored and nobody is about anything.
LEMMA ListInit == Init => ListInv
<1> SUFFICES ASSUME Init, NEW c \in Cars
             PROVE  InLine(c, filters, relevance[c], parsing[c], call)
  BY DEF ListInv
<1>1. /\ \A m \in Calls : call[m] = Idle
      /\ relevance[c] = "none" /\ parsing[c] = "none"
  BY DEF Init
<1>2. \A m \in Calls : WellFormed(call[m]) /\ ~Near(call[m], filters, c)
  BY <1>1, IdleSound DEF Near, OfFilter
<1>3. QED
  BY <1>1, <1>2, Settled

\* At rest no patch is half done.
LEMMA ListsAtRest ==
  ASSUME Shape, ListInv, AtRest, NEW c \in Cars \ excused
  PROVE  /\ Filtered(c) => relevance[c] # "irrelevant"
         /\ relevance[c] = "active" => Filtered(c)
<1>1. OnItsList(c, filters, relevance[c], parsing[c], call)
  BY DEF ListInv, InLine
<1>2. ~Awaited(c, call) /\ ~\E m \in Calls : Open(call[m], c)
  BY DEF AtRest, Awaited, Awaits, Open
<1>3. QED
  BY <1>1, <1>2, FilteredIs DEF OnItsList

-----------------------------------------------------------------------------
(* The theorems about the lists.                                            *)

\* Whatever creations, patches, deletions, imports, manual entries, sweeps, ended lots
\* and parse tasks do to one another, a car some filter matches is not set aside as irrelevant, but for the
\* cases FilteredIsListed names.
THEOREM FilteredCarsAreListed == Spec => []FilteredIsListed
<1>1. Shape /\ ListInv => FilteredIsListed
  BY ListsAtRest DEF FilteredIsListed
<1>2. QED
  BY <1>1, ShapeInit, ShapeStep, ListInit, ListStep, PTL DEF Spec

\* And a car on the active list is there because some filter matches it, but for the
\* cases ListedIsFiltered names.
THEOREM ListedCarsAreFiltered == Spec => []ListedIsFiltered
<1>1. Shape /\ ListInv => ListedIsFiltered
  BY ListsAtRest DEF ListedIsFiltered
<1>2. QED
  BY <1>1, ShapeInit, ShapeStep, ListInit, ListStep, PTL DEF Spec

=============================================================================
