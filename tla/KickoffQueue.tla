---------------------------- MODULE KickoffQueue ----------------------------
(***************************************************************************)
(* The filter kickoff queue: an administrator creates a filter; the same   *)
(* transaction books a slot for its kickoff in the filter_kickoff_queue    *)
(* table; a beat task dispatches the due rows to a Celery queue; a worker  *)
(* runs kickoff_parse_for_filter and writes the outcome back to the row.   *)
(*                                                                         *)
(* Sequences, row locks and advisory locks are PostgreSQL's (READ          *)
(* COMMITTED, the engine's default): a statement sees what is committed    *)
(* when it starts, an UPDATE or DELETE of a locked row waits for the       *)
(* owner, and pg_advisory_xact_lock is released by commit and rollback.    *)
(* The broker delivers at least once (task_acks_late and                   *)
(* task_reject_on_worker_lost).  Cars are not part of this module: a       *)
(* kickoff's fan-out of parse tasks is one step that records its filter.   *)
(***************************************************************************)
EXTENDS Integers, FiniteSets

CONSTANTS
  MaxIds,                   \* bound: values drawn from each id sequence
  OldFilters,               \* filters that are older than the queue's table
  FILTER_KICKOFF_INTERVAL,  \* 90 minutes in the code
  Requests,                 \* concurrent POST /admin/filters calls
  Dispatchers,              \* concurrent runs of the dispatch task
  Workers,                  \* worker processes that run kickoffs
  NoOne,                    \* a free advisory lock
  LastArrival,              \* bound: no filter is created after this time
  Horizon,                  \* bound: the clock stops here
  MaxPatches,               \* bound: PATCH /admin/filters/{id} calls
  MaxDispatcherCrashes,     \* bound
  MaxRedeliveries,          \* bound: messages the broker delivers again
  MaxHandlerErrors          \* bound: failures of the task's except branch

ASSUME MaxIdsAssumption == MaxIds \in Nat
ASSUME OldFiltersAssumption == OldFilters \in 0..MaxIds
ASSUME IntervalAssumption == FILTER_KICKOFF_INTERVAL \in Nat \ {0}
ASSUME NoOneAssumption == NoOne \notin Requests \cup Dispatchers
ASSUME BoundsAssumption ==
  /\ LastArrival \in Nat /\ Horizon \in Nat /\ MaxPatches \in Nat
  /\ MaxDispatcherCrashes \in Nat /\ MaxRedeliveries \in Nat
  /\ MaxHandlerErrors \in Nat

VARIABLES
  now,               \* the clock
  filters,           \* ids of the committed rows of table filters
  nextFilterId,      \* sequence of filters.id
  queue,             \* table filter_kickoff_queue, by id
  nextJobId,         \* sequence of filter_kickoff_queue.id
  enqueueLock,       \* owner of advisory lock 910001
  dispatchLock,      \* owner of advisory lock 910002
  request,           \* the open transaction of each create_filter call
  dispatcher,        \* the open transaction of each dispatch run
  broker,            \* kickoff messages waiting in car_parsing_queue
  worker,            \* what each worker is doing
  fannedOut,         \* filters whose parse tasks have been enqueued
  patched,           \* filters a PATCH has requested a kickoff for
  orphaned,          \* jobs whose outcome could not be written
  sent,              \* how often each job has been given to the broker
  patches, dispatcherCrashes, redeliveries, handlerErrors \* budgets spent

failVars       == <<orphaned, handlerErrors>>
queueVars      == <<filters, nextFilterId, queue, nextJobId>>
createVars     == <<enqueueLock, request>>
dispatchVars   == <<dispatchLock, dispatcher, dispatcherCrashes, sent>>
kickoffVars    == <<worker, fannedOut, redeliveries, failVars>>
patchVars      == <<patched, patches>>
vars == <<now, queueVars, createVars, dispatchVars, broker, kickoffVars,
          patchVars>>

-----------------------------------------------------------------------------
Ids == 1..MaxIds

\* The four stored statuses; "absent" stands for "no such row".
Stored == {"scheduled", "dispatched", "done", "failed"}

Job == [status : Stored \cup {"absent"}, filter_id : Ids \cup {0},
        scheduled_at : Nat, attempts : Nat]
NoJob == [status |-> "absent", filter_id |-> 0, scheduled_at |-> 0,
          attempts |-> 0]

Message   == [filter_id : Ids, lock_token : Ids]
NoMessage == [filter_id |-> 0, lock_token |-> 0]

NoRequest == [pc |-> "idle", filter_id |-> 0, job_id |-> 0,
              scheduled_at |-> 0]
Request == {NoRequest}
  \cup [pc : {"flushed"}, filter_id : Ids, job_id : {0}, scheduled_at : {0}]
  \cup [pc : {"planned"}, filter_id : Ids, job_id : Ids, scheduled_at : Nat]

NoRun == [pc |-> "idle", due |-> {}, accepted |-> {}, refused |-> {}]
Run == {NoRun} \cup [pc : {"sending"}, due : SUBSET Ids,
                     accepted : SUBSET Ids, refused : SUBSET Ids]

NoWork == [pc |-> "idle", msg |-> NoMessage]
Work == {NoWork} \cup [pc : {"fanout", "finish", "fail", "notfound", "ack"},
                       msg : Message]

TypeOK ==
  /\ now \in Nat
  /\ filters \subseteq Ids
  /\ nextFilterId \in 1..(MaxIds + 1)
  /\ queue \in [Ids -> Job]
  /\ nextJobId \in 1..(MaxIds + 1)
  /\ enqueueLock \in Requests \cup {NoOne}
  /\ dispatchLock \in Dispatchers \cup {NoOne}
  /\ request \in [Requests -> Request]
  /\ dispatcher \in [Dispatchers -> Run]
  /\ broker \in [Message -> Nat]
  /\ worker \in [Workers -> Work]
  /\ fannedOut \subseteq Ids
  /\ patched \subseteq Ids
  /\ orphaned \subseteq Ids
  /\ patches \in Nat /\ dispatcherCrashes \in Nat
  /\ redeliveries \in Nat /\ handlerErrors \in Nat
  /\ sent \in [Ids -> Nat]

Init ==
  /\ now = 0
  /\ filters = 1..OldFilters /\ nextFilterId = OldFilters + 1
  /\ queue = [j \in Ids |-> NoJob] /\ nextJobId = 1
  /\ enqueueLock = NoOne /\ dispatchLock = NoOne
  /\ request = [r \in Requests |-> NoRequest]
  /\ dispatcher = [d \in Dispatchers |-> NoRun]
  /\ broker = [m \in Message |-> 0]
  /\ worker = [w \in Workers |-> NoWork]
  /\ fannedOut = {} /\ patched = {} /\ orphaned = {}
  /\ patches = 0 /\ dispatcherCrashes = 0
  /\ redeliveries = 0 /\ handlerErrors = 0
  /\ sent = [j \in Ids |-> 0]

-----------------------------------------------------------------------------
(* Helpers                                                                 *)

Active == {j \in Ids : queue[j].status \in {"scheduled", "dispatched"}}

\* Mutant: the ORDER BY is forgotten.
AnyActiveJob(j) == j \in Active

\* The row "ORDER BY scheduled_at DESC LIMIT 1" returns.
IsLastJob(j) == /\ j \in Active
                /\ \A k \in Active :
                     queue[k].scheduled_at <= queue[j].scheduled_at

Later(a, b) == IF a >= b THEN a ELSE b

\* Rows a dispatch transaction has selected FOR UPDATE.
Claimed(d) == dispatcher[d].due \cup dispatcher[d].accepted
                \cup dispatcher[d].refused

\* Mutant: the rows are selected without FOR UPDATE.
NeverLocked(j) == FALSE

RowLocked(j) == \E d \in Dispatchers : j \in Claimed(d)

Due(time) == {j \in Ids : /\ queue[j].status = "scheduled"
                          /\ queue[j].scheduled_at <= time
                          /\ ~RowLocked(j)}

Put(m)  == [broker EXCEPT ![m] = @ + 1]
Take(m) == [broker EXCEPT ![m] = @ - 1]

\* services/lock.py: nothing in the program ever calls acquire_kickoff_lock,
\* so the Redis key is_kickoff_busy looks for is never there.
IsKickoffBusy == FALSE

-----------------------------------------------------------------------------
(* POST /admin/filters                                                     *)

\* Inserting the filter row draws its id; nobody else sees the row yet.
CreateFilter(r) ==
  /\ request[r].pc = "idle"
  /\ nextFilterId \in Ids /\ now <= LastArrival
  /\ request' = [request EXCEPT ![r] =
       [pc |-> "flushed", filter_id |-> nextFilterId, job_id |-> 0,
        scheduled_at |-> 0]]
  /\ nextFilterId' = nextFilterId + 1
  /\ UNCHANGED <<now, filters, queue, nextJobId, enqueueLock, dispatchVars,
                 broker, kickoffVars, patchVars>>

PlanJob(r, slot) ==
  request' = [request EXCEPT ![r] =
    [pc |-> "planned", filter_id |-> @.filter_id, job_id |-> nextJobId,
     scheduled_at |-> slot]]

\* Mutant: pg_advisory_xact_lock is not called.
NoEnqueueLock(r) == TRUE

\* pg_advisory_xact_lock(910001) returns.
CanLockEnqueue(r) == enqueueLock = NoOne

\* enqueue_filter_kickoff: wait for the advisory lock, look at the last
\* active job, book the next slot; the flush draws the queue row's id.
EnqueueFilterKickoff(r) ==
  /\ request[r].pc = "flushed"
  /\ CanLockEnqueue(r)
  /\ nextJobId \in Ids
  /\ \/ Active = {} /\ PlanJob(r, now)
     \/ \E last \in Ids :
          /\ IsLastJob(last)
          /\ PlanJob(r, Later(now, queue[last].scheduled_at
                                     + FILTER_KICKOFF_INTERVAL))
  /\ enqueueLock' = r
  /\ nextJobId' = nextJobId + 1
  /\ UNCHANGED <<now, filters, nextFilterId, queue, dispatchVars, broker,
                 kickoffVars, patchVars>>

\* The commit publishes filter and queue row together and frees the lock.
CommitCreate(r) ==
  /\ request[r].pc = "planned"
  /\ filters' = filters \cup {request[r].filter_id}
  /\ queue' = [queue EXCEPT ![request[r].job_id] =
                 [status |-> "scheduled", filter_id |-> request[r].filter_id,
                  scheduled_at |-> request[r].scheduled_at, attempts |-> 0]]
  /\ enqueueLock' = NoOne
  /\ request' = [request EXCEPT ![r] = NoRequest]
  /\ UNCHANGED <<now, nextFilterId, nextJobId, dispatchVars, broker,
                 kickoffVars, patchVars>>

\* Any failure before the commit: get_db rolls back; drawn ids stay drawn.
AbortCreate(r) ==
  /\ request[r].pc # "idle"
  /\ enqueueLock' = IF enqueueLock = r THEN NoOne ELSE enqueueLock
  /\ request' = [request EXCEPT ![r] = NoRequest]
  /\ UNCHANGED <<now, queueVars, dispatchVars, broker, kickoffVars,
                 patchVars>>

-----------------------------------------------------------------------------
(* dispatch_due_filter_kickoff_jobs, one transaction per run               *)

\* Take the advisory lock and select the due rows FOR UPDATE SKIP LOCKED; the
\* run read the clock before it waited for the lock.  With nothing due it
\* commits at once and changes nothing.
DispatchBegin(d) ==
  /\ dispatcher[d].pc = "idle"
  /\ dispatchLock = NoOne
  /\ \E started \in 0..now :
       /\ Due(started) # {}
       /\ dispatcher' = [dispatcher EXCEPT ![d] =
            [pc |-> "sending", due |-> Due(started), accepted |-> {},
             refused |-> {}]]
  /\ dispatchLock' = d
  /\ UNCHANGED <<now, queueVars, createVars, dispatcherCrashes, sent, broker,
                 kickoffVars, patchVars>>

\* ORDER BY scheduled_at ASC
IsNextDue(d, j) ==
  /\ j \in dispatcher[d].due
  /\ \A k \in dispatcher[d].due :
       queue[j].scheduled_at <= queue[k].scheduled_at

JobMessage(j) == [filter_id |-> queue[j].filter_id, lock_token |-> j]

\* send_task returns: the row will become DISPATCHED when the run commits.
DispatchSend(d, j) ==
  /\ dispatcher[d].pc = "sending"
  /\ IsNextDue(d, j)
  /\ broker' = Put(JobMessage(j))
  /\ sent' = [sent EXCEPT ![j] = @ + 1]
  /\ dispatcher' = [dispatcher EXCEPT ![d] =
       [pc |-> "sending", due |-> @.due \ {j},
        accepted |-> @.accepted \cup {j}, refused |-> @.refused]]
  /\ UNCHANGED <<now, queueVars, createVars, dispatchLock, dispatcherCrashes,
                 kickoffVars, patchVars>>

\* send_task raises: the row will become FAILED.  The broker may still have
\* taken the message when only its answer was lost.
DispatchRefused(d, j) ==
  /\ dispatcher[d].pc = "sending"
  /\ IsNextDue(d, j)
  /\ \/ UNCHANGED <<broker, sent>>
     \/ /\ broker' = Put(JobMessage(j))
        /\ sent' = [sent EXCEPT ![j] = @ + 1]
  /\ dispatcher' = [dispatcher EXCEPT ![d] =
       [pc |-> "sending", due |-> @.due \ {j}, accepted |-> @.accepted,
        refused |-> @.refused \cup {j}]]
  /\ UNCHANGED <<now, queueVars, createVars, dispatchLock, dispatcherCrashes,
                 kickoffVars, patchVars>>

\* Mutant: the new status is not written.
StillScheduled(job) == [job EXCEPT !.attempts = @ + 1]

Dispatched(job) ==
  [status |-> "dispatched", filter_id |-> job.filter_id,
   scheduled_at |-> job.scheduled_at, attempts |-> job.attempts + 1]

\* Mutant: the task's result status ends up in the column.
FailedAsError(job) == [job EXCEPT !.status = "error"]

Failed(job) == [job EXCEPT !.status = "failed"]

DispatchCommit(d) ==
  /\ dispatcher[d].pc = "sending"
  /\ dispatcher[d].due = {}
  /\ queue' = [j \in Ids |->
       CASE j \in dispatcher[d].accepted -> Dispatched(queue[j])
         [] j \in dispatcher[d].refused  -> Failed(queue[j])
         [] OTHER                        -> queue[j]]
  /\ dispatchLock' = NoOne
  /\ dispatcher' = [dispatcher EXCEPT ![d] = NoRun]
  /\ UNCHANGED <<now, filters, nextFilterId, nextJobId, createVars,
                 dispatcherCrashes, sent, broker, kickoffVars, patchVars>>

\* The worker process dies, or the session fails, before the commit: the
\* rows keep their status and what was sent stays sent.
DispatchCrash(d) ==
  /\ dispatcher[d].pc = "sending"
  /\ dispatcherCrashes < MaxDispatcherCrashes
  /\ dispatcherCrashes' = dispatcherCrashes + 1
  /\ dispatchLock' = NoOne
  /\ dispatcher' = [dispatcher EXCEPT ![d] = NoRun]
  /\ UNCHANGED <<now, queueVars, createVars, sent, broker, kickoffVars,
                 patchVars>>

-----------------------------------------------------------------------------
(* kickoff_parse_for_filter(filter_id, lock_token)                         *)

\* The broker hands a message over; session.get(FilterModel, filter_id).
KickoffStart(w, m) ==
  /\ worker[w].pc = "idle"
  /\ broker[m] > 0
  /\ broker' = Take(m)
  /\ worker' = [worker EXCEPT ![w] =
       [pc |-> IF m.filter_id \in filters THEN "fanout" ELSE "notfound",
        msg |-> m]]
  /\ UNCHANGED <<now, queueVars, createVars, dispatchVars, fannedOut,
                 redeliveries, failVars, patchVars>>

GoTo(w, pc) ==
  worker' = [worker EXCEPT ![w] = [pc |-> pc, msg |-> @.msg]]

\* Every matching car has been handed to parse_and_update_car.delay.
KickoffFanOut(w) ==
  /\ worker[w].pc = "fanout"
  /\ fannedOut' = fannedOut \cup {worker[w].msg.filter_id}
  /\ GoTo(w, "finish")
  /\ UNCHANGED <<now, queueVars, createVars, dispatchVars, broker,
                 redeliveries, failVars, patchVars>>

\* The row lock_token names, if there is one, gets its final status; the
\* UPDATE waits while a dispatch transaction holds the row.
Settle(w, status) ==
  LET j == worker[w].msg.lock_token
  IN  /\ ~RowLocked(j)
      /\ queue' = IF queue[j].status = "absent" THEN queue
                  ELSE [queue EXCEPT ![j].status = status]
      /\ GoTo(w, "ack")
      /\ UNCHANGED <<now, filters, nextFilterId, nextJobId, createVars,
                     dispatchVars, broker, fannedOut, redeliveries,
                     failVars, patchVars>>

KickoffFinish(w) == worker[w].pc = "finish" /\ Settle(w, "done")

KickoffNotFound(w) == worker[w].pc = "notfound" /\ Settle(w, "failed")

\* Mutant: the except branch only raises.
FailIsSilent(w) ==
  /\ worker[w].pc = "fail"
  /\ GoTo(w, "ack")
  /\ UNCHANGED <<now, queueVars, createVars, dispatchVars, broker, fannedOut,
                 redeliveries, failVars, patchVars>>

\* Mutant: the except branch writes the same outcome as the body.
FailIsDone(w) == worker[w].pc = "fail" /\ Settle(w, "done")

KickoffFail(w) == worker[w].pc = "fail" /\ Settle(w, "failed")

\* An exception in the body leads to the except branch.
KickoffError(w) ==
  /\ worker[w].pc \in {"fanout", "finish", "notfound"}
  /\ GoTo(w, "fail")
  /\ UNCHANGED <<now, queueVars, createVars, dispatchVars, broker, fannedOut,
                 redeliveries, failVars, patchVars>>

\* The except branch opens a session of its own; when that fails too, the
\* outcome is lost and the message is acknowledged all the same.
KickoffHandlerError(w) ==
  /\ worker[w].pc = "fail"
  /\ handlerErrors < MaxHandlerErrors
  /\ handlerErrors' = handlerErrors + 1
  /\ orphaned' = orphaned \cup {worker[w].msg.lock_token}
  /\ GoTo(w, "ack")
  /\ UNCHANGED <<now, queueVars, createVars, dispatchVars, broker, fannedOut,
                 redeliveries, patchVars>>

\* Late acknowledgement, also after a failure.
KickoffAck(w) ==
  /\ worker[w].pc = "ack"
  /\ worker' = [worker EXCEPT ![w] = NoWork]
  /\ UNCHANGED <<now, queueVars, createVars, dispatchVars, broker, fannedOut,
                 redeliveries, failVars, patchVars>>

\* Mutant: messages are acknowledged early, so a crash loses them.
CrashLosesMessage(w) ==
  /\ worker[w].pc # "idle"
  /\ redeliveries < MaxRedeliveries
  /\ redeliveries' = redeliveries + 1
  /\ worker' = [worker EXCEPT ![w] = NoWork]
  /\ UNCHANGED <<now, queueVars, createVars, dispatchVars, broker, fannedOut,
                 failVars, patchVars>>

\* The worker process is lost before the acknowledgement.
KickoffCrash(w) ==
  /\ worker[w].pc # "idle"
  /\ redeliveries < MaxRedeliveries
  /\ redeliveries' = redeliveries + 1
  /\ broker' = Put(worker[w].msg)
  /\ worker' = [worker EXCEPT ![w] = NoWork]
  /\ UNCHANGED <<now, queueVars, createVars, dispatchVars, fannedOut,
                 failVars, patchVars>>

\* The message stays unacknowledged longer than Redis' visibility timeout.
VisibilityTimeout(w) ==
  /\ worker[w].pc # "idle"
  /\ redeliveries < MaxRedeliveries
  /\ redeliveries' = redeliveries + 1
  /\ broker' = Put(worker[w].msg)
  /\ UNCHANGED <<now, queueVars, createVars, dispatchVars, worker, fannedOut,
                 failVars, patchVars>>

-----------------------------------------------------------------------------
(* PATCH and DELETE /admin/filters/{filter_id}                             *)

\* The kickoff is requested directly and its lock_token is the FILTER's id,
\* which the task reads as the id of a queue row.
UpdateFilter(f) ==
  /\ ~IsKickoffBusy
  /\ f \in filters
  /\ patches < MaxPatches
  /\ patches' = patches + 1
  /\ patched' = patched \cup {f}
  /\ broker' = Put([filter_id |-> f, lock_token |-> f])
  /\ UNCHANGED <<now, queueVars, createVars, dispatchVars, kickoffVars>>

\* ON DELETE CASCADE takes the filter's queue row along, so the DELETE waits
\* while a dispatch transaction holds that row.
DeleteFilter(f) ==
  /\ f \in filters
  /\ \A j \in Ids : queue[j].filter_id = f => ~RowLocked(j)
  /\ filters' = filters \ {f}
  /\ queue' = [j \in Ids |-> IF queue[j].filter_id = f THEN NoJob
                                                      ELSE queue[j]]
  /\ UNCHANGED <<now, nextFilterId, nextJobId, createVars, dispatchVars,
                 broker, kickoffVars, patchVars>>

Tick ==
  /\ now < Horizon
  /\ now' = now + 1
  /\ UNCHANGED <<queueVars, createVars, dispatchVars, broker, kickoffVars,
                 patchVars>>

-----------------------------------------------------------------------------
Create(r) == CreateFilter(r) \/ EnqueueFilterKickoff(r) \/ CommitCreate(r)
               \/ AbortCreate(r)

Dispatch(d) == DispatchBegin(d)
                 \/ (\E j \in Ids : DispatchSend(d, j) \/ DispatchRefused(d, j))
                 \/ DispatchCommit(d) \/ DispatchCrash(d)

KickoffStep(w) == KickoffFanOut(w) \/ KickoffFinish(w) \/ KickoffNotFound(w)
                    \/ KickoffFail(w) \/ KickoffAck(w)

Kickoff(w) == (\E m \in Message : KickoffStart(w, m)) \/ KickoffStep(w)
                \/ KickoffError(w) \/ KickoffHandlerError(w)
                \/ KickoffCrash(w) \/ VisibilityTimeout(w)

Next == \/ Tick
        \/ \E r \in Requests : Create(r)
        \/ \E d \in Dispatchers : Dispatch(d)
        \/ \E w \in Workers : Kickoff(w)
        \/ \E f \in Ids : UpdateFilter(f) \/ DeleteFilter(f)

Spec == Init /\ [][Next]_vars

\* Beat runs the dispatch task every minute, the broker hands out what it
\* has, and a worker that has taken a message works it off.  Administrators,
\* errors and crashes are not assumed to happen.
Fairness ==
  /\ WF_vars(Tick)
  /\ WF_vars(\E d \in Dispatchers : DispatchBegin(d))
  /\ \A d \in Dispatchers :
       WF_vars((\E j \in Ids : DispatchSend(d, j)) \/ DispatchCommit(d))
  /\ \A w \in Workers : /\ WF_vars(\E m \in Message : KickoffStart(w, m))
                        /\ WF_vars(KickoffStep(w))

FairSpec == Spec /\ Fairness

-----------------------------------------------------------------------------
(* Refinement: the active rows are the bookings of a Calendar.  A job id is  *)
(* unused until its row is committed; a booked job ends when its row gets an *)
(* outcome or is deleted, a drawn id also when its transaction rolls back.   *)

BeingBooked(j) == \E r \in Requests : /\ request[r].pc = "planned"
                                      /\ request[r].job_id = j

stageOf == [j \in Ids |->
  IF j \in Active THEN "booked"
  ELSE IF j >= nextJobId \/ BeingBooked(j) THEN "unused" ELSE "over"]

slotOf == [j \in Ids |-> IF j \in Active THEN queue[j].scheduled_at ELSE 0]

Abstract == INSTANCE Calendar WITH
  Jobs <- Ids, Interval <- FILTER_KICKOFF_INTERVAL,
  stage <- stageOf, slot <- slotOf

\* The queue is a Calendar: whatever requests, dispatch runs, workers, crashes
\* and redeliveries do, active rows only ever appear behind all others, keep
\* their slot, and never come back once they are over.
ImplementsCalendar == Abstract!Spec

-----------------------------------------------------------------------------
(* Properties                                                              *)

\* enqueue_filter_kickoff spaces kickoffs: any two rows that are scheduled or
\* dispatched are at least FILTER_KICKOFF_INTERVAL apart, however creations,
\* dispatches, deletions and outcomes interleave.
ActiveSpacing ==
  \A i, j \in Active :
    i # j => \/ queue[i].scheduled_at >= queue[j].scheduled_at
                                           + FILTER_KICKOFF_INTERVAL
             \/ queue[j].scheduled_at >= queue[i].scheduled_at
                                           + FILTER_KICKOFF_INTERVAL

\* Why the spacing holds: rows exist only for drawn ids; a request that has
\* chosen a slot holds the advisory lock, and its slot lies behind every active
\* row until it commits; what a dispatch run has claimed stays scheduled, and
\* only the owner of the other advisory lock has claims.
CalendarInv ==
  /\ \A j \in Ids : j >= nextJobId => queue[j].status = "absent"
  /\ \A r \in Requests : request[r].pc = "planned" =>
       /\ enqueueLock = r
       /\ request[r].job_id < nextJobId
       /\ queue[request[r].job_id].status = "absent"
       /\ \A k \in Active : request[r].scheduled_at >=
                            queue[k].scheduled_at + FILTER_KICKOFF_INTERVAL
  /\ \A d \in Dispatchers : dispatcher[d].pc = "sending" =>
       /\ dispatchLock = d
       /\ \A j \in Claimed(d) : queue[j].status = "scheduled"
  /\ ActiveSpacing

\* The dispatch run sends a row's message at most once, plus once for each run
\* that died between its sends and its commit, and never ahead of its slot; no
\* row is dispatched twice.
SendsBounded ==
  \A j \in Ids : /\ queue[j].attempts <= 1
                 /\ sent[j] <= 1 + dispatcherCrashes
                 /\ sent[j] > 0 /\ queue[j].status # "absent"
                      => queue[j].scheduled_at <= now

Running(w) == worker[w].pc \in {"fanout", "finish", "fail", "notfound"}

\* A dispatched row is never stranded: its message is still in the broker or a
\* worker that will write the outcome still holds it (acknowledged late, sent
\* before the commit, row locked until then), unless an except branch of a
\* kickoff that named the row has failed itself.
DispatchedHasKickoff ==
  \A j \in Ids : queue[j].status = "dispatched" =>
    \/ \E f \in Ids : broker[[filter_id |-> f, lock_token |-> j]] > 0
    \/ \E w \in Workers : Running(w) /\ worker[w].msg.lock_token = j
    \/ j \in orphaned

\* A row reaches "done" only after the fan-out for its own filter, or because
\* a PATCH of the filter whose id equals the row's id passed that id as its
\* lock_token.
DoneHasCause ==
  \A j \in Ids : queue[j].status = "done" =>
    queue[j].filter_id \in fannedOut \/ j \in patched

\* README: services/lock.py prevents concurrent kickoff parsing workflows.
NoConcurrentKickoffs ==
  \A v, w \in Workers :
    worker[v].pc = "fanout" /\ worker[w].pc = "fanout" => v = w

\* A row whose outcome is written never becomes scheduled or dispatched again
\* (a redelivered or doubled kickoff may only rewrite the outcome), so a late
\* dispatch commit cannot undo it.
OutcomeIsFinal ==
  [][\A j \in Ids : queue[j].status \in {"done", "failed"}
                      => j \notin Active']_vars

\* Every row eventually leaves the scheduled and dispatched states, so its
\* slot stops pushing later ones back, unless its outcome was lost.
EveryJobSettles ==
  \A j \in Ids : (j \in Active) ~> (j \notin Active \/ j \in orphaned)
=============================================================================
