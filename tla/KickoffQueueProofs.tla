------------------------- MODULE KickoffQueueProofs -------------------------
(***************************************************************************)
(* Proofs about KickoffQueue for every number of ids, requests, dispatch   *)
(* runs and workers, every interval and every bound.                       *)
(***************************************************************************)
EXTENDS KickoffQueue, TLAPS

USE DEF queueVars, createVars, dispatchVars, failVars, kickoffVars, patchVars

-----------------------------------------------------------------------------
(* Types                                                                   *)

\* The initial state is well typed.
LEMMA InitTypeOK == Init => TypeOK
BY MaxIdsAssumption, OldFiltersAssumption DEF Init, TypeOK, Ids, Job, NoJob, Stored, Message,
   Request, NoRequest, Run, NoRun, Work, NoWork, NoMessage

\* The slot a booking gets is a natural number.
LEMMA SlotType ==
  ASSUME TypeOK, NEW last \in Ids
  PROVE  Later(now, queue[last].scheduled_at + FILTER_KICKOFF_INTERVAL) \in Nat
<1>1. queue[last].scheduled_at \in Nat /\ now \in Nat
  BY DEF TypeOK, Job
<1>2. QED
  BY <1>1, IntervalAssumption DEF Later

\* The steps of a create_filter call keep the types.
LEMMA CreateTypeOK ==
  ASSUME TypeOK, NEW r \in Requests, Create(r)
  PROVE  TypeOK'
<1>1. CASE CreateFilter(r)
  BY <1>1, MaxIdsAssumption DEF CreateFilter, TypeOK, Ids, Request
<1>2. CASE EnqueueFilterKickoff(r)
  <2>1. PICK slot \in Nat : PlanJob(r, slot)
    BY <1>2, SlotType DEF EnqueueFilterKickoff, TypeOK
  <2>2. request[r].filter_id \in Ids /\ nextJobId \in Ids
    BY <1>2 DEF EnqueueFilterKickoff, TypeOK, Request, NoRequest
  <2>3. request' \in [Requests -> Request]
    BY <2>1, <2>2 DEF PlanJob, TypeOK, Request
  <2>4. nextJobId' \in 1..(MaxIds + 1)
    BY <1>2, <2>2, MaxIdsAssumption DEF EnqueueFilterKickoff, Ids
  <2>5. QED
    BY <1>2, <2>3, <2>4 DEF EnqueueFilterKickoff, TypeOK
<1>3. CASE CommitCreate(r)
  <2>1. /\ request[r].filter_id \in Ids /\ request[r].job_id \in Ids
        /\ request[r].scheduled_at \in Nat
    BY <1>3 DEF CommitCreate, TypeOK, Request, NoRequest
  <2>2. queue' \in [Ids -> Job]
    BY <1>3, <2>1 DEF CommitCreate, TypeOK, Job, Stored
  <2>3. request' \in [Requests -> Request]
    BY <1>3 DEF CommitCreate, TypeOK, Request
  <2>4. QED
    BY <1>3, <2>1, <2>2, <2>3 DEF CommitCreate, TypeOK
<1>4. CASE AbortCreate(r)
  BY <1>4 DEF AbortCreate, TypeOK, Request
<1>5. QED
  BY <1>1, <1>2, <1>3, <1>4 DEF Create

\* Handing a message to the broker keeps its type.
LEMMA PutType ==
  ASSUME TypeOK, NEW m
  PROVE  Put(m) \in [Message -> Nat]
<1>1. CASE m \in Message
  <2>1. broker \in [Message -> Nat] /\ broker[m] + 1 \in Nat
    BY <1>1 DEF TypeOK
  <2>2. QED
    BY <1>1, <2>1 DEF Put
<1>2. CASE m \notin Message
  <2>1. broker \in [Message -> Nat]
    BY DEF TypeOK
  <2>2. Put(m) = broker
    BY <1>2, <2>1 DEF Put
  <2>3. QED
    BY <2>1, <2>2
<1>3. QED
  BY <1>1, <1>2

\* A dispatch writes well-typed rows.
LEMMA OutcomeType ==
  ASSUME NEW job \in Job
  PROVE  Dispatched(job) \in Job /\ Failed(job) \in Job
BY DEF Job, Stored, Dispatched, Failed

\* The steps of a dispatch run keep the types.
LEMMA DispatchTypeOK ==
  ASSUME TypeOK, NEW d \in Dispatchers, Dispatch(d)
  PROVE  TypeOK'
<1>1. CASE DispatchBegin(d)
  <2>1. dispatcher' \in [Dispatchers -> Run]
    BY <1>1 DEF DispatchBegin, TypeOK, Run, Due
  <2>2. QED
    BY <1>1, <2>1 DEF DispatchBegin, TypeOK
<1>2. ASSUME NEW j \in Ids, dispatcher[d].pc = "sending", j \in dispatcher[d].due
      PROVE  /\ dispatcher[d].due \ {j} \in SUBSET Ids
             /\ dispatcher[d].accepted \cup {j} \in SUBSET Ids
             /\ dispatcher[d].refused \cup {j} \in SUBSET Ids
             /\ dispatcher[d].accepted \in SUBSET Ids
             /\ dispatcher[d].refused \in SUBSET Ids
  BY <1>2 DEF TypeOK, Run, NoRun
<1>4. ASSUME NEW j \in Ids PROVE [sent EXCEPT ![j] = @ + 1] \in [Ids -> Nat]
  BY DEF TypeOK
<1>5. ASSUME NEW j \in Ids, DispatchSend(d, j) PROVE TypeOK'
  <2>1. dispatcher' \in [Dispatchers -> Run]
    BY <1>2, <1>5 DEF DispatchSend, IsNextDue, TypeOK, Run
  <2>2. QED
    BY <1>4, <1>5, <2>1, PutType DEF DispatchSend, TypeOK
<1>6. ASSUME NEW j \in Ids, DispatchRefused(d, j) PROVE TypeOK'
  <2>1. dispatcher' \in [Dispatchers -> Run]
    BY <1>2, <1>6 DEF DispatchRefused, IsNextDue, TypeOK, Run
  <2>2. QED
    BY <1>4, <1>6, <2>1, PutType DEF DispatchRefused, TypeOK
<1>7. CASE DispatchCommit(d)
  <2>1. ASSUME NEW j \in Ids
        PROVE  Dispatched(queue[j]) \in Job /\ Failed(queue[j]) \in Job
    BY OutcomeType DEF TypeOK
  <2>2. queue' \in [Ids -> Job]
    BY <1>7, <2>1 DEF DispatchCommit, TypeOK
  <2>3. dispatcher' \in [Dispatchers -> Run]
    BY <1>7 DEF DispatchCommit, TypeOK, Run
  <2>4. QED
    BY <1>7, <2>2, <2>3 DEF DispatchCommit, TypeOK
<1>8. CASE DispatchCrash(d)
  BY <1>8 DEF DispatchCrash, TypeOK, Run
<1>9. QED
  BY <1>1, <1>5, <1>6, <1>7, <1>8 DEF Dispatch

\* Writing an outcome keeps the types.
LEMMA SettleTypeOK ==
  ASSUME TypeOK, NEW w \in Workers, worker[w].pc # "idle",
         NEW status \in {"done", "failed"}, Settle(w, status)
  PROVE  TypeOK'
<1>1. worker[w].msg \in Message
  BY DEF TypeOK, Work, NoWork
<1>2. worker' \in [Workers -> Work]
  <2>1. [pc |-> "ack", msg |-> worker[w].msg] \in Work
    BY <1>1 DEF Work
  <2>2. QED
    BY <2>1 DEF Settle, GoTo, TypeOK
<1>3. queue' \in [Ids -> Job]
  <2>1. ASSUME NEW j \in Ids, queue[j].status # "absent"
        PROVE  [queue[j] EXCEPT !.status = status] \in Job
    BY <2>1 DEF TypeOK, Job, Stored
  <2>2. worker[w].msg.lock_token \in Ids
    BY <1>1 DEF Message
  <2>3. QED
    BY <2>1, <2>2 DEF Settle, TypeOK
<1>4. QED
  BY <1>2, <1>3 DEF Settle, TypeOK

\* The steps of a worker keep the types.
LEMMA KickoffTypeOK ==
  ASSUME TypeOK, NEW w \in Workers, Kickoff(w)
  PROVE  TypeOK'
<1>1. worker[w].pc # "idle" => /\ worker[w].msg \in Message
                               /\ worker[w].msg.filter_id \in Ids
                               /\ worker[w].msg.lock_token \in Ids
  BY DEF TypeOK, Work, NoWork, Message
<1>2. ASSUME NEW pc \in {"fanout", "finish", "fail", "notfound", "ack"},
             worker[w].pc # "idle", GoTo(w, pc)
      PROVE  worker' \in [Workers -> Work]
  BY <1>1, <1>2 DEF GoTo, TypeOK, Work
<1>4. ASSUME NEW m \in Message, KickoffStart(w, m) PROVE TypeOK'
  <2>1. worker' \in [Workers -> Work]
    BY <1>4 DEF KickoffStart, TypeOK, Work
  <2>2. broker' \in [Message -> Nat]
    BY <1>4 DEF KickoffStart, TypeOK, Take
  <2>3. QED
    BY <1>4, <2>1, <2>2 DEF KickoffStart, TypeOK
<1>5. CASE KickoffFanOut(w)
  <2>1. worker' \in [Workers -> Work]
    BY <1>2, <1>5 DEF KickoffFanOut
  <2>2. QED
    BY <1>1, <1>5, <2>1 DEF KickoffFanOut, TypeOK
<1>6. CASE KickoffFinish(w) \/ KickoffNotFound(w) \/ KickoffFail(w)
  BY <1>6, SettleTypeOK DEF KickoffFinish, KickoffNotFound, KickoffFail
<1>7. CASE KickoffAck(w)
  BY <1>7 DEF KickoffAck, TypeOK, Work
<1>8. CASE KickoffError(w)
  <2>1. worker' \in [Workers -> Work]
    BY <1>2, <1>8 DEF KickoffError
  <2>2. QED
    BY <1>8, <2>1 DEF KickoffError, TypeOK
<1>9. CASE KickoffHandlerError(w)
  <2>1. worker' \in [Workers -> Work]
    BY <1>2, <1>9 DEF KickoffHandlerError
  <2>2. QED
    BY <1>1, <1>9, <2>1 DEF KickoffHandlerError, TypeOK
<1>10. CASE KickoffCrash(w)
  BY <1>10, PutType DEF KickoffCrash, TypeOK, Work
<1>11. CASE VisibilityTimeout(w)
  BY <1>11, PutType DEF VisibilityTimeout, TypeOK
<1>12. QED
  BY <1>4, <1>5, <1>6, <1>7, <1>8, <1>9, <1>10, <1>11 DEF Kickoff, KickoffStep

\* Deleting a filter keeps the types.
LEMMA DeleteTypeOK ==
  ASSUME TypeOK, NEW f \in Ids, DeleteFilter(f)
  PROVE  TypeOK'
<1>1. queue' \in [Ids -> Job]
  BY DEF DeleteFilter, TypeOK, Job, NoJob
<1>2. QED
  BY <1>1 DEF DeleteFilter, TypeOK

\* Every step keeps the types.
LEMMA NextTypeOK == TypeOK /\ [Next]_vars => TypeOK'
<1> SUFFICES ASSUME TypeOK, [Next]_vars PROVE TypeOK'
  OBVIOUS
<1>1. CASE Tick
  BY <1>1 DEF Tick, TypeOK
<1>2. ASSUME NEW f \in Ids, UpdateFilter(f) PROVE TypeOK'
  BY <1>2, PutType DEF UpdateFilter, TypeOK
<1>3. CASE UNCHANGED vars
  BY <1>3 DEF vars, TypeOK
<1>4. QED
  BY <1>1, <1>2, <1>3, CreateTypeOK, DispatchTypeOK, KickoffTypeOK,
     DeleteTypeOK DEF Next

\* Every variable of the queue keeps its type: statuses are the enum's, ids are
\* drawn ids, the broker never holds a negative number of messages.
THEOREM TypeCorrect == Spec => []TypeOK
BY InitTypeOK, NextTypeOK, PTL DEF Spec

-----------------------------------------------------------------------------
(* The calendar                                                            *)

\* A step that only takes jobs off the calendar: no booking starts or ends,
\* no row appears, no slot moves.
OnlyEnds ==
  /\ nextJobId' = nextJobId /\ enqueueLock' = enqueueLock /\ request' = request
  /\ \A j \in Ids : queue[j].status = "absent" => queue'[j].status = "absent"
  /\ \A j \in Active' :
       j \in Active /\ queue'[j].scheduled_at = queue[j].scheduled_at

\* The part of CalendarInv that speaks of bookings, and the part about claims.
Bookings ==
  /\ \A j \in Ids : j >= nextJobId => queue[j].status = "absent"
  /\ \A r \in Requests : request[r].pc = "planned" =>
       /\ enqueueLock = r
       /\ request[r].job_id < nextJobId
       /\ queue[request[r].job_id].status = "absent"
       /\ \A k \in Active : request[r].scheduled_at >=
                            queue[k].scheduled_at + FILTER_KICKOFF_INTERVAL
  /\ ActiveSpacing

Claims ==
  \A d \in Dispatchers : dispatcher[d].pc = "sending" =>
    /\ dispatchLock = d
    /\ \A j \in Claimed(d) : queue[j].status = "scheduled"

\* The calendar invariant in two parts, the bookings and the claims.
LEMMA CalendarInvParts == CalendarInv <=> Bookings /\ Claims
BY DEF CalendarInv, Bookings, Claims

\* Initially nothing is booked or claimed.
LEMMA InitCalendarInv == Init => CalendarInv
BY DEF Init, CalendarInv, ActiveSpacing, Active, NoJob, NoRequest, NoRun

\* Taking jobs off the calendar keeps the rest well spaced.
LEMMA OnlyEndsBookings ==
  ASSUME TypeOK, Bookings, OnlyEnds
  PROVE  Bookings'
<1>1. ASSUME NEW r \in Requests, request[r].pc = "planned"
      PROVE  request[r].job_id \in Ids
  BY <1>1 DEF TypeOK, Request, NoRequest
<1>2. Active' \subseteq Ids
  BY DEF Active
<1>3. QED
  BY <1>1, <1>2 DEF Bookings, OnlyEnds, ActiveSpacing

\* The create_filter steps keep the bookings in order.
LEMMA CreateBookings ==
  ASSUME TypeOK, Bookings, NEW r \in Requests, Create(r)
  PROVE  Bookings'
<1>1. CASE CreateFilter(r)
  <2>1. /\ queue' = queue /\ nextJobId' = nextJobId /\ enqueueLock' = enqueueLock
        /\ \A q \in Requests : request'[q].pc = "planned" => request'[q] = request[q]
    BY <1>1 DEF CreateFilter, TypeOK
  <2>2. QED
    BY <2>1 DEF Bookings, ActiveSpacing, Active
<1>2. CASE EnqueueFilterKickoff(r)
  <2>1. PICK slot \in Nat :
          /\ PlanJob(r, slot)
          /\ \A k \in Active :
               slot >= queue[k].scheduled_at + FILTER_KICKOFF_INTERVAL
    <3>1. CASE Active = {} /\ PlanJob(r, now)
      BY <3>1 DEF TypeOK
    <3>2. ASSUME NEW last \in Ids, IsLastJob(last),
                 PlanJob(r, Later(now, queue[last].scheduled_at
                                         + FILTER_KICKOFF_INTERVAL))
          PROVE  \E slot \in Nat :
                   /\ PlanJob(r, slot)
                   /\ \A k \in Active : slot >=
                        queue[k].scheduled_at + FILTER_KICKOFF_INTERVAL
      <4>1. \A k \in Active : queue[k].scheduled_at \in Nat
        BY DEF Active, TypeOK, Job
      <4>2. queue[last].scheduled_at \in Nat
        BY DEF TypeOK, Job
      <4>3. \A k \in Active : queue[k].scheduled_at <= queue[last].scheduled_at
        BY <3>2 DEF IsLastJob
      <4>4. \A k \in Active :
              Later(now, queue[last].scheduled_at + FILTER_KICKOFF_INTERVAL)
                >= queue[k].scheduled_at + FILTER_KICKOFF_INTERVAL
        BY <4>1, <4>2, <4>3, IntervalAssumption DEF Later, TypeOK
      <4>5. QED
        BY <3>2, <4>4, SlotType
    <3>3. QED
      BY <1>2, <3>1, <3>2 DEF EnqueueFilterKickoff
  <2>2. /\ queue' = queue /\ nextJobId \in Ids /\ nextJobId' = nextJobId + 1
        /\ enqueueLock = NoOne /\ enqueueLock' = r
    BY <1>2 DEF EnqueueFilterKickoff, CanLockEnqueue
  <2>3. Active' = Active
    BY <2>2 DEF Active
  <2>4. \A q \in Requests : request[q].pc # "planned"
    BY <2>2, NoOneAssumption DEF Bookings
  <2>5. \A q \in Requests : request'[q].pc = "planned" =>
          /\ q = r /\ request'[q].job_id = nextJobId
          /\ request'[q].scheduled_at = slot
    BY <2>1, <2>4 DEF PlanJob, TypeOK
  <2>6. queue[nextJobId].status = "absent"
    BY <2>2, MaxIdsAssumption DEF Bookings, Ids
  <2>7. \A j \in Ids : j >= nextJobId' => queue'[j].status = "absent"
    BY <2>2, MaxIdsAssumption DEF Bookings, Ids
  <2>8. nextJobId < nextJobId'
    BY <2>2, MaxIdsAssumption DEF Ids
  <2>9. QED
    BY <2>1, <2>2, <2>3, <2>5, <2>6, <2>7, <2>8 DEF Bookings, ActiveSpacing
<1>3. CASE CommitCreate(r)
  <2> DEFINE j == request[r].job_id
             s == request[r].scheduled_at
  <2>1. /\ j \in Ids /\ s \in Nat /\ j < nextJobId /\ enqueueLock = r
        /\ queue[j].status = "absent"
        /\ \A k \in Active : s >= queue[k].scheduled_at + FILTER_KICKOFF_INTERVAL
    BY <1>3 DEF CommitCreate, Bookings, TypeOK, Request, NoRequest
  <2>2. /\ queue'[j].status = "scheduled" /\ queue'[j].scheduled_at = s
        /\ \A k \in Ids : k # j => queue'[k] = queue[k]
        /\ nextJobId' = nextJobId
    BY <1>3, <2>1 DEF CommitCreate, TypeOK
  <2>3. Active' = Active \cup {j}
    BY <2>1, <2>2 DEF Active
  <2>4. \A q \in Requests : request'[q].pc # "planned"
    BY <1>3, <2>1 DEF CommitCreate, Bookings, TypeOK, NoRequest
  <2>5. \A k \in Ids : k >= nextJobId' => queue'[k].status = "absent"
    BY <2>1, <2>2, MaxIdsAssumption DEF Bookings, Ids, TypeOK
  <2>6. ActiveSpacing'
    BY <2>1, <2>2, <2>3 DEF Bookings, ActiveSpacing, Active
  <2>7. QED
    BY <2>4, <2>5, <2>6 DEF Bookings
<1>4. CASE AbortCreate(r)
  <2>1. /\ queue' = queue /\ nextJobId' = nextJobId
        /\ \A q \in Requests : request'[q].pc = "planned" =>
             /\ q # r /\ request'[q] = request[q]
             /\ enqueueLock = q => enqueueLock' = q
    BY <1>4 DEF AbortCreate, TypeOK, NoRequest
  <2>2. QED
    BY <2>1 DEF Bookings, ActiveSpacing, Active
<1>5. QED
  BY <1>1, <1>2, <1>3, <1>4 DEF Create

\* A worker's outcome takes a job off the calendar; it touches no claimed row.
LEMMA SettleEnds ==
  ASSUME TypeOK, Claims, NEW w \in Workers, NEW status \in {"done", "failed"},
         Settle(w, status)
  PROVE  OnlyEnds /\ Claims'
<1>1. \A j \in Ids : \/ queue'[j] = queue[j]
                     \/ /\ queue[j].status # "absent" /\ ~RowLocked(j)
                        /\ queue'[j].status = status
  BY DEF Settle, TypeOK
<1>2. OnlyEnds
  BY <1>1 DEF OnlyEnds, Settle, createVars, Active
<1>3. dispatcher' = dispatcher /\ dispatchLock' = dispatchLock
  BY DEF Settle, dispatchVars
<1>4. ASSUME NEW d \in Dispatchers, dispatcher[d].pc = "sending"
      PROVE  Claimed(d) \subseteq Ids
  BY <1>4 DEF Claimed, TypeOK, Run, NoRun
<1>5. Claims'
  BY <1>1, <1>3, <1>4 DEF Claims, RowLocked, Claimed
<1>6. QED
  BY <1>2, <1>5

\* Deleting a filter takes its job off the calendar, never a claimed one.
LEMMA DeleteEnds ==
  ASSUME TypeOK, Claims, NEW f \in Ids, DeleteFilter(f)
  PROVE  OnlyEnds /\ Claims'
<1>1. \A j \in Ids : \/ queue'[j] = queue[j]
                     \/ ~RowLocked(j) /\ queue'[j].status = "absent"
  BY DEF DeleteFilter, NoJob, TypeOK
<1>2. OnlyEnds
  BY <1>1 DEF OnlyEnds, DeleteFilter, createVars, Active
<1>3. dispatcher' = dispatcher /\ dispatchLock' = dispatchLock
  BY DEF DeleteFilter, dispatchVars
<1>4. ASSUME NEW d \in Dispatchers, dispatcher[d].pc = "sending"
      PROVE  Claimed(d) \subseteq Ids
  BY <1>4 DEF Claimed, TypeOK, Run, NoRun
<1>5. Claims'
  BY <1>1, <1>3, <1>4 DEF Claims, RowLocked, Claimed
<1>6. QED
  BY <1>2, <1>5

\* A dispatch run moves no slot, and only the lock's owner has claims.
LEMMA DispatchEnds ==
  ASSUME TypeOK, Claims, NEW d \in Dispatchers, Dispatch(d)
  PROVE  OnlyEnds /\ Claims'
<1>1. CASE DispatchBegin(d)
  <2>1. OnlyEnds
    BY <1>1 DEF DispatchBegin, OnlyEnds, createVars, queueVars, Active
  <2>2. dispatchLock' = d /\ queue' = queue
    BY <1>1 DEF DispatchBegin, queueVars
  <2>3. \A e \in Dispatchers : dispatcher[e].pc # "sending"
    BY <1>1, NoOneAssumption DEF DispatchBegin, Claims
  <2>4. ASSUME NEW e \in Dispatchers, dispatcher'[e].pc = "sending"
        PROVE  e = d /\ \A j \in Claimed(e)' : queue[j].status = "scheduled"
    BY <1>1, <2>3, <2>4 DEF DispatchBegin, TypeOK, Claimed, Due
  <2>5. QED
    BY <2>1, <2>2, <2>4 DEF Claims
<1>2. ASSUME NEW j \in Ids, DispatchSend(d, j) \/ DispatchRefused(d, j)
      PROVE  OnlyEnds /\ Claims'
  <2>1. OnlyEnds
    BY <1>2 DEF DispatchSend, DispatchRefused, OnlyEnds, createVars, queueVars,
       Active
  <2>2. dispatchLock' = dispatchLock /\ queue' = queue
    BY <1>2 DEF DispatchSend, DispatchRefused, queueVars
  <2>3. ASSUME NEW e \in Dispatchers, dispatcher'[e].pc = "sending"
        PROVE  dispatcher[e].pc = "sending" /\ Claimed(e)' \subseteq Claimed(e)
    BY <1>2, <2>3 DEF DispatchSend, DispatchRefused, IsNextDue, TypeOK, Claimed
  <2>4. QED
    BY <2>1, <2>2, <2>3 DEF Claims
<1>3. CASE DispatchCommit(d)
  <2>1. dispatcher[d].pc = "sending" /\ dispatchLock = d
    BY <1>3 DEF DispatchCommit, Claims
  <2>2. \A j \in Ids : \/ queue'[j] = queue[j]
                       \/ /\ queue[j].status = "scheduled"
                          /\ queue'[j].status \in {"dispatched", "failed"}
                          /\ queue'[j].scheduled_at = queue[j].scheduled_at
    <3> SUFFICES ASSUME NEW j \in Ids, queue'[j] # queue[j]
                 PROVE  /\ queue[j].status = "scheduled"
                        /\ queue'[j].status \in {"dispatched", "failed"}
                        /\ queue'[j].scheduled_at = queue[j].scheduled_at
      OBVIOUS
    <3>1. \/ j \in dispatcher[d].accepted /\ queue'[j] = Dispatched(queue[j])
          \/ j \in dispatcher[d].refused /\ queue'[j] = Failed(queue[j])
      BY <1>3 DEF DispatchCommit
    <3>2. queue[j].status = "scheduled" /\ queue[j] \in Job
      BY <2>1, <3>1 DEF Claims, Claimed, TypeOK
    <3>3. QED
      BY <3>1, <3>2 DEF Dispatched, Failed, Job
  <2>3. OnlyEnds
    BY <1>3, <2>2 DEF DispatchCommit, OnlyEnds, createVars, Active
  <2>4. \A e \in Dispatchers : dispatcher'[e].pc # "sending"
    BY <1>3, <2>1 DEF DispatchCommit, Claims, TypeOK, NoRun
  <2>5. QED
    BY <2>3, <2>4 DEF Claims
<1>4. CASE DispatchCrash(d)
  <2>1. dispatcher[d].pc = "sending" /\ dispatchLock = d
    BY <1>4 DEF DispatchCrash, Claims
  <2>2. OnlyEnds
    BY <1>4 DEF DispatchCrash, OnlyEnds, createVars, queueVars, Active
  <2>3. \A e \in Dispatchers : dispatcher'[e].pc # "sending"
    BY <1>4, <2>1 DEF DispatchCrash, Claims, TypeOK, NoRun
  <2>4. QED
    BY <2>2, <2>3 DEF Claims
<1>5. QED
  BY <1>1, <1>2, <1>3, <1>4 DEF Dispatch

\* A worker takes at most one job off the calendar.
LEMMA KickoffEnds ==
  ASSUME TypeOK, Claims, NEW w \in Workers, Kickoff(w)
  PROVE  OnlyEnds /\ Claims'
<1>1. CASE KickoffFinish(w) \/ KickoffNotFound(w) \/ KickoffFail(w)
  BY <1>1, SettleEnds DEF KickoffFinish, KickoffNotFound, KickoffFail
<1>2. CASE UNCHANGED <<queueVars, createVars, dispatchVars>>
  BY <1>2 DEF OnlyEnds, queueVars, createVars, dispatchVars, Active, Claims,
     Claimed
<1>3. \/ KickoffFinish(w) \/ KickoffNotFound(w) \/ KickoffFail(w)
      \/ UNCHANGED <<queueVars, createVars, dispatchVars>>
  BY DEF Kickoff, KickoffStep, KickoffStart, KickoffFanOut, KickoffAck,
     KickoffError, KickoffHandlerError, KickoffCrash, VisibilityTimeout
<1>4. QED
  BY <1>1, <1>2, <1>3

\* A create_filter step leaves what is claimed alone: the row it adds was
\* absent.
LEMMA CreateClaims ==
  ASSUME TypeOK, Bookings, Claims, NEW r \in Requests, Create(r)
  PROVE  Claims'
<1>1. dispatcher' = dispatcher /\ dispatchLock' = dispatchLock
  BY DEF Create, CreateFilter, EnqueueFilterKickoff, CommitCreate, AbortCreate,
     dispatchVars
<1>2. \A j \in Ids : queue[j].status = "scheduled" => queue'[j] = queue[j]
  <2>1. CASE CommitCreate(r)
    BY <2>1 DEF CommitCreate, Bookings, TypeOK
  <2>2. CASE queue' = queue
    BY <2>2
  <2>3. QED
    BY <2>1, <2>2 DEF Create, CreateFilter, EnqueueFilterKickoff, AbortCreate,
       queueVars
<1>3. ASSUME NEW d \in Dispatchers, dispatcher[d].pc = "sending"
      PROVE  Claimed(d) \subseteq Ids
  BY <1>3 DEF Claimed, TypeOK, Run, NoRun
<1>4. QED
  BY <1>1, <1>2, <1>3 DEF Claims, Claimed

\* Every step is a create_filter step or only takes jobs off the calendar.
LEMMA StepKinds ==
  ASSUME TypeOK, Bookings, Claims, [Next]_vars
  PROVE  /\ Claims'
         /\ OnlyEnds \/ \E r \in Requests : Create(r)
<1>1. ASSUME NEW r \in Requests, Create(r) PROVE Claims'
  BY <1>1, CreateClaims
<1>2. CASE UNCHANGED <<queueVars, createVars, dispatchVars>>
  BY <1>2 DEF OnlyEnds, queueVars, createVars, dispatchVars, Active, Claims,
     Claimed
<1>3. \/ \E r \in Requests : Create(r)
      \/ \E d \in Dispatchers : Dispatch(d)
      \/ \E w \in Workers : Kickoff(w)
      \/ \E f \in Ids : DeleteFilter(f)
      \/ UNCHANGED <<queueVars, createVars, dispatchVars>>
  BY DEF Next, Tick, UpdateFilter, vars
<1>4. QED
  BY <1>1, <1>2, <1>3, DispatchEnds, KickoffEnds, DeleteEnds

\* CalendarInv is inductive.
LEMMA NextCalendarInv == TypeOK /\ CalendarInv /\ [Next]_vars => CalendarInv'
BY StepKinds, OnlyEndsBookings, CreateBookings, CalendarInvParts DEF CalendarInv,
   Bookings, Claims

\* CalendarInv holds in every reachable state.
THEOREM CalendarInvariant == Spec => []CalendarInv
<1>1. Init => TypeOK /\ CalendarInv
  BY InitTypeOK, InitCalendarInv
<1>2. TypeOK /\ CalendarInv /\ [Next]_vars => (TypeOK /\ CalendarInv)'
  BY NextTypeOK, NextCalendarInv
<1>3. QED
  BY <1>1, <1>2, PTL DEF Spec

\* Kickoffs of active rows are at least FILTER_KICKOFF_INTERVAL apart
\* (enqueue_filter_kickoff), for any number of concurrent requests and runs.
THEOREM Spacing == Spec => []ActiveSpacing
BY CalendarInvariant, PTL DEF CalendarInv

\* A row with an outcome never becomes active again.
THEOREM FinalOutcomes == Spec => OutcomeIsFinal
<1>1. TypeOK /\ CalendarInv /\ [Next]_vars =>
        [\A j \in Ids : queue[j].status \in {"done", "failed"}
                          => j \notin Active']_vars
  <2> SUFFICES ASSUME TypeOK, CalendarInv, [Next]_vars, NEW j \in Ids,
                      queue[j].status \in {"done", "failed"}
               PROVE  j \notin Active'
    OBVIOUS
  <2>1. CASE OnlyEnds
    BY <2>1 DEF OnlyEnds, Active
  <2>2. ASSUME NEW r \in Requests, Create(r) PROVE queue'[j] = queue[j]
    <3>1. CASE CommitCreate(r)
      BY <3>1 DEF CommitCreate, CalendarInv, TypeOK
    <3>2. QED
      BY <2>2, <3>1 DEF Create, CreateFilter, EnqueueFilterKickoff, AbortCreate
  <2>3. QED
    BY <2>1, <2>2, StepKinds, CalendarInvParts DEF Active
<1>2. QED
  BY <1>1, TypeCorrect, CalendarInvariant, PTL DEF Spec, OutcomeIsFinal

-----------------------------------------------------------------------------
(* The refinement                                                          *)

\* The initial states map to the initial state of the calendar.
LEMMA InitRefines == Init => Abstract!Init
BY MaxIdsAssumption DEF Init, Abstract!Init, stageOf, slotOf, Active, NoJob, Ids,
   BeingBooked

\* An active row's id has been drawn and is not being booked.
LEMMA ActiveIsBooked ==
  ASSUME TypeOK, CalendarInv, NEW j \in Active
  PROVE  j < nextJobId /\ ~BeingBooked(j)
<1>1. j \in Ids /\ queue[j].status # "absent"
  BY DEF Active
<1>2. j < nextJobId
  BY <1>1, MaxIdsAssumption DEF CalendarInv, TypeOK, Ids
<1>3. ~BeingBooked(j)
  BY <1>1 DEF CalendarInv, BeingBooked
<1>4. QED
  BY <1>2, <1>3

\* Jobs leaving the calendar: End, with the set of jobs that left it.
LEMMA OnlyEndsRefines ==
  ASSUME TypeOK, CalendarInv, OnlyEnds
  PROVE  Abstract!Next
<1> DEFINE S == Active \ Active'
<1>1. S \in SUBSET Ids /\ Active' \subseteq Active
  BY DEF Active, OnlyEnds
<1>2. nextJobId' = nextJobId /\ \A j \in Ids : BeingBooked(j)' = BeingBooked(j)
  BY DEF OnlyEnds, BeingBooked
<1>3. stageOf' = [j \in Ids |-> IF j \in S THEN "over" ELSE stageOf[j]]
  <2>1. ASSUME NEW j \in Ids
        PROVE  stageOf'[j] = IF j \in S THEN "over" ELSE stageOf[j]
    <3>1. CASE j \in S
      <4>1. j \in Active /\ j \notin Active'
        BY <3>1
      <4>2. ~(j >= nextJobId') /\ ~BeingBooked(j)'
        BY <1>2, <4>1, ActiveIsBooked, MaxIdsAssumption DEF TypeOK, Ids
      <4>3. QED
        BY <3>1, <4>1, <4>2 DEF stageOf
    <3>2. CASE j \notin S
      <4>1. j \in Active <=> j \in Active'
        BY <1>1, <3>2
      <4>2. QED
        BY <1>2, <3>2, <4>1 DEF stageOf
    <3>3. QED
      BY <3>1, <3>2
  <2>2. QED
    BY <2>1 DEF stageOf
<1>4. slotOf' = [j \in Ids |-> IF j \in S THEN 0 ELSE slotOf[j]]
  BY <1>1 DEF slotOf, OnlyEnds
<1>5. Abstract!End(S)
  BY <1>3, <1>4 DEF Abstract!End
<1>6. QED
  BY <1>1, <1>5 DEF Abstract!Next

\* The commit of a create_filter call is the booking.
LEMMA CommitRefines ==
  ASSUME TypeOK, CalendarInv, NEW r \in Requests, CommitCreate(r)
  PROVE  Abstract!Next
<1> DEFINE j == request[r].job_id
           s == request[r].scheduled_at
<1>1. /\ j \in Ids /\ s \in Nat /\ j < nextJobId /\ enqueueLock = r
      /\ queue[j].status = "absent" /\ request[r].pc = "planned"
      /\ \A k \in Active : s >= queue[k].scheduled_at + FILTER_KICKOFF_INTERVAL
  BY DEF CommitCreate, CalendarInv, TypeOK, Request, NoRequest
<1>2. /\ queue'[j].status = "scheduled" /\ queue'[j].scheduled_at = s
      /\ \A k \in Ids : k # j => queue'[k] = queue[k]
      /\ nextJobId' = nextJobId
  BY <1>1 DEF CommitCreate, TypeOK
<1>3. Active' = Active \cup {j} /\ j \notin Active
  BY <1>1, <1>2 DEF Active
<1>4. \A q \in Requests : q # r => request[q].pc # "planned" /\ request'[q] = request[q]
  BY <1>1 DEF CommitCreate, CalendarInv, TypeOK
<1>5. request'[r].pc # "planned"
  BY DEF CommitCreate, TypeOK, NoRequest
<1>6. \A k \in Ids : k # j => ~BeingBooked(k) /\ ~BeingBooked(k)'
  BY <1>4, <1>5 DEF BeingBooked
<1>7. BeingBooked(j)
  BY <1>1 DEF BeingBooked
<1>8. stageOf[j] = "unused"
  BY <1>1, <1>3, <1>7 DEF stageOf
<1>9. stageOf' = [stageOf EXCEPT ![j] = "booked"]
  BY <1>1, <1>2, <1>3, <1>6 DEF stageOf
<1>10. slotOf'[j] = s
  BY <1>1, <1>2, <1>3 DEF slotOf
<1>11. slotOf' = [slotOf EXCEPT ![j] = slotOf'[j]]
  BY <1>1, <1>2, <1>3 DEF slotOf
<1>12. \A k \in Abstract!Booked : slotOf'[j] >= slotOf[k] + FILTER_KICKOFF_INTERVAL
  BY <1>1, <1>10 DEF Abstract!Booked, stageOf, slotOf
<1>13. Abstract!Book(j)
  BY <1>1, <1>8, <1>9, <1>10, <1>11, <1>12 DEF Abstract!Book
<1>14. QED
  BY <1>1, <1>13 DEF Abstract!Next

\* Drawing ids and choosing a slot does not show; a rollback ends the job.
LEMMA CreateRefines ==
  ASSUME TypeOK, CalendarInv, NEW r \in Requests, Create(r)
  PROVE  Abstract!Next \/ UNCHANGED <<stageOf, slotOf>>
<1>1. CASE CreateFilter(r)
  <2>1. queue' = queue /\ nextJobId' = nextJobId
    BY <1>1 DEF CreateFilter
  <2>2. \A j \in Ids : BeingBooked(j)' <=> BeingBooked(j)
    BY <1>1 DEF CreateFilter, BeingBooked, TypeOK
  <2>3. QED
    BY <2>1, <2>2 DEF stageOf, slotOf, Active
<1>2. CASE EnqueueFilterKickoff(r)
  <2>1. queue' = queue /\ nextJobId' = nextJobId + 1 /\ nextJobId \in Ids
    BY <1>2 DEF EnqueueFilterKickoff
  <2>2. PICK slot : PlanJob(r, slot)
    BY <1>2 DEF EnqueueFilterKickoff
  <2>3. request[r].pc = "flushed"
    BY <1>2 DEF EnqueueFilterKickoff
  <2>4. \A j \in Ids : BeingBooked(j)' <=> BeingBooked(j) \/ j = nextJobId
    BY <2>2, <2>3 DEF PlanJob, BeingBooked, TypeOK
  <2>5. \A j \in Ids : j >= nextJobId \/ BeingBooked(j)
                         <=> j >= nextJobId' \/ BeingBooked(j)'
    BY <2>1, <2>4, MaxIdsAssumption DEF Ids
  <2>6. QED
    BY <2>1, <2>5 DEF stageOf, slotOf, Active
<1>3. CASE CommitCreate(r)
  BY <1>3, CommitRefines
<1>4. CASE AbortCreate(r)
  <2>1. queue' = queue /\ nextJobId' = nextJobId
    BY <1>4 DEF AbortCreate, queueVars
  <2>2. \A q \in Requests : q # r => request'[q] = request[q]
    BY <1>4 DEF AbortCreate, TypeOK
  <2>3. request'[r].pc # "planned"
    BY <1>4 DEF AbortCreate, TypeOK, NoRequest
  <2>4. CASE request[r].pc # "planned"
    <3>1. \A j \in Ids : BeingBooked(j)' <=> BeingBooked(j)
      BY <2>2, <2>3, <2>4 DEF BeingBooked
    <3>2. QED
      BY <2>1, <3>1 DEF stageOf, slotOf, Active
  <2>5. CASE request[r].pc = "planned"
    <3> DEFINE j == request[r].job_id
    <3>1. /\ j \in Ids /\ j < nextJobId /\ j \notin Active
          /\ \A q \in Requests : q # r => request[q].pc # "planned"
      BY <2>5 DEF CalendarInv, TypeOK, Request, NoRequest, Active
    <3>2. \A k \in Ids : ~BeingBooked(k)' /\ (k # j => ~BeingBooked(k))
      BY <2>2, <2>3, <3>1 DEF BeingBooked
    <3>3. ~(j >= nextJobId)
      BY <3>1, MaxIdsAssumption DEF TypeOK, Ids
    <3>4. stageOf' = [k \in Ids |-> IF k \in {j} THEN "over" ELSE stageOf[k]]
      BY <2>1, <3>1, <3>2, <3>3 DEF stageOf, Active
    <3>5. slotOf' = [k \in Ids |-> IF k \in {j} THEN 0 ELSE slotOf[k]]
      BY <2>1, <3>1 DEF slotOf, Active
    <3>6. QED
      BY <3>1, <3>4, <3>5 DEF Abstract!Next, Abstract!End
  <2>6. QED
    BY <2>4, <2>5
<1>5. QED
  BY <1>1, <1>2, <1>3, <1>4 DEF Create

\* The queue implements the calendar: every step books one job behind all
\* others, ends jobs, or does not show.
THEOREM QueueImplementsCalendar == Spec => ImplementsCalendar
<1>1. TypeOK /\ CalendarInv /\ [Next]_vars => [Abstract!Next]_<<stageOf, slotOf>>
  BY StepKinds, OnlyEndsRefines, CreateRefines, CalendarInvParts
<1>2. QED
  BY <1>1, InitRefines, TypeCorrect, CalendarInvariant, PTL
     DEF Spec, ImplementsCalendar, Abstract!Spec, Abstract!vars
-----------------------------------------------------------------------------
(* The sends                                                               *)

\* A dispatch run has been through the row.
Handled(j) == \E d \in Dispatchers :
                j \in dispatcher[d].accepted \cup dispatcher[d].refused

\* Why SendsBounded holds: an id nobody has booked was never sent; what a run
\* has claimed is due; a row that is still scheduled was sent by runs that died,
\* and once more by the run that has just been through it.
SendsInv ==
  /\ \A j \in Ids : j >= nextJobId => sent[j] = 0
  /\ \A r \in Requests : request[r].pc = "planned" =>
       sent[request[r].job_id] = 0
  /\ \A d \in Dispatchers :
       /\ dispatcher[d].due \cap (dispatcher[d].accepted
                                    \cup dispatcher[d].refused) = {}
       /\ \A j \in Claimed(d) : queue[j].scheduled_at <= now
  /\ \A j \in Ids : /\ queue[j].status \in {"absent", "scheduled"}
                         => queue[j].attempts = 0
                    /\ queue[j].status = "scheduled" /\ ~Handled(j)
                         => sent[j] <= dispatcherCrashes
  /\ SendsBounded

\* What a run has claimed are rows; a run that is not sending has none.
LEMMA ClaimedRows ==
  ASSUME TypeOK, NEW d \in Dispatchers
  PROVE  /\ Claimed(d) \subseteq Ids
         /\ dispatcher[d].pc # "sending" => Claimed(d) = {}
BY DEF TypeOK, Run, NoRun, Claimed

\* Nothing is sent at first.
LEMMA InitSendsInv == Init => SendsInv
BY DEF Init, SendsInv, SendsBounded, NoJob, NoRequest, NoRun, Claimed

\* A create_filter call books a row that was never sent.
LEMMA CreateSends ==
  ASSUME TypeOK, CalendarInv, SendsInv, NEW r \in Requests, Create(r)
  PROVE  SendsInv'
<1>1. UNCHANGED <<now, dispatchVars>>
  BY DEF Create, CreateFilter, EnqueueFilterKickoff, CommitCreate, AbortCreate
<1>2. CASE CreateFilter(r) \/ AbortCreate(r)
  <2>1. queue' = queue /\ nextJobId' = nextJobId
    BY <1>2 DEF CreateFilter, AbortCreate
  <2>2. \A q \in Requests : request'[q].pc = "planned" => request'[q] = request[q]
    BY <1>2 DEF CreateFilter, AbortCreate, TypeOK, NoRequest
  <2>3. QED
    BY <1>1, <2>1, <2>2 DEF SendsInv, SendsBounded, Handled, Claimed
<1>3. CASE EnqueueFilterKickoff(r)
  <2>1. queue' = queue /\ nextJobId' = nextJobId + 1 /\ nextJobId \in Ids
    BY <1>3 DEF EnqueueFilterKickoff
  <2>2. \A q \in Requests : request'[q].pc = "planned" =>
          request'[q] = request[q] \/ request'[q].job_id = nextJobId
    BY <1>3 DEF EnqueueFilterKickoff, PlanJob, TypeOK
  <2>3. sent[nextJobId] = 0 /\ \A j \in Ids : j >= nextJobId' => sent[j] = 0
    BY <2>1, MaxIdsAssumption DEF SendsInv, Ids
  <2>4. QED
    BY <1>1, <2>1, <2>2, <2>3 DEF SendsInv, SendsBounded, Handled, Claimed
<1>4. CASE CommitCreate(r)
  <2> DEFINE j == request[r].job_id
  <2>1. /\ j \in Ids /\ sent[j] = 0 /\ queue[j].status = "absent"
    BY <1>4 DEF CommitCreate, CalendarInv, SendsInv, TypeOK, Request, NoRequest
  <2>2. /\ queue'[j].status = "scheduled" /\ queue'[j].attempts = 0
        /\ \A k \in Ids : k # j => queue'[k] = queue[k]
        /\ nextJobId' = nextJobId
    BY <1>4, <2>1 DEF CommitCreate, TypeOK
  <2>3. \A q \in Requests : request'[q].pc # "planned"
    BY <1>4 DEF CommitCreate, CalendarInv, TypeOK, NoRequest
  <2>4. \A d \in Dispatchers : Claimed(d) \subseteq Ids /\ j \notin Claimed(d)
    BY <2>1, ClaimedRows DEF CalendarInv
  <2>5. dispatcherCrashes \in Nat
    BY DEF TypeOK
  <2>6. \A d \in Dispatchers : \A k \in Claimed(d)' : queue'[k].scheduled_at <= now'
    BY <1>1, <2>2, <2>4 DEF SendsInv, Claimed
  <2>7. SendsBounded'
    BY <1>1, <2>1, <2>2, <2>5 DEF SendsInv, SendsBounded
  <2>8. QED
    BY <1>1, <2>1, <2>2, <2>3, <2>5, <2>6, <2>7 DEF SendsInv, Handled
<1>5. QED
  BY <1>2, <1>3, <1>4 DEF Create

\* Starting a run claims rows that are due, none of which it has been through.
LEMMA BeginSends ==
  ASSUME TypeOK, CalendarInv, SendsInv, NEW d \in Dispatchers, DispatchBegin(d)
  PROVE  SendsInv'
<1>1. /\ UNCHANGED <<now, queueVars, createVars, dispatcherCrashes, sent>>
      /\ dispatcher[d].pc = "idle"
  BY DEF DispatchBegin
<1>2. PICK started \in 0..now :
        dispatcher' = [dispatcher EXCEPT ![d] =
          [pc |-> "sending", due |-> Due(started), accepted |-> {}, refused |-> {}]]
  BY DEF DispatchBegin
<1>3. \A j \in Due(started) : j \in Ids /\ queue[j].scheduled_at <= now
  BY DEF Due, TypeOK, Job
<1>4. \A j : Handled(j)' <=> Handled(j)
  BY <1>1, <1>2, ClaimedRows DEF Handled, Claimed, TypeOK
<1>5. ASSUME NEW e \in Dispatchers
      PROVE  /\ (dispatcher[e].due \cap (dispatcher[e].accepted
                                           \cup dispatcher[e].refused))' = {}
             /\ \A j \in Claimed(e)' : queue[j].scheduled_at <= now
  BY <1>2, <1>3 DEF SendsInv, Claimed, TypeOK
<1>6. QED
  BY <1>1, <1>4, <1>5 DEF SendsInv, SendsBounded

\* A row is sent only when its run has claimed it and has not been through it;
\* it was scheduled, so runs that died have sent it at most once each.
LEMMA SendSends ==
  ASSUME TypeOK, CalendarInv, SendsInv, NEW d \in Dispatchers, NEW j \in Ids,
         DispatchSend(d, j) \/ DispatchRefused(d, j)
  PROVE  SendsInv'
<1>1. /\ UNCHANGED <<now, queueVars, createVars, dispatcherCrashes>>
      /\ dispatcher[d].pc = "sending" /\ j \in dispatcher[d].due
  BY DEF DispatchSend, DispatchRefused, IsNextDue
<1>2. /\ queue[j].status = "scheduled" /\ queue[j].scheduled_at <= now
      /\ j \notin dispatcher[d].accepted \cup dispatcher[d].refused
  BY <1>1 DEF CalendarInv, SendsInv, Claimed
<1>3. ~Handled(j)
  BY <1>1, <1>2, ClaimedRows DEF CalendarInv, Handled, Claimed
<1>4. sent[j] \in Nat /\ dispatcherCrashes \in Nat /\ sent[j] <= dispatcherCrashes
  BY <1>2, <1>3 DEF SendsInv, TypeOK
<1>5. /\ sent'[j] \in {sent[j], sent[j] + 1}
      /\ \A k \in Ids : k # j => sent'[k] = sent[k]
  BY DEF DispatchSend, DispatchRefused, TypeOK
<1>6. /\ dispatcher'[d].due = dispatcher[d].due \ {j}
      /\ dispatcher'[d].accepted \cup dispatcher'[d].refused
           = dispatcher[d].accepted \cup dispatcher[d].refused \cup {j}
      /\ \A e \in Dispatchers : e # d => dispatcher'[e] = dispatcher[e]
  BY DEF DispatchSend, DispatchRefused, TypeOK
<1>7. \A k \in Ids : Handled(k)' <=> Handled(k) \/ k = j
  BY <1>6 DEF Handled
<1>8. \A e \in Dispatchers : Claimed(e)' = Claimed(e)
  BY <1>1, <1>6 DEF Claimed
<1>9. SendsBounded'
  BY <1>1, <1>2, <1>4, <1>5 DEF SendsInv, SendsBounded
<1>10. \A k \in Ids : k >= nextJobId => k # j
  BY <1>2 DEF CalendarInv
<1>11. \A q \in Requests : request[q].pc = "planned" =>
         request[q].job_id \in Ids /\ request[q].job_id # j
  BY <1>2 DEF CalendarInv, TypeOK, Request, NoRequest
<1>12. \A e \in Dispatchers :
         (dispatcher[e].due \cap (dispatcher[e].accepted
                                    \cup dispatcher[e].refused))' = {}
  BY <1>6 DEF SendsInv
<1>13. QED
  BY <1>1, <1>5, <1>7, <1>8, <1>9, <1>10, <1>11, <1>12 DEF SendsInv

\* The commit counts one attempt on rows that had none.
LEMMA CommitSends ==
  ASSUME TypeOK, CalendarInv, SendsInv, NEW d \in Dispatchers, DispatchCommit(d)
  PROVE  SendsInv'
<1>1. /\ UNCHANGED <<now, nextJobId, createVars, dispatcherCrashes, sent>>
      /\ dispatcher[d].pc = "sending" /\ dispatcher[d].due = {}
      /\ dispatcher' = [dispatcher EXCEPT ![d] = NoRun]
  BY DEF DispatchCommit
<1>2. \A e \in Dispatchers : e # d => Claimed(e) = {}
  BY <1>1, ClaimedRows DEF CalendarInv
<1>3. \A e \in Dispatchers : Claimed(e)' = {} /\ dispatcher'[e].due = {}
  BY <1>1, <1>2 DEF Claimed, NoRun, TypeOK
<1>4. ASSUME NEW j \in Ids
      PROVE  /\ queue'[j].scheduled_at = queue[j].scheduled_at
             /\ queue'[j].status = "absent" <=> queue[j].status = "absent"
             /\ queue'[j].attempts <= 1
             /\ queue'[j].status \in {"absent", "scheduled"} =>
                  queue'[j] = queue[j] /\ ~Handled(j)
  <2>1. CASE Handled(j)
    <3>1. queue[j].status = "scheduled" /\ queue[j].attempts = 0
      BY <1>1, <1>2, <2>1 DEF Handled, Claimed, CalendarInv, SendsInv
    <3>2. queue'[j] = Dispatched(queue[j]) \/ queue'[j] = Failed(queue[j])
      BY <1>2, <2>1 DEF DispatchCommit, Handled, Claimed
    <3>3. queue[j] \in Job
      BY DEF TypeOK
    <3>4. QED
      BY <3>1, <3>2, <3>3 DEF Dispatched, Failed, Job
  <2>2. CASE ~Handled(j)
    <3>1. queue'[j] = queue[j]
      BY <2>2 DEF DispatchCommit, Handled
    <3>2. QED
      BY <2>2, <3>1 DEF SendsInv, SendsBounded
  <2>3. QED
    BY <2>1, <2>2
<1>5. \A j \in Ids : ~Handled(j)'
  BY <1>3 DEF Handled, Claimed
<1>6. QED
  BY <1>1, <1>3, <1>4, <1>5 DEF SendsInv, SendsBounded

\* A run that dies leaves its rows scheduled: they may be sent once more.
LEMMA CrashSends ==
  ASSUME TypeOK, CalendarInv, SendsInv, NEW d \in Dispatchers, DispatchCrash(d)
  PROVE  SendsInv'
<1>1. /\ UNCHANGED <<now, queueVars, createVars, sent>>
      /\ dispatcherCrashes' = dispatcherCrashes + 1
      /\ dispatcher' = [dispatcher EXCEPT ![d] = NoRun]
  BY DEF DispatchCrash
<1>2. \A e \in Dispatchers : /\ Claimed(e)' \subseteq Claimed(e)
                             /\ dispatcher'[e] \in {dispatcher[e], NoRun}
  BY <1>1 DEF Claimed, NoRun, TypeOK
<1>3. \A j \in Ids : sent[j] \in Nat /\ dispatcherCrashes \in Nat
  BY DEF TypeOK
<1>4. \A j \in Ids : sent[j] <= dispatcherCrashes'
  BY <1>1, <1>3 DEF SendsInv, SendsBounded
<1>5. \A e \in Dispatchers :
        (dispatcher[e].due \cap (dispatcher[e].accepted
                                   \cup dispatcher[e].refused))' = {}
  BY <1>2 DEF SendsInv, NoRun
<1>6. SendsBounded'
  BY <1>1, <1>3, <1>4 DEF SendsInv, SendsBounded
<1>7. QED
  BY <1>1, <1>2, <1>4, <1>5, <1>6 DEF SendsInv

\* An outcome or a deletion changes no row that is claimed, no slot, and no
\* count; and time only makes more rows due.
LEMMA RestSends ==
  ASSUME TypeOK, SendsInv, UNCHANGED <<nextJobId, createVars, dispatchVars>>,
         now' \in {now, now + 1},
         \A j \in Ids :
           \/ queue'[j] = queue[j]
           \/ /\ queue'[j].status \notin {"absent", "scheduled"}
              /\ queue[j].status # "absent"
              /\ queue'[j].scheduled_at = queue[j].scheduled_at
              /\ queue'[j].attempts = queue[j].attempts
           \/ queue'[j] = NoJob /\ ~RowLocked(j)
  PROVE  SendsInv'
<1>1. now \in Nat /\ \A j \in Ids : queue[j].scheduled_at \in Nat
  BY DEF TypeOK, Job
<1>2. ASSUME NEW d \in Dispatchers, NEW j \in Claimed(d)
      PROVE  queue'[j].scheduled_at <= now'
  BY <1>1, ClaimedRows DEF SendsInv, RowLocked
<1>3. SendsBounded'
  BY <1>1 DEF SendsInv, SendsBounded, NoJob
<1>4. QED
  BY <1>2, <1>3 DEF SendsInv, Handled, Claimed, NoJob

\* A worker writes outcomes on rows that are there.
LEMMA SettleRows ==
  ASSUME TypeOK, NEW w \in Workers, NEW status \in {"done", "failed"},
         Settle(w, status)
  PROVE  \A j \in Ids :
           \/ queue'[j] = queue[j]
           \/ /\ j = worker[w].msg.lock_token /\ ~RowLocked(j)
              /\ queue[j].status # "absent" /\ queue'[j].status = status
              /\ queue'[j].scheduled_at = queue[j].scheduled_at
              /\ queue'[j].attempts = queue[j].attempts
              /\ queue'[j].filter_id = queue[j].filter_id
BY DEF Settle, TypeOK, Job

\* A worker books nothing and sends nothing for a dispatch run.
LEMMA KickoffSends ==
  ASSUME TypeOK, SendsInv, NEW w \in Workers, Kickoff(w)
  PROVE  SendsInv'
<1>1. CASE queue' = queue
  <2>1. UNCHANGED <<now, nextJobId, createVars, dispatchVars>>
    BY DEF Kickoff, KickoffStep, KickoffStart, KickoffFanOut, KickoffFinish,
       KickoffNotFound, KickoffFail, Settle, KickoffAck, KickoffError,
       KickoffHandlerError, KickoffCrash, VisibilityTimeout
  <2>2. QED
    BY <1>1, <2>1, RestSends
<1>2. ASSUME NEW status \in {"done", "failed"}, Settle(w, status)
      PROVE  SendsInv'
  <2>1. UNCHANGED <<now, nextJobId, createVars, dispatchVars>>
    BY <1>2 DEF Settle
  <2>2. QED
    BY <1>2, <2>1, SettleRows, RestSends
<1>3. QED
  BY <1>1, <1>2 DEF Kickoff, KickoffStep, KickoffStart, KickoffFanOut,
     KickoffFinish, KickoffNotFound, KickoffFail, KickoffAck, KickoffError,
     KickoffHandlerError, KickoffCrash, VisibilityTimeout

\* Deleting a filter takes only unlocked rows along.
LEMMA DeleteSends ==
  ASSUME TypeOK, SendsInv, NEW f \in Ids, DeleteFilter(f)
  PROVE  SendsInv'
<1>1. UNCHANGED <<now, nextJobId, createVars, dispatchVars>>
  BY DEF DeleteFilter
<1>2. \A j \in Ids : \/ queue'[j] = queue[j]
                     \/ queue'[j] = NoJob /\ ~RowLocked(j)
  BY DEF DeleteFilter
<1>3. QED
  BY <1>1, <1>2, RestSends

\* SendsInv is inductive, given the types and the calendar.
LEMMA NextSendsInv == TypeOK /\ CalendarInv /\ SendsInv /\ [Next]_vars => SendsInv'
<1> SUFFICES ASSUME TypeOK, CalendarInv, SendsInv, [Next]_vars PROVE SendsInv'
  OBVIOUS
<1>1. ASSUME NEW d \in Dispatchers, Dispatch(d) PROVE SendsInv'
  BY <1>1, BeginSends, SendSends, CommitSends, CrashSends DEF Dispatch
<1>2. CASE Tick \/ (\E f \in Ids : UpdateFilter(f)) \/ UNCHANGED vars
  <2>1. /\ UNCHANGED <<nextJobId, createVars, dispatchVars>>
        /\ now' \in {now, now + 1} /\ queue' = queue
    BY <1>2 DEF Tick, UpdateFilter, vars
  <2>2. QED
    BY <2>1, RestSends
<1>3. QED
  BY <1>1, <1>2, CreateSends, KickoffSends, DeleteSends DEF Next

\* The dispatch run sends a row at most once, plus once for each run that died;
\* never ahead of its slot; and no row is dispatched twice.
THEOREM SendsAreBounded == Spec => []SendsBounded
<1>1. TypeOK /\ CalendarInv /\ SendsInv /\ [Next]_vars => SendsInv'
  BY NextSendsInv
<1>2. SendsInv => SendsBounded
  BY DEF SendsInv
<1>3. QED
  BY <1>1, <1>2, InitSendsInv, TypeCorrect, CalendarInvariant, PTL DEF Spec

-----------------------------------------------------------------------------
(* The deliveries                                                          *)

\* A kickoff that will settle row j is under way, or its failure is known.
HasKickoff(j) ==
  \/ \E f \in Ids : broker[[filter_id |-> f, lock_token |-> j]] > 0
  \/ \E w \in Workers : Running(w) /\ worker[w].msg.lock_token = j
  \/ j \in orphaned

\* Why DispatchedHasKickoff holds: the message of a row is there from the send
\* on, before the commit makes the row dispatched, and no worker settles a row
\* that a run has locked.
DeliveryInv ==
  /\ \A j \in Ids : queue[j].status # "absent" => queue[j].filter_id \in Ids
  /\ \A j \in Ids : queue[j].status = "dispatched" => HasKickoff(j)
  /\ \A d \in Dispatchers : \A j \in dispatcher[d].accepted : HasKickoff(j)

\* No kickoff gets lost when messages are only added.
LEMMA MoreMessages ==
  ASSUME TypeOK, NEW m \in Message, broker' = Put(m),
         worker' = worker, orphaned' = orphaned
  PROVE  /\ \A j \in Ids : HasKickoff(j) => HasKickoff(j)'
         /\ HasKickoff(m.lock_token)'
<1>1. \A k \in Message : broker[k] > 0 => broker'[k] > 0
  BY DEF Put, TypeOK
<1>2. broker'[m] > 0
  BY DEF Put, TypeOK
<1>3. m = [filter_id |-> m.filter_id, lock_token |-> m.lock_token]
      /\ m.filter_id \in Ids
  BY DEF Message
<1>4. \A j \in Ids, f \in Ids : [filter_id |-> f, lock_token |-> j] \in Message
  BY DEF Message
<1>5. \A j \in Ids : HasKickoff(j) => HasKickoff(j)'
  BY <1>1, <1>4 DEF HasKickoff, Running
<1>6. HasKickoff(m.lock_token)'
  BY <1>2, <1>3 DEF HasKickoff
<1>7. QED
  BY <1>5, <1>6

\* A worker that goes on still holds its kickoff, unless it has settled the row.
LEMMA WorkerKeepsKickoff ==
  ASSUME TypeOK, NEW w \in Workers, Kickoff(w), NEW j \in Ids, HasKickoff(j)
  PROVE  \/ HasKickoff(j)'
         \/ ~RowLocked(j) /\ queue'[j].status # "dispatched"
<1>1. ASSUME NEW m \in Message, KickoffStart(w, m) PROVE HasKickoff(j)'
  <2>1. Running(w)' /\ worker'[w].msg = m /\ orphaned' = orphaned
    BY <1>1 DEF KickoffStart, Running, TypeOK
  <2>2. \A v \in Workers : v # w => worker'[v] = worker[v]
    BY <1>1 DEF KickoffStart, TypeOK
  <2>3. \A k \in Message : k # m => broker'[k] = broker[k]
    BY <1>1 DEF KickoffStart, Take, TypeOK
  <2>4. \A f \in Ids : [filter_id |-> f, lock_token |-> j] \in Message
    BY DEF Message
  <2>5. ~Running(w)
    BY <1>1 DEF KickoffStart, Running
  <2>6. CASE m.lock_token = j
    BY <2>1, <2>6 DEF HasKickoff
  <2>7. CASE m.lock_token # j
    BY <2>1, <2>2, <2>3, <2>4, <2>5, <2>7 DEF HasKickoff, Running
  <2>8. QED
    BY <2>6, <2>7
<1>2. CASE /\ \E pc \in {"fanout", "finish", "fail", "notfound"} : GoTo(w, pc)
           /\ broker' = broker /\ orphaned' = orphaned
  <2>1. \A v \in Workers : Running(v) =>
          Running(v)' /\ worker'[v].msg = worker[v].msg
    BY <1>2 DEF GoTo, Running, TypeOK
  <2>2. QED
    BY <1>2, <2>1 DEF HasKickoff
<1>3. ASSUME NEW status \in {"done", "failed"}, Settle(w, status)
      PROVE  \/ HasKickoff(j)'
             \/ ~RowLocked(j) /\ queue'[j].status # "dispatched"
  <2>1. broker' = broker /\ orphaned' = orphaned
    BY <1>3 DEF Settle
  <2>2. \A v \in Workers : v # w => worker'[v] = worker[v]
    BY <1>3 DEF Settle, GoTo, TypeOK
  <2>3. CASE worker[w].msg.lock_token = j
    BY <1>3, <2>3 DEF Settle, TypeOK
  <2>4. CASE worker[w].msg.lock_token # j
    BY <2>1, <2>2, <2>4 DEF HasKickoff, Running
  <2>5. QED
    BY <2>3, <2>4
<1>4. CASE KickoffAck(w)
  <2>1. broker' = broker /\ orphaned' = orphaned /\ ~Running(w)
    BY <1>4 DEF KickoffAck, Running
  <2>2. \A v \in Workers : v # w => worker'[v] = worker[v]
    BY <1>4 DEF KickoffAck, TypeOK
  <2>3. QED
    BY <2>1, <2>2 DEF HasKickoff, Running
<1>5. CASE KickoffHandlerError(w)
  <2>1. broker' = broker /\ orphaned' = orphaned \cup {worker[w].msg.lock_token}
    BY <1>5 DEF KickoffHandlerError
  <2>2. \A v \in Workers : v # w => worker'[v] = worker[v]
    BY <1>5 DEF KickoffHandlerError, GoTo, TypeOK
  <2>3. QED
    BY <2>1, <2>2 DEF HasKickoff, Running
<1>6. CASE KickoffCrash(w)
  <2> DEFINE m == worker[w].msg
  <2>1. m \in Message
    BY <1>6 DEF KickoffCrash, TypeOK, Work, NoWork
  <2>2. \A k \in Message : broker[k] > 0 => broker'[k] > 0
    BY <1>6, <2>1 DEF KickoffCrash, Put, TypeOK
  <2>3. broker'[m] > 0 /\ orphaned' = orphaned
    BY <1>6, <2>1 DEF KickoffCrash, Put, TypeOK
  <2>4. \A v \in Workers : v # w => worker'[v] = worker[v]
    BY <1>6 DEF KickoffCrash, TypeOK
  <2>5. m = [filter_id |-> m.filter_id, lock_token |-> m.lock_token]
        /\ m.filter_id \in Ids
    BY <2>1 DEF Message
  <2>6. \A f \in Ids : [filter_id |-> f, lock_token |-> j] \in Message
    BY DEF Message
  <2>7. CASE m.lock_token = j
    BY <2>3, <2>5, <2>7 DEF HasKickoff
  <2>8. CASE m.lock_token # j
    BY <2>2, <2>3, <2>4, <2>6, <2>8 DEF HasKickoff, Running
  <2>9. QED
    BY <2>7, <2>8
<1>7. CASE VisibilityTimeout(w)
  <2>1. worker[w].msg \in Message
    BY <1>7 DEF VisibilityTimeout, TypeOK, Work, NoWork
  <2>2. QED
    BY <1>7, <2>1, MoreMessages DEF VisibilityTimeout
<1>8. QED
  BY <1>1, <1>2, <1>3, <1>4, <1>5, <1>6, <1>7 DEF Kickoff, KickoffStep,
     KickoffFanOut, KickoffFinish, KickoffNotFound, KickoffFail, KickoffError

\* No row is dispatched at first.
LEMMA InitDeliveryInv == Init => DeliveryInv
BY DEF Init, DeliveryInv, NoJob, NoRun

\* A step that dispatches no row, has no run go through one, and loses no
\* kickoff but of rows that are settled and unlocked.
LEMMA KeepsDelivery ==
  ASSUME TypeOK, DeliveryInv, dispatcher' = dispatcher,
         \A j \in Ids : queue'[j].status = "dispatched" => queue[j].status = "dispatched",
         \A j \in Ids : queue'[j].status # "absent" => queue'[j].filter_id \in Ids,
         \A j \in Ids : HasKickoff(j) =>
           \/ HasKickoff(j)'
           \/ ~RowLocked(j) /\ queue'[j].status # "dispatched"
  PROVE  DeliveryInv'
<1>1. ASSUME NEW d \in Dispatchers, NEW j \in dispatcher[d].accepted
      PROVE  j \in Ids /\ RowLocked(j)
  BY ClaimedRows DEF RowLocked, Claimed
<1>2. QED
  BY <1>1 DEF DeliveryInv

\* A create_filter call adds a scheduled row.
LEMMA CreateDelivery ==
  ASSUME TypeOK, DeliveryInv, NEW r \in Requests, Create(r)
  PROVE  DeliveryInv'
<1>1. UNCHANGED <<broker, worker, orphaned, dispatcher>>
  BY DEF Create, CreateFilter, EnqueueFilterKickoff, CommitCreate, AbortCreate
<1>2. \A j \in Ids : HasKickoff(j)' <=> HasKickoff(j)
  BY <1>1 DEF HasKickoff, Running
<1>3. CASE CommitCreate(r)
  <2>1. request[r].filter_id \in Ids
    BY <1>3 DEF CommitCreate, TypeOK, Request, NoRequest
  <2>2. \A j \in Ids : \/ queue'[j] = queue[j]
                       \/ /\ queue'[j].status = "scheduled"
                          /\ queue'[j].filter_id \in Ids
    BY <1>3, <2>1 DEF CommitCreate, TypeOK
  <2>3. QED
    BY <1>1, <1>2, <2>2, KeepsDelivery DEF DeliveryInv
<1>4. CASE queue' = queue
  BY <1>1, <1>2, <1>4, KeepsDelivery DEF DeliveryInv
<1>5. QED
  BY <1>3, <1>4 DEF Create, CreateFilter, EnqueueFilterKickoff, AbortCreate

\* The message of a row that is sent names it; when the run commits, the rows
\* it makes dispatched are those whose message it has sent.
LEMMA DispatchDelivery ==
  ASSUME TypeOK, CalendarInv, DeliveryInv, NEW d \in Dispatchers, Dispatch(d)
  PROVE  DeliveryInv'
<1>1. UNCHANGED <<worker, orphaned>>
  BY DEF Dispatch, DispatchBegin, DispatchSend, DispatchRefused, DispatchCommit,
     DispatchCrash
<1>2. CASE DispatchBegin(d) \/ DispatchCrash(d)
  <2>1. queue' = queue /\ broker' = broker
    BY <1>2 DEF DispatchBegin, DispatchCrash
  <2>2. \A j \in Ids : HasKickoff(j)' <=> HasKickoff(j)
    BY <1>1, <2>1 DEF HasKickoff, Running
  <2>3. \A e \in Dispatchers : dispatcher'[e].accepted \subseteq dispatcher[e].accepted
    BY <1>2 DEF DispatchBegin, DispatchCrash, TypeOK, NoRun
  <2>4. \A e \in Dispatchers : dispatcher[e].accepted \subseteq Ids
    BY ClaimedRows DEF Claimed
  <2>5. QED
    BY <2>1, <2>2, <2>3, <2>4 DEF DeliveryInv
<1>3. ASSUME NEW j \in Ids, DispatchSend(d, j) \/ DispatchRefused(d, j)
      PROVE  DeliveryInv'
  <2>1. queue' = queue /\ j \in Claimed(d) /\ dispatcher[d].pc = "sending"
    BY <1>3 DEF DispatchSend, DispatchRefused, IsNextDue, Claimed
  <2>2. JobMessage(j) \in Message /\ JobMessage(j).lock_token = j
    BY <2>1 DEF JobMessage, Message, DeliveryInv, CalendarInv
  <2>3. \A k \in Ids : HasKickoff(k) => HasKickoff(k)'
    <3>1. CASE broker' = Put(JobMessage(j))
      BY <1>1, <2>2, <3>1, MoreMessages
    <3>2. CASE broker' = broker
      BY <1>1, <3>2 DEF HasKickoff, Running
    <3>3. QED
      BY <1>3, <3>1, <3>2 DEF DispatchSend, DispatchRefused
  <2>4. CASE DispatchSend(d, j)
    <3>1. HasKickoff(j)'
      BY <1>1, <2>2, <2>4, MoreMessages DEF DispatchSend
    <3>2. /\ dispatcher'[d].accepted = dispatcher[d].accepted \cup {j}
          /\ \A e \in Dispatchers : e # d => dispatcher'[e] = dispatcher[e]
      BY <2>4 DEF DispatchSend, TypeOK
    <3>3. \A e \in Dispatchers : dispatcher[e].accepted \subseteq Ids
      BY ClaimedRows DEF Claimed
    <3>4. QED
      BY <2>1, <2>3, <3>1, <3>2, <3>3 DEF DeliveryInv
  <2>5. CASE DispatchRefused(d, j)
    <3>1. \A e \in Dispatchers : dispatcher'[e].accepted = dispatcher[e].accepted
      BY <2>5 DEF DispatchRefused, TypeOK
    <3>2. \A e \in Dispatchers : dispatcher[e].accepted \subseteq Ids
      BY ClaimedRows DEF Claimed
    <3>3. QED
      BY <2>1, <2>3, <3>1, <3>2 DEF DeliveryInv
  <2>6. QED
    BY <1>3, <2>4, <2>5
<1>4. CASE DispatchCommit(d)
  <2>1. \A j \in Ids : HasKickoff(j)' <=> HasKickoff(j)
    BY <1>1, <1>4 DEF HasKickoff, Running, DispatchCommit
  <2>2. ASSUME NEW j \in Ids
        PROVE  /\ queue'[j].filter_id = queue[j].filter_id
               /\ queue'[j].status # "absent" => queue[j].status # "absent"
               /\ queue'[j].status = "dispatched" =>
                    queue[j].status = "dispatched" \/ j \in dispatcher[d].accepted
    <3>1. CASE j \in dispatcher[d].accepted \cup dispatcher[d].refused
      <4>1. queue[j].status = "scheduled" /\ queue[j] \in Job
        BY <1>4, <3>1 DEF DispatchCommit, CalendarInv, Claimed, TypeOK
      <4>2. \/ queue'[j] = Dispatched(queue[j]) /\ j \in dispatcher[d].accepted
            \/ queue'[j] = Failed(queue[j])
        BY <1>4, <3>1 DEF DispatchCommit
      <4>3. QED
        BY <4>1, <4>2 DEF Dispatched, Failed, Job
    <3>2. CASE j \notin dispatcher[d].accepted \cup dispatcher[d].refused
      BY <1>4, <3>2 DEF DispatchCommit
    <3>3. QED
      BY <3>1, <3>2
  <2>3. \A e \in Dispatchers : dispatcher'[e].accepted \subseteq dispatcher[e].accepted
    BY <1>4 DEF DispatchCommit, TypeOK, NoRun
  <2>4. \A e \in Dispatchers : dispatcher[e].accepted \subseteq Ids
    BY ClaimedRows DEF Claimed
  <2>5. QED
    BY <2>1, <2>2, <2>3, <2>4 DEF DeliveryInv
<1>5. QED
  BY <1>2, <1>3, <1>4 DEF Dispatch

\* A worker settles only rows no run has locked.
LEMMA KickoffDelivery ==
  ASSUME TypeOK, DeliveryInv, NEW w \in Workers, Kickoff(w)
  PROVE  DeliveryInv'
<1>1. dispatcher' = dispatcher
  BY DEF Kickoff, KickoffStep, KickoffStart, KickoffFanOut, KickoffFinish,
     KickoffNotFound, KickoffFail, Settle, KickoffAck, KickoffError,
     KickoffHandlerError, KickoffCrash, VisibilityTimeout
<1>2. \A j \in Ids : \/ queue'[j] = queue[j]
                     \/ /\ queue[j].status # "absent"
                        /\ queue'[j].status \in {"done", "failed"}
                        /\ queue'[j].filter_id = queue[j].filter_id
  <2>1. CASE queue' = queue
    BY <2>1
  <2>2. CASE \E status \in {"done", "failed"} : Settle(w, status)
    BY <2>2, SettleRows
  <2>3. QED
    BY <2>1, <2>2 DEF Kickoff, KickoffStep, KickoffStart, KickoffFanOut,
       KickoffFinish, KickoffNotFound, KickoffFail, KickoffAck, KickoffError,
       KickoffHandlerError, KickoffCrash, VisibilityTimeout
<1>3. QED
  BY <1>1, <1>2, WorkerKeepsKickoff, KeepsDelivery DEF DeliveryInv

\* DeliveryInv is inductive, given the types and the calendar.
LEMMA NextDeliveryInv ==
  TypeOK /\ CalendarInv /\ DeliveryInv /\ [Next]_vars => DeliveryInv'
<1> SUFFICES ASSUME TypeOK, CalendarInv, DeliveryInv, [Next]_vars
             PROVE  DeliveryInv'
  OBVIOUS
<1>1. ASSUME NEW f \in Ids, DeleteFilter(f) PROVE DeliveryInv'
  <2>1. UNCHANGED <<broker, worker, orphaned, dispatcher>>
    BY <1>1 DEF DeleteFilter
  <2>2. \A j \in Ids : HasKickoff(j)' <=> HasKickoff(j)
    BY <2>1 DEF HasKickoff, Running
  <2>3. \A j \in Ids : queue'[j] = queue[j] \/ queue'[j].status = "absent"
    BY <1>1 DEF DeleteFilter, NoJob
  <2>4. QED
    BY <2>1, <2>2, <2>3, KeepsDelivery DEF DeliveryInv
<1>2. ASSUME NEW f \in Ids, UpdateFilter(f) PROVE DeliveryInv'
  <2>1. [filter_id |-> f, lock_token |-> f] \in Message
    BY DEF Message
  <2>2. UNCHANGED <<queue, worker, orphaned, dispatcher>>
    BY <1>2 DEF UpdateFilter
  <2>3. \A j \in Ids : HasKickoff(j) => HasKickoff(j)'
    BY <1>2, <2>1, <2>2, MoreMessages DEF UpdateFilter
  <2>4. QED
    BY <2>2, <2>3, KeepsDelivery DEF DeliveryInv
<1>3. CASE Tick \/ UNCHANGED vars
  <2>1. UNCHANGED <<queue, broker, worker, orphaned, dispatcher>>
    BY <1>3 DEF Tick, vars
  <2>2. \A j \in Ids : HasKickoff(j)' <=> HasKickoff(j)
    BY <2>1 DEF HasKickoff, Running
  <2>3. QED
    BY <2>1, <2>2, KeepsDelivery DEF DeliveryInv
<1>4. QED
  BY <1>1, <1>2, <1>3, CreateDelivery, DispatchDelivery, KickoffDelivery DEF Next

\* A dispatched row always has a kickoff that will settle it, in the broker or
\* with a worker, or its kickoff's except branch has failed.
THEOREM DispatchedIsDelivered == Spec => []DispatchedHasKickoff
<1>1. TypeOK /\ CalendarInv /\ DeliveryInv /\ [Next]_vars => DeliveryInv'
  BY NextDeliveryInv
<1>2. DeliveryInv => DispatchedHasKickoff
  BY DEF DeliveryInv, DispatchedHasKickoff, HasKickoff
<1>3. QED
  BY <1>1, <1>2, InitDeliveryInv, TypeCorrect, CalendarInvariant, PTL DEF Spec

\* A message names the row of its own filter, unless a PATCH has sent it; the row
\* may be gone, but its id is never booked again.
Genuine(m) ==
  \/ m.lock_token \in patched
  \/ /\ sent[m.lock_token] > 0
     /\ \/ queue[m.lock_token].status = "absent"
        \/ queue[m.lock_token].filter_id = m.filter_id

\* Why DoneHasCause holds.
CauseInv ==
  /\ \A m \in Message : broker[m] > 0 => Genuine(m)
  /\ \A w \in Workers : worker[w].pc # "idle" => Genuine(worker[w].msg)
  /\ \A w \in Workers : worker[w].pc = "finish" =>
       worker[w].msg.filter_id \in fannedOut
  /\ DoneHasCause

\* A row keeps its filter while it exists, and the row of a drawn id that has
\* been sent is never booked; what is sent, patched and fanned out stays so.
LEMMA StepRows ==
  ASSUME TypeOK, CalendarInv, SendsInv, [Next]_vars
  PROVE  /\ \A j \in Ids : /\ sent'[j] >= sent[j]
                           /\ \/ queue'[j].status = "absent"
                              \/ /\ queue[j].status # "absent"
                                 /\ queue'[j].filter_id = queue[j].filter_id
                              \/ sent[j] = 0 /\ queue'[j].status = "scheduled"
         /\ patched \subseteq patched' /\ fannedOut \subseteq fannedOut'
<1> DEFINE Rows == \A j \in Ids :
                     /\ sent'[j] >= sent[j]
                     /\ \/ queue'[j].status = "absent"
                        \/ /\ queue[j].status # "absent"
                           /\ queue'[j].filter_id = queue[j].filter_id
                        \/ sent[j] = 0 /\ queue'[j].status = "scheduled"
<1>0. \A j \in Ids : sent[j] \in Nat
  BY DEF TypeOK
<1>1. ASSUME NEW r \in Requests, Create(r) PROVE Rows
  <2>1. sent' = sent
    BY <1>1 DEF Create, CreateFilter, EnqueueFilterKickoff, CommitCreate, AbortCreate
  <2>2. CASE CommitCreate(r)
    <3>1. sent[request[r].job_id] = 0
      BY <2>2 DEF CommitCreate, SendsInv
    <3>2. QED
      BY <1>0, <2>1, <2>2, <3>1 DEF CommitCreate, TypeOK
  <2>3. CASE queue' = queue
    BY <1>0, <2>1, <2>3
  <2>4. QED
    BY <1>1, <2>2, <2>3 DEF Create, CreateFilter, EnqueueFilterKickoff, AbortCreate
<1>2. ASSUME NEW d \in Dispatchers, Dispatch(d) PROVE Rows
  <2>1. \A j \in Ids : sent'[j] >= sent[j]
    BY <1>0, <1>2 DEF Dispatch, DispatchBegin, DispatchSend, DispatchRefused,
       DispatchCommit, DispatchCrash, TypeOK
  <2>2. CASE DispatchCommit(d)
    <3>1. ASSUME NEW j \in Ids
          PROVE  \/ queue'[j] = queue[j]
                 \/ /\ queue[j].status # "absent"
                    /\ queue'[j].filter_id = queue[j].filter_id
      <4>1. CASE j \in dispatcher[d].accepted \cup dispatcher[d].refused
        <5>1. queue[j].status = "scheduled" /\ queue[j] \in Job
          BY <2>2, <4>1 DEF DispatchCommit, CalendarInv, Claimed, TypeOK
        <5>2. queue'[j] = Dispatched(queue[j]) \/ queue'[j] = Failed(queue[j])
          BY <2>2, <4>1 DEF DispatchCommit
        <5>3. QED
          BY <5>1, <5>2 DEF Dispatched, Failed, Job
      <4>2. CASE j \notin dispatcher[d].accepted \cup dispatcher[d].refused
        BY <2>2, <4>2 DEF DispatchCommit
      <4>3. QED
        BY <4>1, <4>2
    <3>2. QED
      BY <2>1, <3>1
  <2>3. CASE queue' = queue
    BY <2>1, <2>3
  <2>4. QED
    BY <1>2, <2>2, <2>3 DEF Dispatch, DispatchBegin, DispatchSend,
       DispatchRefused, DispatchCrash
<1>3. ASSUME NEW w \in Workers, Kickoff(w) PROVE Rows
  <2>1. sent' = sent
    BY <1>3 DEF Kickoff, KickoffStep, KickoffStart, KickoffFanOut, KickoffFinish,
       KickoffNotFound, KickoffFail, Settle, KickoffAck, KickoffError,
       KickoffHandlerError, KickoffCrash, VisibilityTimeout
  <2>2. CASE \E status \in {"done", "failed"} : Settle(w, status)
    BY <1>0, <2>1, <2>2, SettleRows
  <2>3. CASE queue' = queue
    BY <1>0, <2>1, <2>3
  <2>4. QED
    BY <1>3, <2>2, <2>3 DEF Kickoff, KickoffStep, KickoffStart, KickoffFanOut,
       KickoffFinish, KickoffNotFound, KickoffFail, KickoffAck, KickoffError,
       KickoffHandlerError, KickoffCrash, VisibilityTimeout
<1>4. ASSUME NEW f \in Ids, UpdateFilter(f) \/ DeleteFilter(f) PROVE Rows
  BY <1>0, <1>4 DEF UpdateFilter, DeleteFilter, NoJob
<1>5. CASE Tick \/ UNCHANGED vars
  BY <1>0, <1>5 DEF Tick, vars
<1>6. patched \subseteq patched'
  BY DEF Next, vars, Tick, Create, CreateFilter, EnqueueFilterKickoff,
     CommitCreate, AbortCreate, Dispatch, DispatchBegin, DispatchSend,
     DispatchRefused, DispatchCommit, DispatchCrash, Kickoff, KickoffStep,
     KickoffStart, KickoffFanOut, KickoffFinish, KickoffNotFound, KickoffFail,
     Settle, KickoffAck, KickoffError, KickoffHandlerError, KickoffCrash,
     VisibilityTimeout, UpdateFilter, DeleteFilter
<1>7. fannedOut \subseteq fannedOut'
  BY DEF Next, vars, Tick, Create, CreateFilter, EnqueueFilterKickoff,
     CommitCreate, AbortCreate, Dispatch, DispatchBegin, DispatchSend,
     DispatchRefused, DispatchCommit, DispatchCrash, Kickoff, KickoffStep,
     KickoffStart, KickoffFanOut, KickoffFinish, KickoffNotFound, KickoffFail,
     Settle, KickoffAck, KickoffError, KickoffHandlerError, KickoffCrash,
     VisibilityTimeout, UpdateFilter, DeleteFilter
<1>8. Rows
  BY <1>1, <1>2, <1>3, <1>4, <1>5 DEF Next
<1>9. QED
  BY <1>6, <1>7, <1>8

\* A genuine message stays genuine.
LEMMA StaysGenuine ==
  ASSUME TypeOK, CalendarInv, SendsInv, [Next]_vars, NEW m \in Message, Genuine(m)
  PROVE  Genuine(m)'
<1>1. m.lock_token \in Ids /\ sent[m.lock_token] \in Nat
  BY DEF Message, TypeOK
<1>2. sent' \in [Ids -> Nat]
  BY NextTypeOK DEF TypeOK
<1>3. QED
  BY <1>1, <1>2, StepRows DEF Genuine

\* No message has been sent and no row is done at first.
LEMMA InitCauseInv == Init => CauseInv
BY DEF Init, CauseInv, DoneHasCause, NoJob, NoWork

\* A step of anyone but a worker: the workers keep their messages, rows that are
\* done are so already, and new messages are genuine.
LEMMA OthersCause ==
  ASSUME TypeOK, CalendarInv, SendsInv, CauseInv, [Next]_vars,
         worker' = worker,
         \A j \in Ids : queue'[j].status = "done" => queue'[j] = queue[j],
         \A m \in Message : broker'[m] > 0 => broker[m] > 0 \/ Genuine(m)'
  PROVE  CauseInv'
<1>1. \A w \in Workers : worker[w].pc # "idle" => worker[w].msg \in Message
  BY DEF TypeOK, Work, NoWork
<1>2. QED
  BY <1>1, StaysGenuine, StepRows DEF CauseInv, DoneHasCause

\* The message a dispatch run sends is genuine.
LEMMA DispatchCause ==
  ASSUME TypeOK, CalendarInv, SendsInv, DeliveryInv, CauseInv, [Next]_vars,
         NEW d \in Dispatchers, Dispatch(d)
  PROVE  CauseInv'
<1>1. worker' = worker
  BY DEF Dispatch, DispatchBegin, DispatchSend, DispatchRefused, DispatchCommit,
     DispatchCrash
<1>2. CASE broker' = broker /\ queue' = queue
  BY <1>1, <1>2, OthersCause
<1>3. ASSUME NEW j \in Ids, DispatchSend(d, j) \/ DispatchRefused(d, j),
             broker' = Put(JobMessage(j)), sent' = [sent EXCEPT ![j] = @ + 1]
      PROVE  CauseInv'
  <2>1. queue' = queue /\ j \in Claimed(d) /\ dispatcher[d].pc = "sending"
    BY <1>3 DEF DispatchSend, DispatchRefused, IsNextDue, Claimed
  <2>2. JobMessage(j) \in Message /\ JobMessage(j).lock_token = j
        /\ JobMessage(j).filter_id = queue[j].filter_id
    BY <2>1 DEF JobMessage, Message, DeliveryInv, CalendarInv
  <2>3. sent'[j] > 0
    BY <1>3 DEF TypeOK
  <2>4. ASSUME NEW m \in Message, m = JobMessage(j) PROVE Genuine(m)'
    BY <2>1, <2>2, <2>3, <2>4 DEF Genuine
  <2>5. \A m \in Message : m # JobMessage(j) => broker'[m] = broker[m]
    BY <1>3 DEF Put, TypeOK
  <2>6. \A m \in Message : broker'[m] > 0 => broker[m] > 0 \/ Genuine(m)'
    BY <2>4, <2>5
  <2>7. QED
    BY <1>1, <2>1, <2>6, OthersCause
<1>4. CASE DispatchCommit(d)
  <2>1. ASSUME NEW j \in Ids, queue'[j].status = "done"
        PROVE  queue'[j] = queue[j]
    <3>1. queue[j] \in Job
      BY DEF TypeOK
    <3>2. \/ queue'[j] = Dispatched(queue[j])
          \/ queue'[j] = Failed(queue[j])
          \/ queue'[j] = queue[j]
      BY <1>4 DEF DispatchCommit
    <3>3. QED
      BY <2>1, <3>1, <3>2 DEF Dispatched, Failed, Job
  <2>2. broker' = broker
    BY <1>4 DEF DispatchCommit
  <2>3. QED
    BY <1>1, <2>1, <2>2, OthersCause
<1>5. QED
  BY <1>2, <1>3, <1>4 DEF Dispatch, DispatchBegin, DispatchSend, DispatchRefused,
     DispatchCrash

\* A worker passes on genuine messages, and finishes with "done" only after the
\* fan-out of its message's filter.
LEMMA KickoffCause ==
  ASSUME TypeOK, CalendarInv, SendsInv, CauseInv, [Next]_vars,
         NEW w \in Workers, Kickoff(w)
  PROVE  CauseInv'
<1>1. \A v \in Workers : worker[v].pc # "idle" => worker[v].msg \in Message
  BY DEF TypeOK, Work, NoWork
<1>2. ASSUME NEW m \in Message, KickoffStart(w, m) PROVE CauseInv'
  <2>1. \A k \in Message : broker'[k] > 0 => broker[k] > 0
    BY <1>2 DEF KickoffStart, Take, TypeOK
  <2>2. /\ worker'[w].msg = m /\ worker'[w].pc # "finish"
        /\ \A v \in Workers : v # w => worker'[v] = worker[v]
    BY <1>2 DEF KickoffStart, TypeOK
  <2>3. queue' = queue /\ Genuine(m)
    BY <1>2 DEF KickoffStart, CauseInv
  <2>4. QED
    BY <1>1, <2>1, <2>2, <2>3, StaysGenuine, StepRows DEF CauseInv, DoneHasCause
<1>3. ASSUME NEW pc \in {"finish", "fail", "ack"}, GoTo(w, pc),
             worker[w].pc # "idle", broker' = broker,
             pc = "finish" => worker[w].msg.filter_id \in fannedOut',
             \A j \in Ids : queue'[j].status = "done" =>
               queue'[j].filter_id \in fannedOut \/ j \in patched
      PROVE  CauseInv'
  <2>1. /\ worker'[w].msg = worker[w].msg /\ worker'[w].pc = pc
        /\ \A v \in Workers : v # w => worker'[v] = worker[v]
    BY <1>3 DEF GoTo, TypeOK
  <2>2. DoneHasCause'
    BY <1>3, StepRows DEF DoneHasCause
  <2>3. QED
    BY <1>1, <1>3, <2>1, <2>2, StaysGenuine, StepRows DEF CauseInv
<1>4. CASE KickoffFanOut(w) \/ KickoffError(w) \/ KickoffHandlerError(w)
  BY <1>3, <1>4 DEF KickoffFanOut, KickoffError, KickoffHandlerError, CauseInv,
     DoneHasCause
<1>5. CASE KickoffFinish(w)
  <2> DEFINE m == worker[w].msg
  <2>1. /\ worker[w].pc # "idle" /\ Settle(w, "done") /\ m \in Message
        /\ m.filter_id \in fannedOut /\ Genuine(m)
    BY <1>1, <1>5 DEF KickoffFinish, CauseInv
  <2>2. \A j \in Ids : queue'[j].status = "done" =>
          queue'[j].filter_id \in fannedOut \/ j \in patched
    BY <2>1, SettleRows DEF Genuine, CauseInv, DoneHasCause
  <2>3. QED
    BY <1>3, <2>1, <2>2 DEF Settle
<1>6. CASE KickoffNotFound(w) \/ KickoffFail(w)
  <2>1. worker[w].pc # "idle" /\ Settle(w, "failed")
    BY <1>6 DEF KickoffNotFound, KickoffFail
  <2>2. \A j \in Ids : queue'[j].status = "done" =>
          queue'[j].filter_id \in fannedOut \/ j \in patched
    BY <2>1, SettleRows DEF CauseInv, DoneHasCause
  <2>3. QED
    BY <1>3, <2>1, <2>2 DEF Settle
<1>7. CASE KickoffAck(w)
  <2>1. /\ worker'[w].pc = "idle" /\ broker' = broker /\ queue' = queue
        /\ \A v \in Workers : v # w => worker'[v] = worker[v]
    BY <1>7 DEF KickoffAck, TypeOK, NoWork
  <2>2. QED
    BY <1>1, <2>1, StaysGenuine, StepRows DEF CauseInv, DoneHasCause
<1>8. CASE KickoffCrash(w) \/ VisibilityTimeout(w)
  <2>1. worker[w].msg \in Message /\ Genuine(worker[w].msg)
    BY <1>1, <1>8 DEF KickoffCrash, VisibilityTimeout, CauseInv
  <2>2. \A m \in Message : broker'[m] > 0 => broker[m] > 0 \/ m = worker[w].msg
    BY <1>8, <2>1 DEF KickoffCrash, VisibilityTimeout, Put, TypeOK
  <2>3. /\ queue' = queue
        /\ \A v \in Workers : worker'[v] = worker[v] \/ worker'[v].pc = "idle"
    BY <1>8 DEF KickoffCrash, VisibilityTimeout, TypeOK, NoWork
  <2>4. QED
    BY <1>1, <2>1, <2>2, <2>3, StaysGenuine, StepRows DEF CauseInv, DoneHasCause
<1>9. QED
  BY <1>2, <1>4, <1>5, <1>6, <1>7, <1>8 DEF Kickoff, KickoffStep

\* CauseInv is inductive, given the types, the calendar, the sends and the
\* deliveries.
LEMMA NextCauseInv ==
  TypeOK /\ CalendarInv /\ SendsInv /\ DeliveryInv /\ CauseInv /\ [Next]_vars
    => CauseInv'
<1> SUFFICES ASSUME TypeOK, CalendarInv, SendsInv, DeliveryInv, CauseInv, [Next]_vars
             PROVE  CauseInv'
  OBVIOUS
<1>1. ASSUME NEW r \in Requests, Create(r) PROVE CauseInv'
  <2>1. UNCHANGED <<broker, worker>>
    BY <1>1 DEF Create, CreateFilter, EnqueueFilterKickoff, CommitCreate, AbortCreate
  <2>2. \A j \in Ids : queue'[j].status = "done" => queue'[j] = queue[j]
    BY <1>1 DEF Create, CreateFilter, EnqueueFilterKickoff, CommitCreate,
       AbortCreate, TypeOK
  <2>3. QED
    BY <2>1, <2>2, OthersCause
<1>2. ASSUME NEW f \in Ids, UpdateFilter(f) PROVE CauseInv'
  <2> DEFINE m == [filter_id |-> f, lock_token |-> f]
  <2>1. m \in Message /\ m.lock_token = f
    BY DEF Message
  <2>2. Genuine(m)'
    BY <1>2 DEF Genuine, UpdateFilter
  <2>3. \A k \in Message : k # m => broker'[k] = broker[k]
    BY <1>2 DEF UpdateFilter, Put, TypeOK
  <2>4. UNCHANGED <<queue, worker>>
    BY <1>2 DEF UpdateFilter
  <2>5. \A k \in Message : broker'[k] > 0 => broker[k] > 0 \/ Genuine(k)'
    BY <2>2, <2>3
  <2>6. QED
    BY <2>4, <2>5, OthersCause
<1>3. ASSUME NEW f \in Ids, DeleteFilter(f) PROVE CauseInv'
  <2>1. UNCHANGED <<broker, worker>>
    BY <1>3 DEF DeleteFilter
  <2>2. \A j \in Ids : queue'[j].status = "done" => queue'[j] = queue[j]
    BY <1>3 DEF DeleteFilter, NoJob
  <2>3. QED
    BY <2>1, <2>2, OthersCause
<1>4. CASE Tick \/ UNCHANGED vars
  BY <1>4, OthersCause DEF Tick, vars
<1>5. QED
  BY <1>1, <1>2, <1>3, <1>4, DispatchCause, KickoffCause DEF Next

\* A row is done only when the cars of its own filter have been handed out, or
\* when a PATCH has passed the row's id off as a lock_token.
THEOREM DoneForACause == Spec => []DoneHasCause
<1>1. TypeOK /\ CalendarInv /\ SendsInv /\ DeliveryInv /\ CauseInv /\ [Next]_vars
        => CauseInv'
  BY NextCauseInv
<1>2. CauseInv => DoneHasCause
  BY DEF CauseInv
<1>3. QED
  BY <1>1, <1>2, InitCauseInv, InitSendsInv, NextSendsInv, InitDeliveryInv,
     NextDeliveryInv, TypeCorrect, CalendarInvariant, PTL DEF Spec
=============================================================================
