----------------------------- MODULE CarProofs -----------------------------
(***************************************************************************)
(* Proofs about CarParsing, and about CarIngestion which extends it, for   *)
(* every number of tasks, bid runs, feeds, sweeps, imports and             *)
(* administrator's calls, and every bound.  Types and row locks come       *)
(* first: which job may write the row rests on them.                       *)
(***************************************************************************)
EXTENDS CarIngestion, TLAPS

USE DEF tableVars

-----------------------------------------------------------------------------
(* Types and row locks                                                     *)

\* A job that is about to write under the row lock owns the row, the row of an
\* owner exists, and the sweep applies an answer to a row it has loaded.
LockInv ==
  /\ \A t \in Tasks : task[t].pc \in {"failed", "parsed"} => rowOwner = t
  /\ \A b \in BidRuns : bids[b] = "holding" => rowOwner = b
  /\ \A f \in Feeds : feed[f] # "idle" => rowOwner = f
  /\ \A s \in Sweepers : sweep[s].pc = "holding" => rowOwner = s
  /\ RowFree \/ Present
  /\ \A s \in Sweepers : sweep[s].pc \in {"apply", "holding"} =>
       sweep[s].loaded # NoCar

\* Types and locks together are inductive, neither is alone.
TypedLocks == TypeOK /\ LockInv

\* A row the import has just inserted, and no job has a lock.
LEMMA InitTypedLocks == Init => TypedLocks
<1> SUFFICES ASSUME Init PROVE TypedLocks
  OBVIOUS
<1>1. car \in Car
  <2>1. PICK relevance \in {"Active", "Irrelevant"},
             date \in {"past", "future", "none"}, reasons \in SUBSET {"lasting"} :
          car = NewRow(relevance, date, reasons)
    BY DEF Init
  <2>2. reasons \in SUBSET Reasons
    BY DEF Reasons
  <2>3. QED
    BY <2>1, <2>2 DEF NewRow, Car
<1>2. task \in [Tasks -> Task]
  BY ParsingBoundsAssumption DEF Init, NoJobs, Unused, Waiting, Task
<1>3. sweep \in [Sweepers -> [pc : {"idle", "purge", "delete", "select", "http",
                                   "apply", "holding"},
                              purged : SUBSET Reports,
                              loaded : Car \cup {NoCar}, known : BOOLEAN]]
  BY DEF Init, NoJobs, NoSweep
<1>4. TypeOK
  BY <1>1, <1>2, <1>3, ParsingBoundsAssumption DEF TypeOK, Init, NoJobs
<1>5. LockInv
  BY DEF Init, NoJobs, LockInv, RowFree, Unused, Waiting, NoSweep
<1>6. QED
  BY <1>4, <1>5 DEF TypedLocks

\* Archiving a car keeps its type.
LEMMA ArchivedType == ASSUME NEW c \in Car PROVE Archived(c) \in Car
BY DEF Archived, Car

\* Writing the columns that differ yields a row, and a column that has not been
\* changed keeps what the row has by now.
LEMMA ChangedType ==
  ASSUME car \in Car, NEW loaded \in Car, NEW new \in Car
  PROVE  /\ Changed(loaded, new) \in Car
         /\ \A field \in DOMAIN car :
              Changed(loaded, new)[field] \in {new[field], car[field]}
         /\ \A field \in DOMAIN car :
              new[field] = loaded[field] => Changed(loaded, new)[field] = car[field]
BY DEF Changed, Car

\* What a refresh computes is a row.
LEMMA RefreshedType ==
  ASSUME NEW loaded \in Car, NEW date \in {"past", "future", "none"},
         NEW added \in SUBSET {"bid", "lasting"}
  PROVE  Refreshed(loaded, date, added) \in Car
BY DEF Refreshed, Car, Reasons


\* What a failed parse writes: one more attempt, and the VIN counts as wrong.
LEMMA FailedRow ==
  ASSUME TypedLocks, NEW t \in Tasks, CommitFailed(t)
  PROVE  /\ Present /\ car \in Car /\ Present' /\ car' \in Car
         /\ car'.attempts = car.attempts + 1 /\ ~car'.has_correct_vin
         /\ car'.is_checked = car.is_checked /\ car'.priced = car.priced
<1>1. Present /\ car \in Car /\ car.attempts \in Nat
  <2>1. rowOwner # NoOne
    BY NoOneAssumption DEF CommitFailed, TypedLocks, LockInv, Owners
  <2>2. Present /\ car \in Car
    BY <2>1 DEF TypedLocks, TypeOK, LockInv, RowFree, Present
  <2>3. QED
    BY <2>2 DEF Car
<1>4. Counted(t) = car.attempts + 1 /\ Counted(t) \in Nat
  BY <1>1 DEF Counted
<1>2. PICK reason \in {"parser error", "lasting"} :
        car' = [car EXCEPT !.reasons = @ \cup {reason},
                           !.has_correct_vin = FALSE,
                           !.attempts = Counted(t)]
  BY DEF CommitFailed
<1>3. car.reasons \cup {reason} \in SUBSET Reasons
  BY <1>1 DEF Car, Reasons
<1>5. car' \in Car
  BY <1>1, <1>2, <1>3, <1>4 DEF Car
<1>6. /\ car'.attempts = car.attempts + 1 /\ ~car'.has_correct_vin
      /\ car'.is_checked = car.is_checked /\ car'.priced = car.priced
  BY <1>1, <1>2, <1>4 DEF Car
<1>7. QED
  BY <1>1, <1>5, <1>6, NoCarAssumption DEF Present

\* What a successful parse writes: one more attempt, the car is checked and
\* priced, and no parser error is left.
LEMMA ParsedRow ==
  ASSUME TypedLocks, NEW t \in Tasks, CommitParsed(t)
  PROVE  /\ Present /\ car \in Car /\ Present' /\ car' \in Car
         /\ car'.attempts = car.attempts + 1 /\ car'.is_checked /\ car'.priced
         /\ "parser error" \notin car'.reasons
<1>1. Present /\ car \in Car /\ car.attempts \in Nat
  BY NoOneAssumption DEF CommitParsed, TypedLocks, TypeOK, LockInv, RowFree,
     Present, Owners, Car
<1>4. Counted(t) = car.attempts + 1 /\ Counted(t) \in Nat
  BY <1>1 DEF Counted
<1>2. PICK recommended \in BOOLEAN, added \in SUBSET {"lasting"} :
        car' = [car EXCEPT !.relevance = "Active", !.is_checked = TRUE,
                   !.has_correct_vin = TRUE, !.priced = TRUE,
                   !.attempts = Counted(t), !.recommended = recommended,
                   !.reasons = WithoutParserErrors(@) \cup added]
  <2>1. PICK mismatch \in BOOLEAN :
          LET many  == StoresHistory(t) /\ task[t].history = "many"
              added == IF many \/ mismatch THEN {"lasting"} ELSE {}
          IN  car' = [car EXCEPT !.relevance = "Active", !.is_checked = TRUE,
                        !.has_correct_vin = TRUE, !.priced = TRUE,
                        !.attempts = Counted(t),
                        !.recommended = @ /\ ~many,
                        !.reasons = WithoutParserErrors(@) \cup added]
    BY DEF CommitParsed
  <2> DEFINE many  == StoresHistory(t) /\ task[t].history = "many"
             added == IF many \/ mismatch THEN {"lasting"} ELSE {}
  <2>2. added \in SUBSET {"lasting"}
    OBVIOUS
  <2>3. (car.recommended /\ ~many) \in BOOLEAN
    OBVIOUS
  <2>4. QED
    BY <2>1, <2>2, <2>3
<1>3. WithoutParserErrors(car.reasons) \cup added \in SUBSET Reasons
      /\ "parser error" \notin WithoutParserErrors(car.reasons) \cup added
  BY <1>1 DEF WithoutParserErrors, Car, Reasons
<1>5. car' \in Car
  BY <1>1, <1>2, <1>3, <1>4 DEF Car
<1>6. /\ car'.attempts = car.attempts + 1 /\ car'.is_checked /\ car'.priced
      /\ "parser error" \notin car'.reasons
  BY <1>1, <1>2, <1>3, <1>4 DEF Car
<1>7. QED
  BY <1>1, <1>5, <1>6, NoCarAssumption DEF Present

\* A step of a parse task keeps types and locks.
LEMMA TaskTypedLocks ==
  ASSUME TypedLocks, NEW t \in Tasks,
         KickoffSelect(t) \/ TaskStep(t) \/ TaskError(t) \/ TaskRedelivered(t)
  PROVE  TypedLocks'
<1> USE NoOneAssumption, DistinctOwnersAssumption, ParsingBoundsAssumption
<1>0. /\ TypeOK /\ LockInv /\ task[t] \in Task /\ 0 \in 0..MaxRetries
      /\ t \in Owners /\ t # NoOne
      /\ \A b \in BidRuns : b # t /\ b # NoOne
      /\ \A f \in Feeds : f # t /\ f # NoOne
      /\ \A s \in Sweepers : s # t /\ s # NoOne
      /\ \A u \in Tasks : u # NoOne
  BY DEF TypedLocks, TypeOK, Owners
<1>1. CASE KickoffSelect(t)
  <2>1. Waiting(0) \in Task /\ Waiting(0).pc = "queued"
    BY <1>0 DEF Waiting, Task
  <2>2. TypeOK'
    BY <1>0, <1>1, <2>1 DEF KickoffSelect, TypeOK
  <2>3. LockInv'
    BY <1>0, <1>1, <2>1 DEF KickoffSelect, TypeOK, LockInv, RowFree, Present
  <2>4. QED
    BY <2>2, <2>3 DEF TypedLocks
<1>2. CASE TaskStart(t)
  <2>1. car.attempts \in Nat
    BY <1>0, <1>2 DEF TaskStart, TypeOK, Present, Car
  <2>2. TypeOK'
    <3>1. PICK history \in {"none", "few", "many"} :
            task' = [task EXCEPT ![t].pc = "parse", ![t].history = history,
                                 ![t].business_attempts = car.attempts]
      BY <1>2 DEF TaskStart
    <3>2. task' \in [Tasks -> Task]
      BY <1>0, <2>1, <3>1 DEF TypeOK, Task
    <3>3. QED
      BY <1>0, <1>2, <3>2 DEF TaskStart, TypeOK
  <2>3. LockInv'
    BY <1>0, <1>2 DEF TaskStart, TypeOK, LockInv, RowFree, Present, Task
  <2>4. QED
    BY <2>2, <2>3 DEF TypedLocks
<1>3. CASE TaskParse(t)
  <2>1. TypeOK'
    BY <1>0, <1>3 DEF TaskParse, Move, TypeOK, Task, Reports
  <2>2. LockInv'
    BY <1>0, <1>3 DEF TaskParse, Move, TypeOK, LockInv, RowFree, Present, Task
  <2>3. QED
    BY <2>1, <2>2 DEF TypedLocks
<1>4. CASE TaskLock(t)
  <2>1. TypeOK'
    BY <1>0, <1>4 DEF TaskLock, Move, TypeOK, Task
  <2>2. LockInv'
    BY <1>0, <1>4 DEF TaskLock, Move, TypeOK, LockInv, RowFree, Present, Task
  <2>3. QED
    BY <2>1, <2>2 DEF TypedLocks
<1>5. ASSUME NEW retries \in 0..MaxRetries
      PROVE  /\ Waiting(retries) \in Task /\ Ended(retries) \in Task
             /\ Waiting(retries).pc = "queued" /\ Ended(retries).pc = "ended"
  BY DEF Waiting, Ended, Task
<1>6. Retried(task[t]) \in Task /\ Retried(task[t]).pc \in {"queued", "ended"}
  <2>1. task[t].retries \in 0..MaxRetries
    BY <1>0 DEF Task
  <2>2. CASE task[t].retries < MaxRetries
    <3>1. task[t].retries + 1 \in 0..MaxRetries
      BY <2>1, <2>2
    <3>2. QED
      BY <1>5, <2>2, <3>1 DEF Retried
  <2>3. CASE ~(task[t].retries < MaxRetries)
    BY <1>5, <2>1, <2>3 DEF Retried
  <2>4. QED
    BY <2>2, <2>3
<1>7. Ended(task[t].retries) \in Task /\ Ended(task[t].retries).pc = "ended"
      /\ Waiting(task[t].retries) \in Task /\ Waiting(task[t].retries).pc = "queued"
  BY <1>0, <1>5 DEF Task
<1>8. CASE /\ \E new \in Task : /\ new.pc \in {"queued", "ended"}
                                /\ task' = [task EXCEPT ![t] = new]
           /\ rowOwner' = rowOwner \/ Release(t)
           /\ car' \in Car \cup {NoCar} /\ (Present => car' # NoCar)
           /\ histories' \in Nat /\ outcomes' \in Nat /\ autochecks' \subseteq Reports
           /\ redeliveries' \in Nat
           /\ UNCHANGED <<listing, bids, feed, sweep, uploads, errors>>
  <2>1. TypeOK'
    BY <1>0, <1>8 DEF TypeOK, Release
  <2>2. LockInv'
    BY <1>0, <1>8 DEF TypeOK, LockInv, RowFree, Present, Release
  <2>3. QED
    BY <2>1, <2>2 DEF TypedLocks
<1>9. CASE TaskSkip(t) \/ TaskRetry(t) \/ TaskNotFound(t) \/ TaskError(t)
           \/ TaskRedelivered(t)
  BY <1>0, <1>6, <1>7, <1>8, <1>9 DEF TaskSkip, TaskRetry, TaskNotFound, TaskError,
     TaskRedelivered, Finish, TypeOK, Present
<1>10. outcomes + 1 \in Nat /\ histories + 1 \in Nat
       /\ histories \in Nat /\ redeliveries \in Nat /\ autochecks \subseteq Reports
       /\ autochecks \cup ({task[t].report} \ {0}) \subseteq Reports
  BY <1>0 DEF TypeOK, Task
<1>11. CASE CommitFailed(t)
  <2>1. car' \in Car /\ car' # NoCar
    BY <1>0, <1>11, FailedRow DEF TypedLocks, Present
  <2>2. /\ task' = [task EXCEPT ![t] = Ended(task[t].retries)]
        /\ outcomes' = outcomes + 1
        /\ UNCHANGED <<histories, autochecks, uploads, listing, bids, feed,
                       sweep, redeliveries, errors>>
        /\ Release(t)
    BY <1>11 DEF CommitFailed, Finish
  <2>3. QED
    BY <1>7, <1>8, <1>10, <2>1, <2>2
<1>12. CASE CommitParsed(t)
  <2>1. car' \in Car /\ car' # NoCar
    BY <1>0, <1>12, ParsedRow DEF TypedLocks, Present
  <2>2. /\ task' = [task EXCEPT ![t] = Ended(task[t].retries)]
        /\ outcomes' = outcomes + 1 /\ histories' \in {histories, histories + 1}
        /\ autochecks' = autochecks \cup ({task[t].report} \ {0})
        /\ UNCHANGED <<uploads, listing, bids, feed, sweep, redeliveries, errors>>
        /\ Release(t)
    BY <1>12 DEF CommitParsed, Finish
  <2>3. QED
    BY <1>7, <1>8, <1>10, <2>1, <2>2
<1>13. QED
  BY <1>1, <1>2, <1>3, <1>4, <1>9, <1>11, <1>12 DEF TaskStep


\* Bid runs and feeds keep types and locks.
LEMMA BidsFeedTypedLocks ==
  ASSUME TypedLocks,
         \/ \E b \in BidRuns : BidsSelect(b) \/ Bids(b)
         \/ \E f \in Feeds : Feed(f)
  PROVE  TypedLocks'
<1> USE NoOneAssumption, DistinctOwnersAssumption, ParsingBoundsAssumption
<1>0. /\ TypeOK /\ LockInv
      /\ \A b \in BidRuns : b \notin Tasks \cup Feeds \cup Sweepers \cup {NoOne}
      /\ \A f \in Feeds : f \notin Tasks \cup Sweepers \cup {NoOne}
      /\ \A t \in Tasks : t # NoOne
      /\ \A s \in Sweepers : s # NoOne
      /\ BidRuns \cup Feeds \subseteq Owners
  BY DEF TypedLocks, Owners
<1>1. ASSUME NEW b \in BidRuns, BidsSelect(b) \/ BidsClaim(b) \/ BidsEnd(b)
      PROVE  TypedLocks'
  <2>1. TypeOK'
    BY <1>0, <1>1 DEF BidsSelect, BidsClaim, BidsEnd, Release, TypeOK
  <2>2. LockInv'
    BY <1>0, <1>1 DEF BidsSelect, BidsClaim, BidsEnd, Release, TypeOK, LockInv,
       RowFree, Present
  <2>3. QED
    BY <2>1, <2>2 DEF TypedLocks
<1>2. ASSUME NEW b \in BidRuns, BidsCommit(b) PROVE TypedLocks'
  <2>1. Present /\ car \in Car
    BY <1>0, <1>2 DEF BidsCommit, LockInv, RowFree, TypeOK, Present
  <2>2. \A over \in BOOLEAN : Judged(car, over) \in Car
    BY <2>1 DEF Judged, Car, Reasons
  <2>3. car' \in Car
    BY <1>2, <2>1, <2>2 DEF BidsCommit
  <2>4. TypeOK'
    BY <1>0, <1>2, <2>3 DEF BidsCommit, Release, TypeOK
  <2>5. LockInv'
    BY <1>0, <1>2, <2>3, NoCarAssumption DEF BidsCommit, Release, TypeOK, LockInv,
       RowFree, Present
  <2>6. QED
    BY <2>4, <2>5 DEF TypedLocks
<1>3. ASSUME NEW f \in Feeds, FeedClaim(f) \/ FeedError(f) PROVE TypedLocks'
  <2>1. TypeOK'
    BY <1>0, <1>3 DEF FeedClaim, FeedError, Release, TypeOK
  <2>2. LockInv'
    BY <1>0, <1>3 DEF FeedClaim, FeedError, Release, TypeOK, LockInv, RowFree, Present
  <2>3. QED
    BY <2>1, <2>2 DEF TypedLocks
<1>4. ASSUME NEW f \in Feeds, FeedCommit(f) PROVE TypedLocks'
  <2>1. Present /\ car \in Car
    BY <1>0, <1>4 DEF FeedCommit, LockInv, RowFree, TypeOK, Present
  <2>2. car' \in Car \cup {NoCar}
    BY <1>4, <2>1, ArchivedType DEF FeedCommit, DropCar
  <2>3. TypeOK'
    BY <1>0, <1>4, <2>2 DEF FeedCommit, DropCar, Release, TypeOK
  <2>4. rowOwner = f
    BY <1>0, <1>4 DEF FeedCommit, LockInv
  <2>5. LockInv'
    BY <1>0, <1>4, <2>4 DEF FeedCommit, Release, TypeOK, LockInv, RowFree, Present
  <2>6. QED
    BY <2>3, <2>5 DEF TypedLocks
<1>5. QED
  BY <1>1, <1>2, <1>3, <1>4 DEF Bids, Feed

\* The sweep keeps types and locks.
LEMMA SweepTypedLocks ==
  ASSUME TypedLocks, NEW s \in Sweepers,
         SweepBegin(s) \/ SweepLocks(s) \/ SweepStep(s)
  PROVE  TypedLocks'
<1> USE NoOneAssumption, DistinctOwnersAssumption, ParsingBoundsAssumption
<1> DEFINE Sweep == [pc : {"idle", "purge", "delete", "select", "http",
                           "apply", "holding"},
                     purged : SUBSET Reports,
                     loaded : Car \cup {NoCar}, known : BOOLEAN]
<1>0. /\ TypeOK /\ LockInv /\ sweep[s] \in Sweep
      /\ s \notin Tasks \cup BidRuns \cup Feeds \cup {NoOne}
      /\ \A t \in Tasks \cup BidRuns \cup Feeds \cup Sweepers : t # NoOne
      /\ s \in Owners
  BY DEF TypedLocks, TypeOK, Owners
<1>1. ASSUME NEW new \in Sweep, sweep' = [sweep EXCEPT ![s] = new],
             new.pc \in {"apply", "holding"} => new.loaded # NoCar,
             new.pc # "holding",
             car' \in Car \cup {NoCar}, Present => car' # NoCar \/ RowFree,
             rowOwner' = rowOwner \/ Release(s),
             histories' \in Nat, outcomes' \in Nat, autochecks' \subseteq Reports,
             errors' \in Nat,
             UNCHANGED <<uploads, listing, task, bids, feed, redeliveries>>
      PROVE  TypedLocks'
  <2>1. TypeOK'
    BY <1>0, <1>1 DEF TypeOK, Release
  <2>2. LockInv'
    BY <1>0, <1>1 DEF TypeOK, LockInv, RowFree, Present, Release
  <2>3. QED
    BY <2>1, <2>2 DEF TypedLocks
<1>2. /\ NoSweep \in Sweep /\ NoSweep.pc = "idle"
      /\ [NoSweep EXCEPT !.pc = "select"] \in Sweep
      /\ [NoSweep EXCEPT !.pc = "select"].pc = "select"
  BY DEF NoSweep
<1>3. /\ car \in Car \cup {NoCar} /\ histories \in Nat /\ outcomes \in Nat
      /\ autochecks \subseteq Reports /\ errors \in Nat
      /\ Present => car \in Car
  BY <1>0 DEF TypeOK, Present
<1>4. ASSUME NEW pc \in {"idle", "purge", "select", "http"}
      PROVE  /\ [sweep[s] EXCEPT !.pc = pc] \in Sweep
             /\ [sweep[s] EXCEPT !.pc = pc].pc = pc
  BY <1>0
<1>5. CASE SweepBegin(s) \/ SweepSelect(s)
  <2>1. \E pc \in {"idle", "purge", "select", "http"} :
          sweep' = [sweep EXCEPT ![s] = [sweep[s] EXCEPT !.pc = pc]]
    BY <1>0, <1>5 DEF SweepBegin, SweepSelect, TypeOK
  <2>2. UNCHANGED <<tableVars, outcomes, errors, uploads, listing, task, bids,
                    feed, redeliveries>>
    BY <1>5 DEF SweepBegin, SweepSelect
  <2>3. QED
    BY <1>1, <1>3, <1>4, <2>1, <2>2 DEF Present
<1>6. CASE SweepPurge(s)
  <2> DEFINE new == [sweep[s] EXCEPT !.pc = "delete", !.purged = autochecks]
  <2>1. new \in Sweep /\ new.pc = "delete" /\ sweep' = [sweep EXCEPT ![s] = new]
    BY <1>0, <1>3, <1>6 DEF SweepPurge, TypeOK
  <2>2. QED
    BY <1>1, <1>3, <1>6, <2>1 DEF SweepPurge, Present
<1>7. CASE SweepDelete(s)
  <2>1. /\ car' \in Car \cup {NoCar} /\ histories' \in Nat /\ outcomes' \in Nat
        /\ autochecks' \subseteq Reports
    BY <1>3, <1>7 DEF SweepDelete, DropCar
  <2>2. QED
    BY <1>1, <1>2, <1>3, <1>7, <2>1 DEF SweepDelete
<1>8. CASE SweepGone(s)
  <2>1. car' \in Car \cup {NoCar}
    BY <1>3, <1>8, ArchivedType DEF SweepGone
  <2>2. QED
    BY <1>1, <1>2, <1>3, <1>8, <2>1 DEF SweepGone
<1>9. CASE SweepLoad(s)
  <2> DEFINE new == IF Present THEN [NoSweep EXCEPT !.pc = "apply", !.loaded = car,
                                       !.known = histories > 0]
                    ELSE NoSweep
  <2> DEFINE known == histories > 0
  <2>1. new \in Sweep
    <3>1. known \in BOOLEAN
      OBVIOUS
    <3>2. [NoSweep EXCEPT !.pc = "apply", !.loaded = car, !.known = known] \in Sweep
      <4> HIDE DEF known
      <4>1. QED
        BY <1>2, <1>3, <3>1
    <3>3. QED
      BY <1>2, <3>2
  <2>2. new.pc \in {"apply", "holding"} => new.loaded # NoCar
    BY <1>2 DEF NoSweep, Present
  <2>3. new.pc # "holding"
    BY <1>2 DEF NoSweep
  <2>4. QED
    BY <1>1, <1>3, <1>9, <2>1, <2>2, <2>3 DEF SweepLoad, Present
<1>10. CASE SweepFlush(s)
  <2>1. TypeOK'
    BY <1>0, <1>10 DEF SweepFlush, TypeOK
  <2>2. LockInv'
    BY <1>0, <1>10 DEF SweepFlush, TypeOK, LockInv, RowFree, Present
  <2>3. QED
    BY <2>1, <2>2 DEF TypedLocks
<1>11. CASE SweepCommit(s)
  <2> DEFINE loaded == sweep[s].loaded
  <2>1. loaded \in Car /\ Present /\ car \in Car
    BY <1>0, <1>3, <1>11 DEF SweepCommit, LockInv, RowFree
  <2>2. PICK date \in {"past", "future", "none"}, added \in SUBSET {"bid", "lasting"} :
          car' = Changed(loaded, Refreshed(loaded, date, added))
    BY <1>11 DEF SweepCommit, AnsweredDates
  <2>3. car' \in Car
    BY <2>1, <2>2, RefreshedType, ChangedType
  <2>4. histories' \in Nat
    BY <1>3, <1>11 DEF SweepCommit
  <2>5. QED
    BY <1>1, <1>2, <1>3, <1>11, <2>3, <2>4, NoCarAssumption DEF SweepCommit
<1>12. CASE SweepError(s)
  <2>1. errors' \in Nat
    BY <1>3, <1>12 DEF SweepError
  <2>2. /\ sweep' = [sweep EXCEPT ![s] = NoSweep] /\ Release(s)
        /\ UNCHANGED <<car, histories, autochecks, uploads, listing, task, bids,
                       feed, redeliveries, outcomes>>
    BY <1>12 DEF SweepError
  <2>3. QED
    BY <1>1, <1>2, <1>3, <2>1, <2>2 DEF Present
<1>13. QED
  BY <1>5, <1>6, <1>7, <1>8, <1>9, <1>10, <1>11, <1>12 DEF SweepLocks, SweepStep

\* Every step keeps types and locks.
LEMMA NextTypedLocks == TypedLocks /\ [Next]_vars => TypedLocks'
<1> SUFFICES ASSUME TypedLocks, [Next]_vars PROVE TypedLocks'
  OBVIOUS
<1>1. CASE AuctionPasses
  <2>1. car' \in Car
    BY <1>1 DEF AuctionPasses, TypedLocks, TypeOK, Present, Car
  <2>2. TypeOK'
    BY <1>1, <2>1 DEF AuctionPasses, TypedLocks, TypeOK
  <2>3. LockInv'
    BY <1>1, <2>1, NoCarAssumption DEF AuctionPasses, TypedLocks, LockInv, RowFree,
       Present
  <2>4. QED
    BY <2>2, <2>3 DEF TypedLocks
<1>2. CASE UNCHANGED vars
  BY <1>2 DEF vars, TypedLocks, TypeOK, LockInv, RowFree, Present
<1>3. QED
  BY <1>1, <1>2, TaskTypedLocks, BidsFeedTypedLocks, SweepTypedLocks DEF Next

\* The row and the jobs stay well typed, and only an owner writes under the lock.
THEOREM TypesAndLocks == Spec => [](TypeOK /\ LockInv)
<1>1. TypedLocks => TypeOK /\ LockInv
  BY DEF TypedLocks
<1>2. QED
  BY <1>1, InitTypedLocks, NextTypedLocks, PTL DEF Spec


-----------------------------------------------------------------------------
(* What is written to the row                                              *)

\* The columns the properties are about: what a step does to them.
Untouched == UNCHANGED <<car, histories, outcomes>>

\* A failed parse: one more outcome, and the VIN counts as wrong.
RecordsFailure ==
  /\ Present /\ Present'
  /\ car'.attempts = car.attempts + 1 /\ outcomes' = outcomes + 1
  /\ ~car'.has_correct_vin
  /\ car'.is_checked = car.is_checked /\ car'.priced = car.priced
  /\ histories' = histories

\* A parsed car: one more outcome, checked and priced, no parser error left, and
\* a sales history only when there was none.
RecordsSuccess ==
  /\ Present /\ Present'
  /\ car'.attempts = car.attempts + 1 /\ outcomes' = outcomes + 1
  /\ car'.is_checked /\ car'.priced
  /\ "parser error" \notin car'.reasons
  /\ histories' = histories \/ (histories = 0 /\ histories' = 1)

\* Any other change of an existing row keeps the outcome of its parses; what
\* becomes of flag and reason and of the history is known without the refresh.
KeepsOutcome ==
  /\ Present /\ Present' /\ outcomes' = outcomes
  /\ car'.attempts = car.attempts
  /\ car'.is_checked = car.is_checked /\ car'.priced = car.priced
  /\ ~RefreshServed =>
       /\ histories' = histories
       /\ car'.has_correct_vin = car.has_correct_vin
       /\ "parser error" \in car'.reasons <=> "parser error" \in car.reasons

\* Without the refresh route no sweep ever has an answer to apply.
NoRefresh == \A s \in Sweepers : sweep[s].pc \notin {"apply", "holding"}

RefreshInv == ~RefreshServed => NoRefresh

\* The step of a parse task.
LEMMA TaskWrites ==
  ASSUME TypedLocks, NEW t \in Tasks,
         KickoffSelect(t) \/ TaskStep(t) \/ TaskError(t) \/ TaskRedelivered(t)
  PROVE  Untouched \/ RecordsFailure \/ RecordsSuccess
<1>2. CASE CommitFailed(t)
  BY <1>2, FailedRow DEF CommitFailed, RecordsFailure
<1>3. CASE CommitParsed(t)
  <2>1. histories' = histories \/ (histories = 0 /\ histories' = 1)
    BY <1>3 DEF CommitParsed, StoresHistory
  <2>2. outcomes' = outcomes + 1
    BY <1>3 DEF CommitParsed
  <2>3. QED
    BY <1>3, <2>1, <2>2, ParsedRow DEF RecordsSuccess
<1>4. CASE Untouched
  BY <1>4
<1>5. QED
  BY <1>2, <1>3, <1>4 DEF TaskStep, Untouched, KickoffSelect, TaskStart, TaskParse,
     TaskLock, TaskSkip, TaskRetry, TaskNotFound, TaskError, TaskRedelivered


\* The steps of bid runs and feeds: a row is deleted, or keeps its outcome.
LEMMA BidsFeedWrites ==
  ASSUME TypedLocks,
         \/ \E b \in BidRuns : BidsSelect(b) \/ Bids(b)
         \/ \E f \in Feeds : Feed(f)
  PROVE  Untouched \/ DropCar \/ KeepsOutcome
<1>1. ASSUME NEW b \in BidRuns, BidsCommit(b) PROVE Untouched \/ KeepsOutcome
  <2>1. Present /\ car \in Car
    BY <1>1, NoOneAssumption DEF BidsCommit, TypedLocks, TypeOK, LockInv, RowFree,
       Present, Owners
  <2>2. \A over \in BOOLEAN :
          LET new == Judged(car, over)
          IN  /\ new.attempts = car.attempts /\ new.priced = car.priced
              /\ new.is_checked = car.is_checked
              /\ new.has_correct_vin = car.has_correct_vin
              /\ "parser error" \in new.reasons <=> "parser error" \in car.reasons
              /\ new \in Car
    BY <2>1 DEF Judged, Car, Reasons
  <2>3. UNCHANGED <<histories, outcomes>>
    BY <1>1 DEF BidsCommit
  <2>4. CASE car.priced
    BY <1>1, <2>1, <2>2, <2>3, <2>4, NoCarAssumption DEF BidsCommit, KeepsOutcome, Present
  <2>5. CASE ~car.priced
    BY <1>1, <2>3, <2>5 DEF BidsCommit, Untouched
  <2>6. QED
    BY <2>4, <2>5
<1>2. ASSUME NEW f \in Feeds, FeedCommit(f) PROVE DropCar \/ KeepsOutcome
  <2>1. Present /\ car \in Car
    BY <1>2, NoOneAssumption DEF FeedCommit, TypedLocks, TypeOK, LockInv, RowFree,
       Present, Owners
  <2>2. CASE car' = Archived(car) /\ UNCHANGED <<histories, outcomes>>
    <3>1. car' \in Car
      BY <2>1, <2>2, ArchivedType
    <3>2. QED
      BY <2>1, <2>2, <3>1, NoCarAssumption DEF Archived, Car, KeepsOutcome, Present
  <2>3. QED
    BY <1>2, <2>2 DEF FeedCommit
<1>3. QED
  BY <1>1, <1>2 DEF Bids, Feed, BidsSelect, BidsClaim, BidsEnd, FeedClaim, FeedError,
     Untouched

\* A step of the sweep: a row is deleted, or keeps its outcome although the sweep
\* writes what it has loaded long before.
LEMMA SweepWrites ==
  ASSUME TypedLocks, RefreshInv, NEW s \in Sweepers,
         SweepBegin(s) \/ SweepLocks(s) \/ SweepStep(s)
  PROVE  Untouched \/ DropCar \/ KeepsOutcome
<1>1. CASE SweepCommit(s)
  <2> DEFINE loaded == sweep[s].loaded
  <2>1. Present /\ car \in Car /\ loaded \in Car /\ RefreshServed
    BY <1>1, NoOneAssumption DEF SweepCommit, TypedLocks, TypeOK, LockInv, RowFree,
       Present, Owners, RefreshInv, NoRefresh
  <2>2. PICK date \in {"past", "future", "none"}, added \in SUBSET {"bid", "lasting"} :
          car' = Changed(loaded, Refreshed(loaded, date, added))
    BY <1>1 DEF SweepCommit, AnsweredDates
  <2> DEFINE new == Refreshed(loaded, date, added)
  <2>3. new \in Car
    BY <2>1, RefreshedType
  <2>7. /\ new.attempts = loaded.attempts
        /\ new.is_checked = loaded.is_checked /\ new.priced = loaded.priced
    BY <2>1 DEF Refreshed, Car
  <2>4. {"attempts", "is_checked", "priced"} \subseteq DOMAIN car
    BY <2>1 DEF Car
  <2>5. /\ car' \in Car /\ car'.attempts = car.attempts
        /\ car'.is_checked = car.is_checked /\ car'.priced = car.priced
    <3> HIDE DEF new
    <3>1. QED
      BY <2>1, <2>2, <2>3, <2>4, <2>7, ChangedType DEF new
  <2>6. QED
    BY <1>1, <2>1, <2>5, NoCarAssumption DEF SweepCommit, KeepsOutcome, Present
<1>2. CASE SweepGone(s)
  <2>1. CASE Present
    <3>1. car \in Car /\ car' = Archived(car) /\ UNCHANGED <<histories, outcomes>>
      BY <1>2, <2>1 DEF SweepGone, TypedLocks, TypeOK, Present
    <3>2. car' \in Car
      BY <3>1, ArchivedType
    <3>3. QED
      BY <2>1, <3>1, <3>2, NoCarAssumption DEF Archived, Car, KeepsOutcome, Present
  <2>2. CASE ~Present
    BY <1>2, <2>2 DEF SweepGone, Untouched
  <2>3. QED
    BY <2>1, <2>2
<1>3. QED
  BY <1>1, <1>2 DEF SweepLocks, SweepStep, SweepBegin, SweepPurge, SweepDelete,
     SweepSelect, SweepLoad, SweepFlush, SweepError, Untouched

\* Whatever happens to the row is one of these.
LEMMA StepWrites ==
  ASSUME TypedLocks, RefreshInv, [Next]_vars
  PROVE  Untouched \/ DropCar \/ KeepsOutcome \/ RecordsFailure \/ RecordsSuccess
<1>1. CASE AuctionPasses
  <2>1. car \in Car /\ Present
    BY <1>1 DEF AuctionPasses, TypedLocks, TypeOK, Present
  <2>2. car' \in Car /\ car' = [car EXCEPT !.date = "past"]
    BY <1>1, <2>1 DEF AuctionPasses, Car
  <2>3. QED
    BY <1>1, <2>1, <2>2, NoCarAssumption DEF AuctionPasses, Car, KeepsOutcome, Present
<1>2. CASE UNCHANGED vars
  BY <1>2 DEF vars, Untouched
<1>3. QED
  BY <1>1, <1>2, TaskWrites, BidsFeedWrites, SweepWrites DEF Next

\* Without the refresh route no sweep gets past its request.
LEMMA NextRefreshInv ==
  (Init => RefreshInv) /\ (TypedLocks /\ RefreshInv /\ [Next]_vars => RefreshInv')
<1>1. Init => RefreshInv
  BY DEF Init, NoJobs, NoSweep, RefreshInv, NoRefresh
<1>2. ASSUME TypedLocks, RefreshInv, [Next]_vars, ~RefreshServed PROVE NoRefresh'
  <2>1. NoRefresh
    BY <1>2 DEF RefreshInv
  <2>2. CASE sweep' = sweep
    BY <2>1, <2>2 DEF NoRefresh
  <2>3. ASSUME NEW s \in Sweepers, SweepBegin(s) \/ SweepLocks(s) \/ SweepStep(s)
        PROVE  NoRefresh'
    BY <1>2, <2>1, <2>3 DEF NoRefresh, TypedLocks, TypeOK, SweepBegin, SweepLocks,
       SweepStep, SweepPurge, SweepDelete, SweepSelect, SweepGone, SweepLoad, SweepFlush,
       SweepCommit, SweepError, NotFound, NoSweep
  <2>4. QED
    BY <1>2, <2>2, <2>3 DEF Next, vars, AuctionPasses, KickoffSelect, TaskStep,
       TaskStart, TaskParse, TaskLock, TaskSkip, TaskRetry, TaskNotFound, CommitFailed,
       CommitParsed, TaskError, TaskRedelivered, BidsSelect, Bids, BidsClaim, BidsCommit,
       BidsEnd, Feed, FeedClaim, FeedCommit, FeedError
<1>3. QED
  BY <1>1, <1>2 DEF RefreshInv

-----------------------------------------------------------------------------
(* The row's invariants                                                    *)

\* A checked car has its price: what ParseResultKept needs to know.
CheckedIsPriced == Present /\ car.is_checked => car.priced

\* With the routes the parsers service really serves.
UnrefreshedInv == ~RefreshServed => HistoryOnce /\ VinFlagMatchesReason

RowInv == /\ RefreshInv /\ AttemptsCounted /\ CheckedIsPriced /\ UnrefreshedInv

\* A new row has no outcome and no history.
LEMMA InitRowInv == Init => RowInv
<1> SUFFICES ASSUME Init PROVE RowInv
  OBVIOUS
<1>1. RefreshInv
  BY NextRefreshInv
<1>2. outcomes = 0 /\ HistoryOnce
  BY DEF Init, NoJobs, HistoryOnce
<1>3. PICK relevance \in {"Active", "Irrelevant"},
           date \in {"past", "future", "none"}, reasons \in SUBSET {"lasting"} :
        car = NewRow(relevance, date, reasons)
  BY DEF Init
<1>4. /\ car.attempts = 0 /\ ~car.is_checked /\ "parser error" \notin car.reasons
  BY <1>3 DEF NewRow
<1>5. AttemptsCounted
  BY <1>2, <1>4 DEF AttemptsCounted
<1>6. CheckedIsPriced /\ VinFlagMatchesReason
  BY <1>4 DEF CheckedIsPriced, VinFlagMatchesReason
<1>7. QED
  BY <1>1, <1>2, <1>5, <1>6 DEF RowInv, UnrefreshedInv

\* RowInv is inductive, given types and locks.
LEMMA NextRowInv == TypedLocks /\ RowInv /\ [Next]_vars => RowInv'
<1> SUFFICES ASSUME TypedLocks, RowInv, [Next]_vars PROVE RowInv'
  OBVIOUS
<1>1. RefreshInv'
  BY NextRefreshInv DEF RowInv
<1>2. /\ AttemptsCounted /\ CheckedIsPriced /\ UnrefreshedInv
      /\ histories \in Nat /\ outcomes \in Nat
  BY DEF RowInv, TypedLocks, TypeOK
<1>3. CASE Untouched
  BY <1>1, <1>2, <1>3 DEF Untouched, RowInv, AttemptsCounted, CheckedIsPriced,
     UnrefreshedInv, HistoryOnce, VinFlagMatchesReason, Present
<1>4. CASE DropCar
  <2>1. ~Present' /\ histories' = 0
    BY <1>4 DEF DropCar, Present
  <2>2. HistoryOnce'
    BY <2>1 DEF HistoryOnce
  <2>3. QED
    BY <1>1, <2>1, <2>2 DEF RowInv, AttemptsCounted, CheckedIsPriced, UnrefreshedInv,
       VinFlagMatchesReason
<1>5. CASE KeepsOutcome
  BY <1>1, <1>2, <1>5 DEF KeepsOutcome, RowInv, AttemptsCounted, CheckedIsPriced,
     UnrefreshedInv, HistoryOnce, VinFlagMatchesReason
<1>6. CASE RecordsFailure
  BY <1>1, <1>2, <1>6 DEF RecordsFailure, RowInv, AttemptsCounted, CheckedIsPriced,
     UnrefreshedInv, HistoryOnce, VinFlagMatchesReason
<1>7. CASE RecordsSuccess
  <2>1. HistoryOnce => HistoryOnce'
    <3>1. histories' = histories \/ histories' = 1
      BY <1>7 DEF RecordsSuccess
    <3>2. QED
      BY <1>2, <3>1 DEF HistoryOnce
  <2>2. AttemptsCounted'
    BY <1>2, <1>7 DEF RecordsSuccess, AttemptsCounted
  <2>3. CheckedIsPriced' /\ VinFlagMatchesReason'
    BY <1>7 DEF RecordsSuccess, CheckedIsPriced, VinFlagMatchesReason
  <2>4. QED
    BY <1>1, <1>2, <2>1, <2>2, <2>3 DEF RowInv, UnrefreshedInv
<1>8. QED
  BY <1>3, <1>4, <1>5, <1>6, <1>7, StepWrites DEF RowInv

\* In every reachable state.
LEMMA RowInvariant == Spec => [](TypedLocks /\ RowInv)
BY InitTypedLocks, NextTypedLocks, InitRowInv, NextRowInv, PTL DEF Spec

\* attempts counts every recorded outcome, whatever tasks, bid runs, feeds and
\* sweeps do at the same time.
THEOREM AttemptsAreCounted == Spec => []AttemptsCounted
<1>1. RowInv => AttemptsCounted
  BY DEF RowInv
<1>2. QED
  BY <1>1, RowInvariant, PTL

\* However many parse tasks there are of a car and however often they are
\* delivered, its sales history is stored once: with the routes parsers serves.
THEOREM HistoryIsStoredOnce ==
  ASSUME ~RefreshServed
  PROVE  Spec => []HistoryOnce
<1>1. RowInv => HistoryOnce
  BY DEF RowInv, UnrefreshedInv
<1>2. QED
  BY <1>1, RowInvariant, PTL

\* The flag of a wrong VIN and its reason change together: with the routes
\* parsers serves.
THEOREM VinFlagIsRight ==
  ASSUME ~RefreshServed
  PROVE  Spec => []VinFlagMatchesReason
<1>1. RowInv => VinFlagMatchesReason
  BY DEF RowInv, UnrefreshedInv
<1>2. QED
  BY <1>1, RowInvariant, PTL

\* Nothing takes back that a car has been parsed and priced, the sweep included,
\* which writes what it has loaded before, with and without the refresh route.
THEOREM ParseResultsAreKept == Spec => ParseResultKept
<1> DEFINE Kept == Present /\ Present' /\ car.is_checked =>
                     car'.is_checked /\ car'.priced /\ car'.attempts >= car.attempts
<1>1. ASSUME TypedLocks, RowInv, [Next]_vars PROVE Kept
  <2>1. Present => car.attempts \in Nat
    BY <1>1 DEF TypedLocks, TypeOK, Present, Car
  <2>2. /\ Untouched \/ DropCar \/ KeepsOutcome \/ RecordsFailure \/ RecordsSuccess
        /\ CheckedIsPriced
    BY <1>1, StepWrites DEF RowInv
  <2>3. Present /\ Present' => car'.attempts \in {car.attempts, car.attempts + 1}
    BY <2>2 DEF Untouched, DropCar, KeepsOutcome, RecordsFailure, RecordsSuccess,
       Present
  <2>4. Present /\ Present' => car'.attempts >= car.attempts
    BY <2>1, <2>3
  <2>5. Present /\ Present' /\ car.is_checked => car'.is_checked /\ car'.priced
    BY <2>2 DEF Untouched, DropCar, KeepsOutcome, RecordsFailure, RecordsSuccess,
       Present, CheckedIsPriced
  <2>6. QED
    BY <2>4, <2>5
<1>2. TypedLocks /\ RowInv /\ [Next]_vars => [Kept]_vars
  BY <1>1
<1>3. Spec => [][Kept]_vars
  BY <1>2, RowInvariant, PTL DEF Spec
<1>4. QED
  BY <1>3 DEF ParseResultKept

-----------------------------------------------------------------------------
(* Imports and administrator's entries                                     *)

\* A prepared row is a row: what is written in place of, or into, the stored one.
PreparedRows ==
  /\ \A m \in Importers : import[m].pc = "writing" => import[m].row \in Car
  /\ \A u \in Upserters : upsert[u].pc = "writing" => upsert[u].new \in Car

IngestionInv == IngestionTypeOK /\ LockInv /\ PreparedRows

\* There is no row, and no call has been made.
LEMMA InitIngestionInv == IngestionInit => IngestionInv
<1> SUFFICES ASSUME IngestionInit PROVE IngestionInv
  OBVIOUS
<1>1. task \in [Tasks -> Task]
  BY ParsingBoundsAssumption DEF IngestionInit, NoJobs, Unused, Waiting, Task
<1>2. sweep \in [Sweepers -> [pc : {"idle", "purge", "delete", "select", "http",
                                   "apply", "holding"},
                              purged : SUBSET Reports,
                              loaded : Car \cup {NoCar}, known : BOOLEAN]]
  BY DEF IngestionInit, NoJobs, NoSweep
<1>3. TypeOK
  BY <1>1, <1>2, ParsingBoundsAssumption DEF TypeOK, IngestionInit, NoJobs
<1>4. IngestionTypeOK
  <2>1. 0 \in 0..MaxImportErrors /\ 0 \in 0..MaxUpserts
    BY IngestionBoundsAssumption
  <2>2. import \in [Importers -> [pc : {"idle", "writing", "details", "sending"},
                                  row : Car \cup {NoCar}, manual : BOOLEAN,
                                  to_parse : BOOLEAN]]
    BY DEF IngestionInit, NoImport
  <2>3. upsert \in [Upserters -> [pc : {"idle", "writing", "sending"},
                                  loaded : Car \cup {NoCar}, manual : BOOLEAN,
                                  new : Car \cup {NoCar}]]
    BY DEF IngestionInit, NoUpsert
  <2>4. QED
    BY <1>3, <2>1, <2>2, <2>3 DEF IngestionTypeOK, IngestionInit
<1>5. LockInv
  BY DEF IngestionInit, NoJobs, LockInv, RowFree, Unused, Waiting, NoSweep
<1>6. PreparedRows
  BY DEF IngestionInit, PreparedRows, NoImport, NoUpsert
<1>7. QED
  BY <1>4, <1>5, <1>6 DEF IngestionInv

\* What a new lot inserts is a row.
LEMMA NewRowType ==
  ASSUME NEW relevance \in {"Active", "Archival", "Irrelevant"},
         NEW date \in {"past", "future", "none"}, NEW reasons \in SUBSET Reasons
  PROVE  NewRow(relevance, date, reasons) \in Car
BY DEF NewRow, Car

\* The judgement of a lot keeps the type of its row.
LEMMA JudgeType ==
  ASSUME NEW row \in Car, NEW found \in SUBSET Reasons
  PROVE  Judge(row, found) \in Car
BY DEF Judge, Car

\* What an import computes for a lot is a row.
LEMMA PreparedType ==
  ASSUME TypeOK, manual \in BOOLEAN, NEW ivent \in Ivents, NEW date \in Dates,
         NEW matches \in BOOLEAN, NEW found \in SUBSET LotReasons
  PROVE  /\ Prepared(ivent, date, matches, found).row \in Car
         /\ Prepared(ivent, date, matches, found).manual \in BOOLEAN
         /\ Prepared(ivent, date, matches, found).to_parse \in BOOLEAN
<1>1. date \in {"past", "future", "none"}
  BY IngestionBoundsAssumption
<1>2. found \in SUBSET Reasons /\ {} \in SUBSET Reasons
  BY IngestionBoundsAssumption DEF Reasons
<1>3. Present => car \in Car
  BY DEF TypeOK, Present
<1>4. CASE ~Present
  BY <1>1, <1>2, <1>4, NewRowType DEF Prepared
<1>5. CASE Present /\ manual
  <2>1. [car EXCEPT !.date = "none"] \in Car
    BY <1>3, <1>5 DEF Car
  <2>2. QED
    BY <1>2, <1>5, <2>1, JudgeType DEF Prepared
<1>6. CASE Present /\ ~manual
  <2> DEFINE row == [car EXCEPT !.date = date, !.has_correct_vin = FALSE]
  <2>1. row \in Car
    BY <1>1, <1>3, <1>6 DEF Car
  <2>2. Relisted(row, matches) \in Car
    <3> HIDE DEF row
    <3>1. QED
      BY <2>1 DEF Relisted, Car
  <2>3. KnownRow(ivent, date, matches, found) \in Car
    BY <1>2, <2>1, <2>2, JudgeType DEF KnownRow
  <2>4. ToParse(ivent, matches) \in BOOLEAN
    BY DEF ToParse
  <2>5. QED
    BY <1>6, <2>3, <2>4 DEF Prepared
<1>7. QED
  BY <1>4, <1>5, <1>6


\* Writing the row while nobody has locked it keeps types and locks.
LEMMA RowWritten ==
  ASSUME TypedLocks, RowFree, car' \in Car,
         UNCHANGED <<rowOwner, histories, autochecks, uploads, listing, task, bids,
                     feed, sweep, redeliveries, errors, outcomes>>
  PROVE  TypedLocks'
<1>1. TypeOK'
  BY DEF TypedLocks, TypeOK
<1>2. LockInv'
  BY NoCarAssumption DEF TypedLocks, LockInv, RowFree, Present
<1>3. QED
  BY <1>1, <1>2 DEF TypedLocks

\* So does a step that only sends a task, or does not touch the row and its jobs.
LEMMA TaskSent ==
  ASSUME TypedLocks, (\E t \in Tasks : SendTask(t)) \/ UNCHANGED task,
         UNCHANGED <<tableVars, uploads, listing, bids, feed, sweep, redeliveries,
                     errors, outcomes>>
  PROVE  TypedLocks'
<1>1. ASSUME NEW t \in Tasks, SendTask(t) PROVE TypedLocks'
  <2>1. Waiting(0) \in Task /\ Waiting(0).pc = "queued"
    BY ParsingBoundsAssumption DEF Waiting, Task
  <2>2. TypeOK'
    BY <1>1, <2>1 DEF SendTask, TypedLocks, TypeOK
  <2>3. LockInv'
    BY <1>1, <2>1 DEF SendTask, TypedLocks, TypeOK, LockInv, RowFree, Present
  <2>4. QED
    BY <2>2, <2>3 DEF TypedLocks
<1>2. CASE UNCHANGED task
  BY <1>2 DEF TypedLocks, TypeOK, LockInv, RowFree, Present
<1>3. QED
  BY <1>1, <1>2

\* The row an import writes over a stored one keeps what the parse task owns.
LEMMA UpdatedKeeps ==
  ASSUME car \in Car, NEW row \in Car
  PROVE  /\ Updated(row) \in Car
         /\ Updated(row).attempts = car.attempts
         /\ Updated(row).is_checked = car.is_checked
         /\ Updated(row).has_correct_vin = car.has_correct_vin
         /\ Updated(row).priced = car.priced
BY DEF Updated, Car

\* The steps of an import.
LEMMA ImportInv ==
  ASSUME IngestionInv, NEW m \in Importers, Import(m)
  PROVE  IngestionInv'
<1> DEFINE Calls == [pc : {"idle", "writing", "details", "sending"},
                     row : Car \cup {NoCar}, manual : BOOLEAN, to_parse : BOOLEAN]
<1>0. /\ TypedLocks /\ PreparedRows /\ import[m] \in Calls /\ manual \in BOOLEAN
      /\ import \in [Importers -> Calls] /\ IngestionTypeOK
      /\ NoImport \in Calls /\ NoImport.pc = "idle"
  BY DEF IngestionInv, IngestionTypeOK, TypedLocks, NoImport
<1>1. ASSUME NEW new \in Calls, import' = [import EXCEPT ![m] = new],
             new.pc = "writing" => new.row \in Car, TypedLocks',
             manual' \in BOOLEAN, importErrors' \in 0..MaxImportErrors,
             UNCHANGED <<upsert, upserts>>
      PROVE  IngestionInv'
  <2>1. PreparedRows'
    BY <1>0, <1>1 DEF PreparedRows
  <2>2. import' \in [Importers -> Calls]
    BY <1>0, <1>1
  <2>3. QED
    BY <1>0, <1>1, <2>1, <2>2 DEF IngestionInv, IngestionTypeOK, TypedLocks
<1>2. importErrors \in 0..MaxImportErrors /\ TypeOK
  BY <1>0 DEF IngestionTypeOK
<1>3. ASSUME UNCHANGED vars PROVE TypedLocks'
  BY <1>0, <1>3, TaskSent DEF vars
<1>4. ASSUME NEW pc \in {"details", "sending"}
      PROVE  [import[m] EXCEPT !.pc = pc] \in Calls
             /\ [import[m] EXCEPT !.pc = pc].pc # "writing"
  BY <1>0
<1>5. CASE ImportRead(m)
  <2>1. PICK ivent \in Ivents, date \in Dates, matches \in BOOLEAN,
             found \in SUBSET LotReasons :
          LET new == Prepared(ivent, date, matches, found)
          IN  import' = [import EXCEPT ![m] =
                [pc |-> "writing", row |-> new.row, manual |-> new.manual,
                 to_parse |-> new.to_parse]]
    BY <1>5 DEF ImportRead
  <2> DEFINE new == Prepared(ivent, date, matches, found)
             call == [pc |-> "writing", row |-> new.row, manual |-> new.manual,
                      to_parse |-> new.to_parse]
  <2>2. /\ new.row \in Car /\ new.manual \in BOOLEAN /\ new.to_parse \in BOOLEAN
    BY <1>0, <1>2, PreparedType
  <2>3. call \in Calls /\ call.row \in Car /\ import' = [import EXCEPT ![m] = call]
    <3> HIDE DEF new
    <3>1. QED
      BY <2>1, <2>2 DEF new
  <2>4. UNCHANGED <<vars, manual, upsert, importErrors, upserts>>
    BY <1>5 DEF ImportRead
  <2>5. QED
    <3> HIDE DEF call
    <3>1. QED
      BY <1>0, <1>1, <1>2, <1>3, <2>3, <2>4
<1>6. CASE ImportUpsert(m)
  <2> DEFINE new == [NoImport EXCEPT !.pc = "details", !.to_parse = import[m].to_parse]
  <2>1. import[m].row \in Car /\ RowFree
    BY <1>0, <1>6 DEF ImportUpsert, PreparedRows
  <2>2. car' \in Car
    BY <1>2, <1>6, <2>1, UpdatedKeeps DEF ImportUpsert, TypeOK, Present
  <2>3. TypedLocks'
    BY <1>0, <1>6, <2>1, <2>2, RowWritten DEF ImportUpsert
  <2>4. manual' \in BOOLEAN
    BY <1>0, <1>6 DEF ImportUpsert
  <2>5. import' = [import EXCEPT ![m] = new] /\ UNCHANGED <<importErrors, upsert, upserts>>
    BY <1>0, <1>6 DEF ImportUpsert
  <2>6. new \in Calls /\ new.pc # "writing"
    BY <1>0
  <2> HIDE DEF new
  <2>7. QED
    BY <1>1, <1>2, <2>3, <2>4, <2>5, <2>6
<1>7. CASE ImportDetails(m)
  <2>1. import' = [import EXCEPT ![m] = [import[m] EXCEPT !.pc = "sending"]]
    BY <1>0, <1>7 DEF ImportDetails
  <2>2. UNCHANGED <<vars, manual, upsert, importErrors, upserts>>
    BY <1>7 DEF ImportDetails
  <2>3. QED
    BY <1>0, <1>1, <1>2, <1>3, <1>4, <2>1, <2>2
<1>8. CASE ImportDetailsRefused(m)
  <2>1. UNCHANGED <<vars, manual, upsert, importErrors, upserts>>
        /\ import' = [import EXCEPT ![m] = NoImport]
    BY <1>8 DEF ImportDetailsRefused
  <2>2. QED
    BY <1>0, <1>1, <1>2, <1>3, <2>1
<1>9. CASE ImportSend(m)
  <2>1. TypedLocks'
    BY <1>0, <1>9, TaskSent DEF ImportSend
  <2>2. import' = [import EXCEPT ![m] = NoImport]
        /\ UNCHANGED <<manual, upsert, importErrors, upserts>>
    BY <1>9 DEF ImportSend
  <2>3. QED
    BY <1>0, <1>1, <1>2, <2>1, <2>2
<1>10. CASE ImportError(m)
  <2>1. importErrors' \in 0..MaxImportErrors
    BY <1>2, <1>10, IngestionBoundsAssumption DEF ImportError
  <2>2. UNCHANGED <<vars, manual, upsert, upserts>>
        /\ import' = [import EXCEPT ![m] = NoImport]
    BY <1>10 DEF ImportError
  <2>3. QED
    BY <1>0, <1>1, <1>3, <2>1, <2>2
<1>11. QED
  BY <1>5, <1>6, <1>7, <1>8, <1>9, <1>10 DEF Import

\* What an administrator enters is a row.
LEMMA EnteredType ==
  ASSUME TypeOK, NEW date \in Dates, NEW found \in SUBSET LotReasons
  PROVE  Entered(date, found) \in Car
<1>1. date \in {"past", "future", "none"} /\ found \in SUBSET Reasons
  BY IngestionBoundsAssumption DEF Reasons
<1>2. \A row \in Car : Ruled(row, found) \in Car
  BY <1>1 DEF Ruled, Car
<1>3. CASE Present
  <2>1. [car EXCEPT !.relevance = "Active", !.date = date, !.is_checked = FALSE,
                    !.attempts = 0, !.recommended = TRUE, !.reasons = {}] \in Car
    BY <1>1, <1>3 DEF TypeOK, Present, Car
  <2>2. QED
    BY <1>2, <1>3, <2>1 DEF Entered
<1>4. CASE ~Present
  <2>1. NewRow("Active", date, {}) \in Car
    BY <1>1, NewRowType
  <2>2. [NewRow("Active", date, {}) EXCEPT !.recommended = FALSE] \in Car
    BY <2>1 DEF Car
  <2>3. QED
    BY <1>2, <1>4, <2>2 DEF Entered
<1>5. QED
  BY <1>3, <1>4

\* The steps of an administrator's call.
LEMMA UpsertInv ==
  ASSUME IngestionInv, NEW u \in Upserters, Upsert(u)
  PROVE  IngestionInv'
<1> DEFINE Calls == [pc : {"idle", "writing", "sending"},
                     loaded : Car \cup {NoCar}, manual : BOOLEAN,
                     new : Car \cup {NoCar}]
<1>0. /\ TypedLocks /\ PreparedRows /\ upsert[u] \in Calls /\ manual \in BOOLEAN
      /\ upsert \in [Upserters -> Calls] /\ IngestionTypeOK /\ TypeOK
      /\ NoUpsert \in Calls /\ NoUpsert.pc = "idle" /\ upserts \in 0..MaxUpserts
  BY DEF IngestionInv, IngestionTypeOK, TypedLocks, NoUpsert
<1>1. ASSUME NEW new \in Calls, upsert' = [upsert EXCEPT ![u] = new],
             new.pc = "writing" => new.new \in Car, TypedLocks',
             manual' \in BOOLEAN, upserts' \in 0..MaxUpserts,
             UNCHANGED <<import, importErrors>>
      PROVE  IngestionInv'
  <2>1. PreparedRows'
    BY <1>0, <1>1 DEF PreparedRows
  <2>2. upsert' \in [Upserters -> Calls]
    BY <1>0, <1>1
  <2>3. QED
    BY <1>0, <1>1, <2>1, <2>2 DEF IngestionInv, IngestionTypeOK, TypedLocks
<1>2. ASSUME UNCHANGED vars PROVE TypedLocks'
  BY <1>0, <1>2, TaskSent DEF vars
<1>3. CASE UpsertRead(u)
  <2>1. PICK date \in Dates, reasons \in SUBSET LotReasons :
          upsert' = [upsert EXCEPT ![u] =
            [pc |-> "writing", loaded |-> car, manual |-> Present /\ manual,
             new |-> Entered(date, reasons)]]
    BY <1>3 DEF UpsertRead
  <2> DEFINE flag == Present /\ manual
             call == [pc |-> "writing", loaded |-> car, manual |-> flag,
                      new |-> Entered(date, reasons)]
  <2>2. Entered(date, reasons) \in Car /\ flag \in BOOLEAN
    BY <1>0, EnteredType
  <2>3. call \in Calls /\ call.new \in Car
    <3> HIDE DEF flag
    <3>1. QED
      BY <1>0, <2>2 DEF TypeOK
  <2>4. upserts' \in 0..MaxUpserts
    BY <1>0, <1>3, IngestionBoundsAssumption DEF UpsertRead
  <2>5. UNCHANGED <<vars, manual, import, importErrors>>
        /\ upsert' = [upsert EXCEPT ![u] = call]
    BY <1>3, <2>1 DEF UpsertRead
  <2>6. QED
    <3> HIDE DEF call
    <3>1. QED
      BY <1>0, <1>1, <1>2, <2>3, <2>4, <2>5
<1>4. CASE UpsertWrite(u)
  <2> DEFINE new == [NoUpsert EXCEPT !.pc = "sending"]
  <2>1. upsert[u].new \in Car /\ RowFree
    BY <1>0, <1>4 DEF UpsertWrite, PreparedRows
  <2>2. car' \in Car
    <3>1. CASE Present
      <4>1. upsert[u].loaded \in Car /\ car \in Car
        BY <1>0, <1>4, <3>1 DEF UpsertWrite, TypeOK, Present
      <4>2. QED
        BY <1>4, <2>1, <3>1, <4>1, ChangedType DEF UpsertWrite
    <3>2. CASE ~Present
      BY <1>4, <2>1, <3>2 DEF UpsertWrite
    <3>3. QED
      BY <3>1, <3>2
  <2>3. TypedLocks'
    BY <1>0, <1>4, <2>1, <2>2, RowWritten DEF UpsertWrite
  <2>4. manual' \in BOOLEAN
    BY <1>4 DEF UpsertWrite
  <2>5. new \in Calls /\ new.pc = "sending"
    BY <1>0
  <2>6. upsert' = [upsert EXCEPT ![u] = new] /\ UNCHANGED <<import, importErrors, upserts>>
    BY <1>0, <1>4 DEF UpsertWrite
  <2>7. QED
    BY <1>0, <1>1, <2>3, <2>4, <2>5, <2>6
<1>5. CASE UpsertRefused(u)
  <2>1. UNCHANGED <<vars, manual, import, importErrors, upserts>>
        /\ upsert' = [upsert EXCEPT ![u] = NoUpsert]
    BY <1>5 DEF UpsertRefused
  <2>2. QED
    BY <1>0, <1>1, <1>2, <2>1
<1>6. CASE UpsertSend(u)
  <2>1. TypedLocks'
    BY <1>0, <1>6, TaskSent DEF UpsertSend
  <2>2. upsert' = [upsert EXCEPT ![u] = NoUpsert]
        /\ UNCHANGED <<manual, import, importErrors, upserts>>
    BY <1>6 DEF UpsertSend
  <2>3. QED
    BY <1>0, <1>1, <2>1, <2>2
<1>7. QED
  BY <1>3, <1>4, <1>5, <1>6 DEF Upsert

\* Every step keeps types, locks and prepared rows.
LEMMA NextIngestionInv ==
  IngestionInv /\ [IngestionNext]_ingestionVars => IngestionInv'
<1> SUFFICES ASSUME IngestionInv, [IngestionNext]_ingestionVars PROVE IngestionInv'
  OBVIOUS
<1>1. CASE [Next]_vars /\ UNCHANGED importVars
  <2>1. TypedLocks'
    BY <1>1, NextTypedLocks DEF IngestionInv, IngestionTypeOK, TypedLocks
  <2>2. QED
    BY <1>1, <2>1 DEF IngestionInv, IngestionTypeOK, TypedLocks, PreparedRows, importVars
<1>2. QED
  BY <1>1, ImportInv, UpsertInv DEF IngestionNext, ingestionVars

\* With imports and administrators at work, the row, the jobs and the calls stay
\* well typed, and only an owner writes under the lock.
THEOREM IngestionTypesAndLocks == IngestionSpec => [](IngestionTypeOK /\ LockInv)
<1>1. IngestionInv => IngestionTypeOK /\ LockInv
  BY DEF IngestionInv
<1>2. QED
  BY <1>1, InitIngestionInv, NextIngestionInv, PTL DEF IngestionSpec

\* However long ago an import has read the row, it leaves alone what parse tasks
\* and administrators have written to the columns it must not touch.
THEOREM EnrichmentIsKept == IngestionSpec => EnrichmentKept
<1> DEFINE Kept ==
      Present /\ Imported =>
        /\ car'.attempts = car.attempts /\ car'.is_checked = car.is_checked
        /\ car'.has_correct_vin = car.has_correct_vin
        /\ car'.priced = car.priced /\ histories' = histories
<1>1. ASSUME IngestionInv, Present, NEW m \in Importers, ImportUpsert(m) PROVE Kept
  <2>1. car \in Car /\ import[m].row \in Car
    BY <1>1 DEF IngestionInv, IngestionTypeOK, TypeOK, Present, ImportUpsert, PreparedRows
  <2>2. car' = Updated(import[m].row) /\ histories' = histories
    BY <1>1 DEF ImportUpsert
  <2>3. QED
    BY <2>1, <2>2, UpdatedKeeps
<1>2. IngestionInv => Kept
  BY <1>1 DEF Imported
<1>3. IngestionSpec => []IngestionInv
  BY InitIngestionInv, NextIngestionInv, PTL DEF IngestionSpec
<1>4. IngestionSpec => [][Kept]_ingestionVars
  BY <1>2, <1>3, PTL
<1>5. QED
  BY <1>4 DEF EnrichmentKept
=============================================================================
