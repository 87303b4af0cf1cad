----------------------- MODULE DealerCenterLoginProofs ----------------------
(***************************************************************************)
(* Proofs about DealerCenterLogin, for any number of requests and          *)
(* attempts: one login serves every request (SingleFlight).  As long as    *)
(* no session ends and no login fails, the system is in one of two phases. *)
(* Before the token is there, a request is new, waits, or is the one that  *)
(* logs in; from then on the event stays set, the shared token is the one  *)
(* issued, and every call has been sent with it - so that the site refuses *)
(* none and nothing clears the event again.                                *)
(***************************************************************************)
EXTENDS DealerCenterLogin, TLAPS

-----------------------------------------------------------------------------
(* The inductive invariant.                                                 *)

\* A coroutine when i tokens have been issued.
Coroutine(i) ==
  [pc : {"new", "history", "valuation", "market", "pause"} \cup LoggingIn
          \cup Waiting \cup Answered,
   attempts : 0 .. MaxAttempts, own : [cookies : BOOLEAN, token : 0 .. i], sent : 0 .. i,
   then : {"ensure", "post", "fail"}, mfa : 0 .. MaxMfa]

\* One that is not answered has an attempt left.
Trying(c) == c.pc \in Answered \/ c.attempts < MaxAttempts

\* The coroutines q with l as the holder of the lock.
Sound(q, l, i) ==
  /\ q \in [Requests -> Coroutine(i)]
  /\ \A r \in Requests : Trying(q[r]) /\ (q[r].pc \in LoggingIn <=> l = r)

\* The type invariant, with the attempts left.  Nothing is refused before a
\* session has ended.
Types ==
  /\ TypeOK /\ Sound(request, lock, issued)
  /\ expiries = 0 => expired = 0

\* No session has ended, no login has failed.
Quiet == expiries = 0 /\ loginErrors = 0

\* Nobody has the token yet.
BeforeToken ==
  /\ issued = 0 /\ ready = FALSE
  /\ \A r \in Requests : request[r].pc \in {"new", "waiting", "login", "token"}

InFlight == {"history", "valuation", "market"}

\* The token is there, and so is the event: nobody logs in or waits for it, and
\* what has been sent carries the token.
OnTime(c) == /\ c.pc \notin {"waiting", "login", "token"}
             /\ c.pc \in InFlight => c.sent = 1

AfterToken ==
  /\ issued = 1 /\ ready = TRUE /\ shared.token = 1
  /\ \A r \in Requests : OnTime(request[r])

FlightInv == Types /\ (Quiet => BeforeToken \/ AfterToken)

-----------------------------------------------------------------------------
(* Types: what the helpers do to a coroutine, and what replacing one of     *)
(* them leaves of the others.                                               *)

\* A coroutine is replaced, and takes, keeps or releases the lock.
LEMMA Replaced ==
  ASSUME NEW i \in Nat, NEW q, NEW l, NEW m, Sound(q, l, i), NEW r \in Requests,
         NEW d \in Coroutine(i), Trying(d), d.pc \in LoggingIn <=> m = r,
         m = l \/ (l \in {NoOne, r} /\ m \in {NoOne, r})
  PROVE  Sound([q EXCEPT ![r] = d], m, i)
BY RequestsAssumption DEF Sound

\* The event wakes up those who wait; none of them holds the lock.
LEMMA WokenSound ==
  ASSUME NEW i \in Nat, NEW q, NEW l, Sound(q, l, i)
  PROVE  Sound(Woken(q), l, i)
<1>1. ASSUME NEW r \in Requests
      PROVE  /\ Woken(q)[r] \in Coroutine(i) /\ Trying(Woken(q)[r])
             /\ Woken(q)[r].pc \in LoggingIn <=> l = r
  BY DEF Sound, Woken, Coroutine, Trying, LoggingIn, Waiting, Answered
<1>2. Woken(q) = [r \in Requests |-> Woken(q)[r]]
  BY DEF Woken
<1>3. QED
  BY <1>1, <1>2 DEF Sound

\* A token more.
LEMMA MoreTokens ==
  ASSUME NEW i \in Nat, NEW q, NEW l, Sound(q, l, i)
  PROVE  Sound(q, l, i + 1)
<1>1. Coroutine(i) \subseteq Coroutine(i + 1)
  BY DEF Coroutine
<1>2. QED
  BY <1>1 DEF Sound

\* Sending takes over what is shared.
LEMMA Sending ==
  ASSUME NEW i \in Nat, NEW c \in Coroutine(i), c.attempts < MaxAttempts,
         shared \in [cookies : BOOLEAN, token : 0 .. i], NEW stage \in InFlight
  PROVE  /\ Send(c, stage) \in Coroutine(i) /\ Trying(Send(c, stage))
         /\ Send(c, stage).pc = stage /\ Send(c, stage).pc \notin LoggingIn
         /\ shared.token # 0 => Send(c, stage).sent = shared.token
<1> DEFINE own == Synced(c.own, shared)
<1>1. own \in [cookies : BOOLEAN, token : 0 .. i]
  BY DEF Synced, Coroutine
<1>2. shared.token # 0 => own.token = shared.token
  BY DEF Synced
<1>3. Send(c, stage) = [c EXCEPT !.pc = stage, !.own = own, !.sent = own.token]
  BY DEF Send
<1>4. QED
  BY <1>1, <1>2, <1>3 DEF Coroutine, Trying, InFlight, LoggingIn

\* An error uses up an attempt.
LEMMA FailingTypes ==
  ASSUME NEW i \in Nat, NEW c \in Coroutine(i), c.attempts < MaxAttempts
  PROVE  /\ Failing(c) \in Coroutine(i) /\ Trying(Failing(c))
         /\ Failing(c).pc \in {"pause", "failed"} /\ Failing(c).pc \notin LoggingIn
<1> DEFINE n == c.attempts + 1
           p == IF n < MaxAttempts THEN "pause" ELSE "failed"
           d == [c EXCEPT !.attempts = n, !.pc = p]
<1>1. n \in 0 .. MaxAttempts /\ (p = "failed" \/ n < MaxAttempts) /\ p \in {"pause", "failed"}
  BY AttemptsAssumption DEF Coroutine
<1>2. Failing(c) = d
  BY DEF Failing, Coroutine
<1> HIDE DEF n, p
<1>3. d \in Coroutine(i) /\ d.pc = p /\ d.attempts = n
  BY <1>1 DEF Coroutine, Answered
<1> HIDE DEF d
<1>4. QED
  BY <1>1, <1>2, <1>3 DEF Trying, LoggingIn, Answered

\* Waiting or logging in.
LEMMA LoginOrWaitTypes ==
  ASSUME NEW i \in Nat, Sound(request, lock, i), NEW r \in Requests,
         request[r].pc \notin LoggingIn, lock \in Requests \cup {NoOne},
         NEW c \in Coroutine(i), c.attempts < MaxAttempts, LoginOrWait(r, c)
  PROVE  /\ Sound(request', lock', i) /\ ready' = FALSE
         /\ lock' \in Requests \cup {NoOne}
         /\ \A s \in Requests \ {r} : request'[s] = request[s]
         /\ request'[r].pc \in {"waiting", "login"}
<1> DEFINE w == [c EXCEPT !.pc = "waiting"]
           d == [c EXCEPT !.pc = "login", !.mfa = 0]
<1>1. lock # r
  BY DEF Sound
<1>2. /\ w \in Coroutine(i) /\ Trying(w) /\ w.pc = "waiting"
      /\ d \in Coroutine(i) /\ Trying(d) /\ d.pc = "login"
  <2>1. w \in Coroutine(i) /\ w.pc = "waiting" /\ w.attempts = c.attempts
    BY DEF Coroutine, Waiting
  <2>2. d \in Coroutine(i) /\ d.pc = "login" /\ d.attempts = c.attempts
    <3>1. 0 \in 0 .. MaxMfa
      BY AttemptsAssumption
    <3>2. QED
      BY <3>1, Zenon DEF Coroutine, LoggingIn
  <2> HIDE DEF w, d
  <2>3. QED
    BY <2>1, <2>2 DEF Trying
<1>3. CASE lock # NoOne
  <2>1. request' = [request EXCEPT ![r] = w] /\ lock' = lock /\ ready' = FALSE
    BY <1>3 DEF LoginOrWait
  <2>2. w.pc \in LoggingIn <=> lock = r
    BY <1>1, <1>2 DEF LoggingIn
  <2> HIDE DEF w, d
  <2>3. Sound(request', lock', i)
    BY <1>2, <2>1, <2>2, Replaced
  <2>4. QED
    BY <1>2, <2>1, <2>3 DEF Sound
<1>4. CASE lock = NoOne
  <2>1. request' = [request EXCEPT ![r] = d] /\ lock' = r /\ ready' = FALSE
    BY <1>4 DEF LoginOrWait
  <2>2. d.pc \in LoggingIn <=> lock' = r
    BY <2>1, <1>2 DEF LoggingIn
  <2> HIDE DEF w, d
  <2>3. Sound(request', lock', i)
    BY <1>2, <1>4, <2>1, <2>2, Replaced
  <2>4. QED
    BY <1>2, <2>1, <2>3 DEF Sound
<1>5. QED
  BY <1>3, <1>4

\* The same with a look at the event.
LEMMA EnsureTypes ==
  ASSUME NEW i \in Nat, Sound(request, lock, i), NEW r \in Requests,
         request[r].pc \notin LoggingIn, lock \in Requests \cup {NoOne},
         shared \in [cookies : BOOLEAN, token : 0 .. i], ready \in BOOLEAN,
         NEW c \in Coroutine(i), c.attempts < MaxAttempts, EnsureLoggedIn(r, c)
  PROVE  /\ Sound(request', lock', i) /\ ready' = ready
         /\ lock' \in Requests \cup {NoOne}
         /\ \A s \in Requests \ {r} : request'[s] = request[s]
         /\ ~ready => request'[r].pc \in {"waiting", "login"}
         /\ ready => /\ request'[r].pc = "history"
                     /\ shared.token # 0 => request'[r].sent = shared.token
<1>1. CASE ready
  <2> DEFINE d == Send(c, "history")
  <2>1. request' = [request EXCEPT ![r] = d] /\ lock' = lock /\ ready' = ready
    BY <1>1 DEF EnsureLoggedIn
  <2>2. /\ d \in Coroutine(i) /\ Trying(d) /\ d.pc = "history" /\ d.pc \notin LoggingIn
        /\ shared.token # 0 => d.sent = shared.token
    BY Sending DEF InFlight
  <2> HIDE DEF d
  <2>3. lock # r
    BY DEF Sound
  <2>4. Sound(request', lock', i)
    BY <2>1, <2>2, <2>3, Replaced
  <2>5. request'[r] = d /\ \A s \in Requests \ {r} : request'[s] = request[s]
    BY <2>1 DEF Sound
  <2>6. QED
    BY <1>1, <2>1, <2>2, <2>4, <2>5
<1>2. CASE ~ready
  <2> DEFINE d == [c EXCEPT !.own = Synced(c.own, shared)]
  <2>1. LoginOrWait(r, d)
    BY <1>2 DEF EnsureLoggedIn
  <2>2. Synced(c.own, shared) \in [cookies : BOOLEAN, token : 0 .. i]
    BY DEF Synced, Coroutine
  <2>3. d \in Coroutine(i) /\ d.attempts < MaxAttempts
    BY <2>2 DEF Coroutine
  <2> HIDE DEF d
  <2>4. QED
    BY <1>2, <2>1, <2>3, LoginOrWaitTypes
<1>3. QED
  BY <1>1, <1>2

-----------------------------------------------------------------------------
(* Types: the steps.                                                        *)

\* The request's own part of a step that leaves the site as it is.
LEMMA TypesOfStep ==
  ASSUME Types, NEW r \in Requests,
         Attempt(r) \/ WakeUp(r) \/ Answering(r) \/ Login(r)
  PROVE  /\ Sound(request', lock', issued') /\ lock' \in Requests \cup {NoOne}
         /\ issued' \in Nat /\ issued' \in {issued, issued + 1}
         /\ shared' \in [cookies : BOOLEAN, token : 0 .. issued'] /\ ready' \in BOOLEAN
<1> USE DEF Types, TypeOK, Creds, siteVars, errors, loginVars
<1>c. request[r] \in Coroutine(issued) /\ Trying(request[r])
  BY DEF Sound
<1>k. /\ NoCreds \in [cookies : BOOLEAN, token : 0 .. issued]
      /\ lock # r => request[r].pc \notin LoggingIn
  BY DEF NoCreds, Sound
<1>t. request[r].pc \notin Answered => request[r].attempts < MaxAttempts
  BY <1>c DEF Trying
<1>1. CASE Attempt(r)
  <2> DEFINE d == [request[r] EXCEPT
       !.own = shared, !.then = IF Complete(shared) THEN "post" ELSE "ensure"]
  <2>1. /\ EnsureLoggedIn(r, d) /\ request[r].pc \in {"new", "pause"}
        /\ UNCHANGED <<shared, siteVars, errors>>
    BY <1>1 DEF Attempt
  <2>2. request[r].pc \notin LoggingIn /\ request[r].pc \notin Answered
    BY <2>1 DEF LoggingIn, Answered
  <2>3. d \in Coroutine(issued) /\ d.attempts < MaxAttempts
    BY <1>c, <1>t, <2>2 DEF Coroutine
  <2> HIDE DEF d
  <2>4. QED
    BY <2>1, <2>2, <2>3, EnsureTypes
<1>2. CASE WakeUp(r)
  <2> DEFINE d == [request[r] EXCEPT !.own = Synced(@, shared), !.then = "post"]
  <2>1. /\ request[r].pc = "woken" /\ UNCHANGED <<shared, siteVars, errors>>
        /\ \/ EnsureLoggedIn(r, d)
           \/ /\ request' = [request EXCEPT ![r] = Send(d, "history")]
              /\ UNCHANGED <<ready, lock>>
           \/ /\ request' = [request EXCEPT ![r] = Failing(d)]
              /\ UNCHANGED <<ready, lock>>
    BY <1>2 DEF WakeUp
  <2>2. request[r].pc \notin LoggingIn /\ request[r].pc \notin Answered /\ lock # r
    BY <2>1 DEF LoggingIn, Answered, Sound
  <2>3. Synced(request[r].own, shared) \in [cookies : BOOLEAN, token : 0 .. issued]
    BY <1>c DEF Synced, Coroutine
  <2>4. d \in Coroutine(issued) /\ d.attempts < MaxAttempts
    BY <1>c, <1>t, <2>2, <2>3 DEF Coroutine
  <2> HIDE DEF d
  <2>5. CASE EnsureLoggedIn(r, d)
    BY <2>1, <2>2, <2>4, <2>5, EnsureTypes
  <2>6. CASE /\ request' = [request EXCEPT ![r] = Send(d, "history")]
             /\ UNCHANGED <<ready, lock>>
    <3>1. /\ Send(d, "history") \in Coroutine(issued) /\ Trying(Send(d, "history"))
          /\ Send(d, "history").pc \notin LoggingIn
      BY <2>4, Sending DEF InFlight
    <3>2. Sound(request', lock', issued)
      BY <2>2, <2>6, <3>1, Replaced
    <3>3. QED
      BY <2>1, <2>6, <3>2
  <2>7. CASE /\ request' = [request EXCEPT ![r] = Failing(d)]
             /\ UNCHANGED <<ready, lock>>
    <3>1. Sound(request', lock', issued)
      BY <2>2, <2>4, <2>7, FailingTypes, Replaced
    <3>2. QED
      BY <2>1, <2>7, <3>1
  <2>8. QED
    BY <2>1, <2>5, <2>6, <2>7
<1>3. CASE Served(r)
  <2> DEFINE d == NextStage(r, request[r])
             a == [request[r] EXCEPT !.pc = "answered"]
  <2>1. /\ request[r].pc \in InFlight /\ UNCHANGED <<loginVars, siteVars, errors>>
        /\ request' = [request EXCEPT ![r] = d]
    BY <1>3 DEF Served, InFlight
  <2>2. request[r].pc \notin LoggingIn /\ request[r].pc \notin Answered /\ lock # r
    BY <2>1 DEF InFlight, LoggingIn, Answered, Sound
  <2>3. a \in Coroutine(issued) /\ Trying(a) /\ a.pc \notin LoggingIn
    BY <1>c DEF Coroutine, Trying, LoggingIn, Answered
  <2>4. d \in {a, Send(request[r], "valuation"), Send(request[r], "market")}
    BY <2>1 DEF NextStage, InFlight
  <2> HIDE DEF d, a
  <2>5. /\ Send(request[r], "valuation") \in Coroutine(issued)
        /\ Trying(Send(request[r], "valuation"))
        /\ Send(request[r], "valuation").pc \notin LoggingIn
        /\ Send(request[r], "market") \in Coroutine(issued)
        /\ Trying(Send(request[r], "market"))
        /\ Send(request[r], "market").pc \notin LoggingIn
    BY <1>c, <1>t, <2>2, Sending DEF InFlight
  <2>6. d \in Coroutine(issued) /\ Trying(d) /\ d.pc \notin LoggingIn
    BY <2>3, <2>4, <2>5
  <2>7. Sound(request', lock', issued)
    BY <2>1, <2>2, <2>6, Replaced
  <2>8. QED
    BY <2>1, <2>7
<1>4. CASE HistoryRefused(r)
  <2> DEFINE d == [request[r] EXCEPT !.own = NoCreds, !.then = "fail"]
  <2>1. /\ LoginOrWait(r, d) /\ request[r].pc = "history" /\ shared' = NoCreds
        /\ UNCHANGED <<siteVars, errors>>
    BY <1>4 DEF HistoryRefused
  <2>2. request[r].pc \notin LoggingIn /\ request[r].pc \notin Answered
    BY <2>1 DEF LoggingIn, Answered
  <2>3. d \in Coroutine(issued) /\ d.attempts < MaxAttempts
    BY <1>c, <1>k, <1>t, <2>2 DEF Coroutine
  <2> HIDE DEF d
  <2>4. QED
    BY <1>k, <2>1, <2>2, <2>3, LoginOrWaitTypes
<1>5. CASE FurtherRefused(r) \/ CallFails(r)
  <2>1. /\ request[r].pc \in InFlight /\ UNCHANGED <<loginVars, siteVars>>
        /\ request' = [request EXCEPT ![r] = Failing(request[r])]
    BY <1>5 DEF FurtherRefused, CallFails, InFlight
  <2>2. request[r].pc \notin LoggingIn /\ request[r].pc \notin Answered /\ lock # r
    BY <2>1 DEF InFlight, LoggingIn, Answered, Sound
  <2>3. Sound(request', lock', issued)
    BY <1>c, <1>t, <2>1, <2>2, FailingTypes, Replaced
  <2>4. QED
    BY <2>1, <2>3
<1>6. CASE SaveCookies(r)
  <2> DEFINE o == [request[r].own EXCEPT !.cookies = TRUE]
             d == [request[r] EXCEPT !.own.cookies = TRUE, !.pc = "token"]
  <2>1. /\ request[r].pc = "login" /\ shared' = o
        /\ UNCHANGED <<ready, lock, siteVars, errors>>
        /\ request' = [request EXCEPT ![r].own.cookies = TRUE, ![r].pc = "token"]
    BY <1>6 DEF SaveCookies
  <2>2. lock = r /\ request[r].pc \notin Answered
    BY <2>1 DEF LoggingIn, Answered, Sound
  <2>3. /\ o \in [cookies : BOOLEAN, token : 0 .. issued]
        /\ d \in Coroutine(issued) /\ Trying(d) /\ d.pc \in LoggingIn
    BY <1>c, <1>t, <2>2 DEF Coroutine, Trying, LoggingIn
  <2>4. request' = [request EXCEPT ![r] = d]
    BY <2>1 DEF Sound
  <2> HIDE DEF d, o
  <2>5. Sound(request', lock', issued)
    BY <2>1, <2>2, <2>3, <2>4, Replaced
  <2>6. QED
    BY <2>1, <2>3, <2>5
<1>7. CASE SaveToken(r)
  <2> DEFINE o == [request[r].own EXCEPT !.token = issued + 1]
             d == [request[r] EXCEPT !.own.token = issued + 1, !.pc = "closing"]
             q == [request EXCEPT ![r].own.token = issued + 1, ![r].pc = "closing"]
  <2>1. /\ request[r].pc = "token" /\ shared' = o /\ issued' = issued + 1
        /\ ready' = TRUE /\ lock' = lock /\ request' = Woken(q)
    BY <1>7 DEF SaveToken
  <2>2. lock = r /\ request[r].pc \notin Answered
    BY <2>1 DEF LoggingIn, Answered, Sound
  <2>3. /\ o \in [cookies : BOOLEAN, token : 0 .. issued + 1]
        /\ d \in Coroutine(issued + 1) /\ Trying(d) /\ d.pc \in LoggingIn
    <3>1. request[r].own \in [cookies : BOOLEAN, token : 0 .. issued]
      BY <1>c DEF Coroutine
    <3>2. o \in [cookies : BOOLEAN, token : 0 .. issued + 1]
      BY <3>1
    <3>3. request[r] \in Coroutine(issued + 1)
      BY <1>c DEF Coroutine
    <3>4. d = [request[r] EXCEPT !.own = o, !.pc = "closing"]
      BY <1>c DEF Coroutine
    <3> HIDE DEF o, d
    <3>5. d \in Coroutine(issued + 1) /\ d.pc = "closing" /\ d.attempts = request[r].attempts
      BY <3>2, <3>3, <3>4 DEF Coroutine, LoggingIn
    <3>6. QED
      BY <1>t, <2>2, <3>2, <3>5 DEF Trying, LoggingIn
  <2>4. q = [request EXCEPT ![r] = d]
    BY DEF Sound
  <2> HIDE DEF d, o, q
  <2>5. Sound(request, lock, issued + 1) /\ issued + 1 \in Nat
    BY MoreTokens
  <2>6. Sound(q, lock, issued + 1)
    BY <2>2, <2>3, <2>4, <2>5, Replaced
  <2>7. Sound(request', lock', issued')
    BY <2>1, <2>5, <2>6, WokenSound
  <2>8. QED
    BY <2>1, <2>3, <2>5, <2>7
<1>8. CASE LoginDone(r)
  <2> DEFINE d == IF request[r].then = "fail" THEN Failing(request[r])
                  ELSE Send(request[r], "history")
             q == [request EXCEPT ![r] = d]
  <2>1. /\ request[r].pc = "closing" /\ ready' = TRUE /\ lock' = NoOne
        /\ request' = Woken(q) /\ UNCHANGED <<shared, siteVars, errors>>
    BY <1>8 DEF LoginDone
  <2>2. lock = r /\ request[r].pc \notin Answered
    BY <2>1 DEF LoggingIn, Answered, Sound
  <2>3. /\ Failing(request[r]) \in Coroutine(issued) /\ Trying(Failing(request[r]))
        /\ Failing(request[r]).pc \notin LoggingIn
    BY <1>c, <1>t, <2>2, FailingTypes
  <2>4. /\ Send(request[r], "history") \in Coroutine(issued)
        /\ Trying(Send(request[r], "history"))
        /\ Send(request[r], "history").pc \notin LoggingIn
    BY <1>c, <1>t, <2>2, Sending DEF InFlight
  <2>5. d \in Coroutine(issued) /\ Trying(d) /\ d.pc \notin LoggingIn
    BY <2>3, <2>4
  <2> HIDE DEF d
  <2>6. d.pc \in LoggingIn <=> NoOne = r
    BY <2>5, RequestsAssumption
  <2>7. Sound(q, NoOne, issued)
    BY <2>2, <2>5, <2>6, Replaced
  <2> HIDE DEF q
  <2>8. Sound(request', lock', issued)
    BY <2>1, <2>7, WokenSound
  <2>9. QED
    BY <2>1, <2>8
<1>9. CASE LoginFails(r)
  <2> DEFINE d == Failing(request[r])
  <2>1. /\ request[r].pc \in LoggingIn /\ ready' = FALSE /\ lock' = NoOne
        /\ request' = [request EXCEPT ![r] = d] /\ UNCHANGED <<shared, siteVars>>
    BY <1>9 DEF LoginFails, LoginError
  <2>2. lock = r /\ request[r].pc \notin Answered
    BY <2>1 DEF LoggingIn, Answered, Sound
  <2>3. d \in Coroutine(issued) /\ Trying(d) /\ d.pc \notin LoggingIn
    BY <1>c, <1>t, <2>2, FailingTypes
  <2> HIDE DEF d
  <2>4. d.pc \in LoggingIn <=> NoOne = r
    BY <2>3, RequestsAssumption
  <2>5. Sound(request', lock', issued)
    BY <2>1, <2>2, <2>3, <2>4, Replaced
  <2>6. QED
    BY <2>1, <2>5
<1>10. CASE MfaLimited(r)
  <2> DEFINE d == [request[r] EXCEPT !.mfa = @ + 1]
  <2>1. /\ request[r].pc = "login" /\ request[r].mfa + 1 < MaxMfa
        /\ request' = [request EXCEPT ![r].mfa = @ + 1]
        /\ UNCHANGED <<loginVars, siteVars>>
    BY <1>10 DEF MfaLimited, LoginError
  <2>2. lock = r /\ request[r].pc \notin Answered
    BY <2>1 DEF LoggingIn, Answered, Sound
  <2>3. d \in Coroutine(issued) /\ Trying(d) /\ d.pc \in LoggingIn
    BY <1>c, <1>t, <2>1, <2>2, AttemptsAssumption DEF Coroutine, Trying, LoggingIn
  <2>4. request' = [request EXCEPT ![r] = d]
    BY <2>1 DEF Sound
  <2> HIDE DEF d
  <2>5. d.pc \in LoggingIn <=> lock = r
    BY <2>2, <2>3
  <2>6. Sound([request EXCEPT ![r] = d], lock, issued)
    BY <2>3, <2>5, Replaced
  <2>7. QED
    BY <2>1, <2>4, <2>6
<1>11. QED
  BY <1>1, <1>2, <1>3, <1>4, <1>5, <1>6, <1>7, <1>8, <1>9, <1>10 DEF Answering, Login

\* The invariant holds initially.
LEMMA FlightInit == Init => FlightInv
<1> SUFFICES ASSUME Init PROVE FlightInv
  OBVIOUS
<1>1. NewRequest \in Coroutine(0) /\ Trying(NewRequest) /\ NewRequest.pc = "new"
  BY AttemptsAssumption DEF NewRequest, NoCreds, Coroutine, Trying, LoggingIn
<1>2. Sound(request, lock, issued)
  BY <1>1, RequestsAssumption DEF Init, Sound, LoggingIn
<1>3. Types
  <2>1. /\ request \in [Requests -> Coroutine(issued)]
        /\ \A r \in Requests : request[r].pc \in LoggingIn <=> lock = r
    BY <1>2 DEF Sound
  <2>2. shared \in Creds /\ ready \in BOOLEAN
    <3>1. 0 \in 0 .. issued
      BY DEF Init
    <3>2. QED
      BY <3>1, Zenon DEF Init, Creds, NoCreds
  <2>3. /\ lock \in Requests \cup {NoOne} /\ issued \in Nat /\ expired \in 0 .. issued
        /\ expiries \in 0 .. MaxExpiries /\ callErrors \in 0 .. MaxCallErrors
        /\ loginErrors \in 0 .. MaxLoginErrors
    BY LoginBoundsAssumption DEF Init
  <2>4. TypeOK
    BY <2>1, <2>2, <2>3 DEF TypeOK, Coroutine, Creds
  <2>5. QED
    BY <1>2, <2>4 DEF Types, Init
<1>4. BeforeToken
  BY <1>1 DEF Init, BeforeToken
<1>5. QED
  BY <1>3, <1>4 DEF FlightInv

\* Every step keeps the types.
LEMMA TypesStep == Types /\ [Next]_vars => Types'
<1> SUFFICES ASSUME Types, [Next]_vars PROVE Types'
  OBVIOUS
<1> USE DEF Types, TypeOK, Creds, siteVars, errors, loginVars
<1>1. ASSUME NEW r \in Requests, Attempt(r) \/ WakeUp(r) \/ Answering(r) \/ Login(r)
      PROVE  Types'
  <2>1. /\ Sound(request', lock', issued') /\ lock' \in Requests \cup {NoOne}
        /\ issued' \in Nat /\ issued' \in {issued, issued + 1}
        /\ shared' \in [cookies : BOOLEAN, token : 0 .. issued'] /\ ready' \in BOOLEAN
    BY <1>1, TypesOfStep
  <2>2. expired' = expired /\ expiries' = expiries
    BY <1>1 DEF Attempt, WakeUp, Answering, Served, HistoryRefused, FurtherRefused,
      CallFails, Login, SaveCookies, SaveToken, LoginDone, LoginFails, MfaLimited, LoginError
  <2>3. callErrors' \in 0 .. MaxCallErrors /\ loginErrors' \in 0 .. MaxLoginErrors
    BY <1>1, LoginBoundsAssumption
    DEF Attempt, WakeUp, Answering, Served, HistoryRefused, FurtherRefused,
      CallFails, Login, SaveCookies, SaveToken, LoginDone, LoginFails, MfaLimited, LoginError
  <2>4. expired' \in 0 .. issued'
    BY <2>1, <2>2
  <2>5. /\ request' \in [Requests -> Coroutine(issued')]
        /\ \A s \in Requests : request'[s].pc \in LoggingIn <=> lock' = s
    BY <2>1 DEF Sound
  <2>6. TypeOK'
    BY <2>1, <2>2, <2>3, <2>4, <2>5 DEF Coroutine
  <2>7. QED
    BY <2>1, <2>2, <2>6
<1>2. CASE Expire
  BY <1>2, LoginBoundsAssumption DEF Expire, Sound
<1>3. CASE UNCHANGED vars
  BY <1>3 DEF vars, Sound
<1>4. QED
  BY <1>1, <1>2, <1>3 DEF Next

-----------------------------------------------------------------------------
(* The phases.                                                              *)

\* Replacing one coroutine, and waking up the others, leaves those of the others
\* that are on time on time.
LEMMA OthersOnTime ==
  ASSUME NEW q, DOMAIN q = Requests, NEW r \in Requests, NEW d, OnTime(d),
         \A s \in Requests \ {r} : q[s].pc = "waiting" \/ OnTime(q[s]),
         \A s \in Requests : q[s] \in Coroutine(issued)
  PROVE  \A s \in Requests : OnTime(Woken([q EXCEPT ![r] = d])[s])
<1> SUFFICES ASSUME NEW s \in Requests
             PROVE  OnTime(Woken([q EXCEPT ![r] = d])[s])
  OBVIOUS
<1>1. CASE s = r
  BY <1>1 DEF Woken, OnTime
<1>2. CASE s # r /\ q[s].pc = "waiting"
  BY <1>2 DEF Woken, OnTime, Coroutine, InFlight
<1>3. CASE s # r /\ q[s].pc # "waiting"
  BY <1>3 DEF Woken, OnTime
<1>4. QED
  BY <1>1, <1>2, <1>3

\* Before the token is there: a step of a request.
LEMMA BeforeStep ==
  ASSUME Types, Quiet, BeforeToken, NEW r \in Requests,
         Attempt(r) \/ WakeUp(r) \/ Answering(r) \/ Login(r), Quiet'
  PROVE  BeforeToken' \/ AfterToken'
<1> USE DEF siteVars, errors, loginVars, InFlight
<1>c. /\ request \in [Requests -> Coroutine(issued)] /\ issued \in Nat
      /\ Sound(request, lock, issued) /\ lock \in Requests \cup {NoOne}
      /\ shared \in [cookies : BOOLEAN, token : 0 .. issued] /\ ready \in BOOLEAN
      /\ loginErrors \in Nat
  BY LoginBoundsAssumption DEF Types, TypeOK, Sound, Creds
<1>p. /\ issued = 0 /\ ready = FALSE
      /\ \A s \in Requests : request[s].pc \in {"new", "waiting", "login", "token"}
      /\ loginErrors = 0 /\ loginErrors' = 0
  BY DEF BeforeToken, Quiet
<1>1. CASE Attempt(r)
  <2> DEFINE d == [request[r] EXCEPT
       !.own = shared, !.then = IF Complete(shared) THEN "post" ELSE "ensure"]
  <2>1. /\ EnsureLoggedIn(r, d) /\ request[r].pc = "new"
        /\ UNCHANGED <<shared, siteVars, errors>>
    BY <1>1, <1>p DEF Attempt
  <2>2. request[r].pc \notin LoggingIn /\ request[r].attempts < MaxAttempts
    BY <1>c, <2>1 DEF LoggingIn, Answered, Sound, Trying
  <2>3. d \in Coroutine(issued) /\ d.attempts < MaxAttempts
    BY <1>c, <2>2 DEF Coroutine
  <2> HIDE DEF d
  <2>4. /\ ready' = ready /\ request'[r].pc \in {"waiting", "login"}
        /\ \A s \in Requests \ {r} : request'[s] = request[s]
    BY <1>c, <1>p, <2>1, <2>2, <2>3, EnsureTypes
  <2>5. QED
    BY <1>p, <2>1, <2>4 DEF BeforeToken
<1>2. CASE SaveCookies(r)
  <2>1. /\ request' = [request EXCEPT ![r].own.cookies = TRUE, ![r].pc = "token"]
        /\ UNCHANGED <<ready, lock, siteVars, errors>>
    BY <1>2 DEF SaveCookies
  <2>2. \A s \in Requests : request'[s].pc \in {"new", "waiting", "login", "token"}
    BY <1>c, <1>p, <2>1 DEF Coroutine
  <2>3. QED
    BY <1>p, <2>1, <2>2 DEF BeforeToken
<1>3. CASE SaveToken(r)
  <2> DEFINE d == [request[r] EXCEPT !.own.token = issued + 1, !.pc = "closing"]
             q == [request EXCEPT ![r].own.token = issued + 1, ![r].pc = "closing"]
  <2>1. /\ request[r].pc = "token" /\ shared' = [request[r].own EXCEPT !.token = issued + 1]
        /\ issued' = issued + 1 /\ ready' = TRUE /\ request' = Woken(q)
    BY <1>3 DEF SaveToken
  <2>2. /\ q = [request EXCEPT ![r] = d] /\ DOMAIN request = Requests
        /\ \A s \in Requests : request[s] \in Coroutine(issued)
    BY <1>c
  <2>3. OnTime(d) /\ shared'.token = 1
    BY <1>c, <1>p, <2>1 DEF OnTime, Coroutine
  <2>4. \A s \in Requests \ {r} : request[s].pc = "waiting" \/ OnTime(request[s])
    <3> SUFFICES ASSUME NEW s \in Requests \ {r}
                 PROVE  request[s].pc \in {"new", "waiting"}
      BY DEF OnTime
    <3>1. request[s].pc \notin LoggingIn
      BY <1>c, <2>1 DEF Sound, LoggingIn
    <3>2. QED
      BY <1>p, <3>1 DEF LoggingIn
  <2> HIDE DEF q, d
  <2>5. \A s \in Requests : OnTime(Woken([request EXCEPT ![r] = d])[s])
    BY <2>2, <2>3, <2>4, OthersOnTime
  <2>6. \A s \in Requests : OnTime(request'[s])
    BY <2>1, <2>2, <2>5
  <2>7. issued' = 1 /\ ready' = TRUE /\ shared'.token = 1
    BY <1>p, <2>1, <2>3
  <2>8. QED
    BY <2>6, <2>7 DEF AfterToken, OnTime
<1>4. CASE LoginFails(r) \/ MfaLimited(r)
  <2>1. loginErrors' = loginErrors + 1
    BY <1>4 DEF LoginFails, MfaLimited, LoginError
  <2>2. QED
    BY <1>p, <2>1
<1>5. ~WakeUp(r) /\ ~Served(r) /\ ~HistoryRefused(r) /\ ~FurtherRefused(r)
      /\ ~CallFails(r) /\ ~LoginDone(r)
  BY <1>p DEF WakeUp, Served, HistoryRefused, FurtherRefused, CallFails, LoginDone
<1>6. QED
  BY <1>1, <1>2, <1>3, <1>4, <1>5 DEF Answering, Login

\* With the token there: a step of a request.
LEMMA AfterStep ==
  ASSUME Types, Quiet, AfterToken, NEW r \in Requests,
         Attempt(r) \/ WakeUp(r) \/ Answering(r) \/ Login(r), Quiet'
  PROVE  AfterToken'
<1> USE DEF siteVars, errors, loginVars
<1>c. /\ request \in [Requests -> Coroutine(issued)] /\ issued \in Nat
      /\ Sound(request, lock, issued) /\ lock \in Requests \cup {NoOne}
      /\ shared \in [cookies : BOOLEAN, token : 0 .. issued] /\ ready \in BOOLEAN
      /\ loginErrors \in Nat
  BY LoginBoundsAssumption DEF Types, TypeOK, Sound, Creds
<1>p. /\ issued = 1 /\ ready = TRUE /\ shared.token = 1 /\ expired = 0
      /\ \A s \in Requests : OnTime(request[s])
      /\ loginErrors = 0 /\ loginErrors' = 0
  BY DEF AfterToken, Quiet, Types
<1>q. ready /\ shared.token # 0
  <2>1. ready
    BY <1>p, Zenon
  <2>2. shared.token # 0
    BY <1>p
  <2>3. QED
    BY <2>1, <2>2
<1>t. request[r].pc \notin Answered => request[r].attempts < MaxAttempts
  BY <1>c DEF Sound, Trying
\* What a step puts in the place of r's coroutine is on time.
<1>s. ASSUME NEW c \in Coroutine(issued), c.attempts < MaxAttempts
      PROVE  /\ \A stage \in InFlight : OnTime(Send(c, stage))
             /\ OnTime(Failing(c))
  BY <1>c, <1>p, <1>s, Sending, FailingTypes DEF OnTime, InFlight
<1>r. ASSUME issued' = issued, ready' = ready, shared' = shared,
             OnTime(request'[r]), \A s \in Requests \ {r} : request'[s] = request[s]
      PROVE  AfterToken'
  <2>1. \A s \in Requests : OnTime(request'[s])
    BY <1>p, <1>r
  <2>2. QED
    BY <1>p, <1>r, <2>1 DEF AfterToken, OnTime
<1>1. CASE Attempt(r)
  <2> DEFINE d == [request[r] EXCEPT
       !.own = shared, !.then = IF Complete(shared) THEN "post" ELSE "ensure"]
  <2>1. /\ EnsureLoggedIn(r, d) /\ request[r].pc \in {"new", "pause"}
        /\ UNCHANGED <<shared, siteVars, errors>>
    BY <1>1 DEF Attempt
  <2>2. request[r].pc \notin LoggingIn /\ request[r].pc \notin Answered
    BY <2>1 DEF LoggingIn, Answered
  <2>3. d \in Coroutine(issued) /\ d.attempts < MaxAttempts
    <3>1. request[r] \in Coroutine(issued) /\ shared \in [cookies : BOOLEAN, token : 0 .. issued]
      BY <1>c
    <3>2. d.attempts = request[r].attempts
      OBVIOUS
    <3>3. d \in Coroutine(issued)
      BY <3>1 DEF Coroutine
    <3>4. QED
      BY <1>t, <2>2, <3>2, <3>3
  <2> HIDE DEF d
  <2>4. /\ ready' = ready /\ request'[r].pc = "history" /\ request'[r].sent = 1
        /\ \A s \in Requests \ {r} : request'[s] = request[s]
    <3>1. /\ ready' = ready
          /\ \A s \in Requests \ {r} : request'[s] = request[s]
          /\ ready => /\ request'[r].pc = "history"
                      /\ shared.token # 0 => request'[r].sent = shared.token
      BY <1>c, <2>1, <2>2, <2>3, EnsureTypes
    <3>2. request'[r].pc = "history" /\ request'[r].sent = shared.token
      BY <1>q, <3>1, Zenon
    <3>3. QED
      BY <1>p, <3>1, <3>2
  <2>5. QED
    BY <1>r, <2>1, <2>4 DEF OnTime, InFlight
<1>2. CASE WakeUp(r)
  <2> DEFINE d == [request[r] EXCEPT !.own = Synced(@, shared), !.then = "post"]
  <2>1. /\ request[r].pc = "woken" /\ UNCHANGED <<shared, siteVars, errors>>
        /\ \/ EnsureLoggedIn(r, d)
           \/ /\ request' = [request EXCEPT ![r] = Send(d, "history")]
              /\ UNCHANGED <<ready, lock>>
           \/ /\ request' = [request EXCEPT ![r] = Failing(d)]
              /\ UNCHANGED <<ready, lock>>
    BY <1>2 DEF WakeUp
  <2>2. request[r].pc \notin LoggingIn /\ request[r].pc \notin Answered
    BY <2>1 DEF LoggingIn, Answered
  <2>3. Synced(request[r].own, shared) \in [cookies : BOOLEAN, token : 0 .. issued]
    BY <1>c DEF Synced, Coroutine
  <2>4. d \in Coroutine(issued) /\ d.attempts < MaxAttempts
    BY <1>c, <1>t, <2>2, <2>3 DEF Coroutine
  <2> HIDE DEF d
  <2>5. CASE EnsureLoggedIn(r, d)
    <3>1. /\ ready' = ready /\ request'[r].pc = "history" /\ request'[r].sent = 1
          /\ \A s \in Requests \ {r} : request'[s] = request[s]
      <4>1. /\ ready' = ready
            /\ \A s \in Requests \ {r} : request'[s] = request[s]
            /\ ready => /\ request'[r].pc = "history"
                        /\ shared.token # 0 => request'[r].sent = shared.token
        BY <1>c, <2>2, <2>4, <2>5, EnsureTypes
      <4>2. request'[r].pc = "history" /\ request'[r].sent = shared.token
        BY <1>q, <4>1, Zenon
      <4>3. QED
        BY <1>p, <4>1, <4>2
    <3>2. QED
      BY <1>r, <2>1, <3>1 DEF OnTime, InFlight
  <2>6. CASE /\ request' \in {[request EXCEPT ![r] = Send(d, "history")],
                              [request EXCEPT ![r] = Failing(d)]}
             /\ UNCHANGED <<ready, lock>>
    <3>1. OnTime(request'[r]) /\ \A s \in Requests \ {r} : request'[s] = request[s]
      BY <1>c, <1>s, <2>4, <2>6 DEF InFlight
    <3>2. QED
      BY <1>r, <2>1, <2>6, <3>1
  <2>7. QED
    BY <2>1, <2>5, <2>6
<1>3. CASE Served(r)
  <2> DEFINE d == NextStage(r, request[r])
             a == [request[r] EXCEPT !.pc = "answered"]
  <2>1. /\ request[r].pc \in InFlight /\ UNCHANGED <<loginVars, siteVars, errors>>
        /\ request' = [request EXCEPT ![r] = d]
    BY <1>3 DEF Served, InFlight
  <2>2. request[r].pc \notin Answered
    BY <2>1 DEF InFlight, Answered
  <2>3. OnTime(a)
    BY <1>c DEF Coroutine, OnTime, InFlight
  <2>4. d \in {a, Send(request[r], "valuation"), Send(request[r], "market")}
    BY <2>1 DEF NextStage, InFlight
  <2> HIDE DEF d, a
  <2>5. OnTime(d)
    BY <1>c, <1>s, <1>t, <2>2, <2>3, <2>4 DEF InFlight
  <2>6. OnTime(request'[r]) /\ \A s \in Requests \ {r} : request'[s] = request[s]
    BY <1>c, <2>1, <2>5
  <2>7. QED
    BY <1>r, <2>1, <2>6
<1>4. CASE CallFails(r)
  <2>1. /\ request[r].pc \in InFlight /\ UNCHANGED <<loginVars, siteVars>>
        /\ request' = [request EXCEPT ![r] = Failing(request[r])]
    BY <1>4 DEF CallFails, InFlight
  <2>2. OnTime(request'[r]) /\ \A s \in Requests \ {r} : request'[s] = request[s]
    BY <1>c, <1>s, <1>t, <2>1 DEF InFlight, Answered
  <2>3. QED
    BY <1>r, <2>1, <2>2
<1>5. CASE LoginDone(r)
  <2> DEFINE d == IF request[r].then = "fail" THEN Failing(request[r])
                  ELSE Send(request[r], "history")
  <2>1. /\ request[r].pc = "closing" /\ ready' = TRUE
        /\ request' = Woken([request EXCEPT ![r] = d]) /\ UNCHANGED <<shared, siteVars>>
    BY <1>5 DEF LoginDone
  <2>2. OnTime(d)
    BY <1>c, <1>s, <1>t, <2>1 DEF InFlight, Answered
  <2> HIDE DEF d
  <2>3. \A s \in Requests : OnTime(request'[s])
    BY <1>c, <1>p, <2>1, <2>2, OthersOnTime
  <2>4. QED
    BY <1>p, <2>1, <2>3 DEF AfterToken, OnTime
<1>6. CASE LoginFails(r) \/ MfaLimited(r)
  <2>1. loginErrors' = loginErrors + 1
    BY <1>6 DEF LoginFails, MfaLimited, LoginError
  <2>2. QED
    BY <1>p, <2>1
<1>7. ~HistoryRefused(r) /\ ~FurtherRefused(r) /\ ~SaveCookies(r) /\ ~SaveToken(r)
  <2>1. /\ request[r].pc \notin {"login", "token"}
        /\ request[r].pc \in InFlight => ~(request[r].sent <= expired)
    BY <1>p DEF OnTime
  <2>2. QED
    BY <2>1 DEF InFlight, HistoryRefused, FurtherRefused, SaveCookies, SaveToken
<1>8. QED
  BY <1>1, <1>2, <1>3, <1>4, <1>5, <1>6, <1>7 DEF Answering, Login

\* Every step keeps the invariant: what has expired or failed stays so.
LEMMA FlightStep == FlightInv /\ [Next]_vars => FlightInv'
<1> SUFFICES ASSUME FlightInv, [Next]_vars PROVE FlightInv'
  OBVIOUS
<1>1. Types /\ Types'
  BY TypesStep DEF FlightInv
<1> SUFFICES ASSUME Quiet' PROVE BeforeToken' \/ AfterToken'
  BY <1>1 DEF FlightInv
<1>2. Quiet
  <2>1. expiries \in Nat /\ loginErrors \in Nat
    BY <1>1, LoginBoundsAssumption DEF Types, TypeOK
  <2>2. expiries' \in {expiries, expiries + 1} /\ loginErrors' \in {loginErrors, loginErrors + 1}
    BY DEF Next, vars, siteVars, errors, loginVars, Attempt, WakeUp, Answering, Served,
      HistoryRefused, FurtherRefused, CallFails, Login, SaveCookies, SaveToken, LoginDone,
      LoginFails, MfaLimited, LoginError, Expire
  <2>3. QED
    BY <2>1, <2>2 DEF Quiet
<1>3. BeforeToken \/ AfterToken
  BY <1>2 DEF FlightInv
<1>4. CASE \E r \in Requests : Attempt(r) \/ WakeUp(r) \/ Answering(r) \/ Login(r)
  BY <1>1, <1>2, <1>3, <1>4, BeforeStep, AfterStep
<1>5. CASE Expire
  <2>1. expiries \in Nat
    BY <1>1, LoginBoundsAssumption DEF Types, TypeOK
  <2>2. QED
    BY <1>5, <1>2, <2>1 DEF Expire, Quiet
<1>6. CASE UNCHANGED vars
  BY <1>3, <1>6 DEF vars, loginVars, siteVars, BeforeToken, AfterToken, OnTime
<1>7. QED
  BY <1>4, <1>5, <1>6 DEF Next

-----------------------------------------------------------------------------
(* The theorems.                                                            *)

\* Types, and mutual exclusion of the logins: a coroutine is in the browser exactly
\* while it holds _class_login_lock (dc_scraper.py:349-385).
THEOREM TypeCorrect == Spec => []TypeOK
<1>1. Init => Types
  BY FlightInit DEF FlightInv
<1>2. Types => TypeOK
  BY DEF Types
<1>3. QED
  BY <1>1, <1>2, TypesStep, PTL DEF Spec

\* However many requests come in, in whatever order they look at the event, take the
\* lock and are woken up: one login serves them all until the site ends a session or
\* a login fails.
THEOREM OneLoginServes == Spec => []SingleFlight
<1>1. FlightInv => SingleFlight
  BY DEF FlightInv, Quiet, BeforeToken, AfterToken, SingleFlight
<1>2. QED
  BY <1>1, FlightInit, FlightStep, PTL DEF Spec
=============================================================================
