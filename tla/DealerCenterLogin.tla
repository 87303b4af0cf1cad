-------------------------- MODULE DealerCenterLogin -------------------------
(***************************************************************************)
(* Scraping with a shared login (DealerCenterScraper, scrape_dc).  HTTP    *)
(* requests are coroutines of one event loop: what lies between two awaits *)
(* is one step here.  They share one pair of cookies and token, the lock   *)
(* of the one that logs in, and an event the others wait for.  The site    *)
(* may let tokens expire at any time; a login may fail, and the site       *)
(* limits the mails with the code a login needs.                           *)
(***************************************************************************)
EXTENDS Naturals, FiniteSets

CONSTANTS
  Requests,      \* concurrent calls of GET /scrape/dc
  OnlyHistory,   \* those with only_history = true
  NoOne,         \* nobody holds the login lock
  MaxAttempts,   \* max_attempts of scrape_dc
  MaxMfa,        \* max_attempts of _perform_login_with_mfa_retry
  MaxExpiries,   \* bound: times the site lets its tokens expire
  MaxCallErrors, \* bound: calls that fail for a reason of their own
  MaxLoginErrors \* bound: logins that fail, or are put off by the mail limit

ASSUME RequestsAssumption == OnlyHistory \subseteq Requests /\ NoOne \notin Requests
ASSUME AttemptsAssumption == MaxAttempts \in Nat \ {0} /\ MaxMfa \in Nat \ {0}
ASSUME LoginBoundsAssumption ==
  MaxExpiries \in Nat /\ MaxCallErrors \in Nat /\ MaxLoginErrors \in Nat

VARIABLES
  shared,    \* _shared_cookies, _shared_access_token (and Config.CREDENTIALS)
  ready,     \* _class_login_ready
  lock,      \* holder of _class_login_lock
  request,   \* each coroutine, with the credentials of its scraper instance
  issued,    \* tokens the site has issued: 1, 2, ...
  expired,   \* tokens up to this one are refused
  expiries, callErrors, loginErrors

loginVars == <<shared, ready, lock>>
siteVars == <<issued, expired, expiries>>
errors == <<callErrors, loginErrors>>
vars == <<loginVars, request, siteVars, errors>>

-----------------------------------------------------------------------------
\* A token is the number of the login that got it; 0 is None.
NoCreds == [cookies |-> FALSE, token |-> 0]

\* then: what follows when the login is there: the guarded call, after another
\* look ("ensure") or at once ("post"), or AuthRefreshedError ("fail").
NewRequest == [pc |-> "new", attempts |-> 0, own |-> NoCreds, sent |-> 0,
               then |-> "post", mfa |-> 0]

LoggingIn == {"login", "token", "closing"}
Waiting == {"waiting", "woken"}
Answered == {"answered", "failed"}

Creds == [cookies : BOOLEAN, token : 0 .. issued]

TypeOK ==
  /\ shared \in Creds
  /\ ready \in BOOLEAN
  /\ lock \in Requests \cup {NoOne}
  /\ issued \in Nat /\ expired \in 0 .. issued
  /\ expiries \in 0 .. MaxExpiries /\ callErrors \in 0 .. MaxCallErrors
  /\ loginErrors \in 0 .. MaxLoginErrors
  /\ request \in [Requests ->
       [pc : {"new", "history", "valuation", "market", "pause"} \cup LoggingIn
               \cup Waiting \cup Answered,
        attempts : 0 .. MaxAttempts, own : Creds, sent : 0 .. issued,
        then : {"ensure", "post", "fail"}, mfa : 0 .. MaxMfa]]
  /\ \A r \in Requests : request[r].pc \in LoggingIn <=> lock = r

Init ==
  /\ shared = NoCreds /\ ready = FALSE /\ lock = NoOne
  /\ request = [r \in Requests |-> NewRequest]
  /\ issued = 0 /\ expired = 0 /\ expiries = 0
  /\ callErrors = 0 /\ loginErrors = 0

-----------------------------------------------------------------------------
(* Helpers.                                                                 *)

\* _sync_from_shared: what is there replaces the instance's own.
Synced(own, s) == [cookies |-> s.cookies \/ own.cookies,
                   token |-> IF s.token # 0 THEN s.token ELSE own.token]

Complete(c) == c.cookies /\ c.token # 0

\* asyncio.Event.set(): everyone who waits goes on, whatever happens to the
\* event before their turn.
Woken(q) == [r \in Requests |->
               IF q[r].pc = "waiting" THEN [q[r] EXCEPT !.pc = "woken"] ELSE q[r]]

\* A POST of the given stage is sent with the headers of this moment.
Send(c, stage) == LET own == Synced(c.own, shared)
                  IN [c EXCEPT !.pc = stage, !.own = own, !.sent = own.token]

\* except Exception in scrape_dc: count, sleep and start over, or give up.
Failing(c) == [c EXCEPT !.attempts = @ + 1,
                        !.pc = IF c.attempts + 1 < MaxAttempts THEN "pause"
                               ELSE "failed"]

\* Mutant: no look at the lock.
LoginAlways(r, c) ==
  /\ ready' = FALSE
  /\ request' = [request EXCEPT ![r] = [c EXCEPT !.pc = "login", !.mfa = 0]]
  /\ lock' = r

\* _ensure_logged_in_singleflight for coroutine c of request r: wait for the
\* one who logs in, or log in.  Nobody ever queues for the lock: it is taken in
\* the step that finds it free.
LoginOrWait(r, c) ==
  /\ ready' = FALSE
  /\ IF lock # NoOne
       THEN /\ request' = [request EXCEPT ![r] = [c EXCEPT !.pc = "waiting"]]
            /\ UNCHANGED lock
       ELSE /\ request' = [request EXCEPT ![r] = [c EXCEPT !.pc = "login", !.mfa = 0]]
            /\ lock' = r

\* The same without force: at once if the event is set.
EnsureLoggedIn(r, c) ==
  IF ready THEN /\ request' = [request EXCEPT ![r] = Send(c, "history")]
                /\ UNCHANGED <<ready, lock>>
           ELSE LoginOrWait(r, [c EXCEPT !.own = Synced(c.own, shared)])

LoginError == /\ loginErrors < MaxLoginErrors /\ loginErrors' = loginErrors + 1
              /\ UNCHANGED <<callErrors, siteVars>>

-----------------------------------------------------------------------------
(* The request: scrape_dc and the two public methods of the scraper.        *)

\* Every attempt builds a new scraper, which loads the cached credentials.
Attempt(r) ==
  /\ request[r].pc \in {"new", "pause"}
  /\ EnsureLoggedIn(r, [request[r] EXCEPT
       !.own = shared, !.then = IF Complete(shared) THEN "post" ELSE "ensure"])
  /\ UNCHANGED <<shared, siteVars, errors>>

\* A coroutine that waited looks again only if it came from the outer check.
WakeUp(r) ==
  LET c == [request[r] EXCEPT !.own = Synced(@, shared), !.then = "post"]
  IN /\ request[r].pc = "woken"
     /\ \/ request[r].then = "ensure" /\ EnsureLoggedIn(r, c)
        \/ /\ request[r].then = "post"
           /\ request' = [request EXCEPT ![r] = Send(c, "history")]
           /\ UNCHANGED <<ready, lock>>
        \/ /\ request[r].then = "fail"
           /\ request' = [request EXCEPT ![r] = Failing(c)]
           /\ UNCHANGED <<ready, lock>>
     /\ UNCHANGED <<shared, siteVars, errors>>

NextStage(r, c) ==
  CASE c.pc = "history" -> IF r \in OnlyHistory THEN [c EXCEPT !.pc = "answered"]
                           ELSE Send(c, "valuation")
    [] c.pc = "valuation" -> Send(c, "market")
    [] c.pc = "market" -> [c EXCEPT !.pc = "answered"]

Served(r) ==
  /\ request[r].pc \in {"history", "valuation", "market"}
  /\ request[r].sent > expired
  /\ request' = [request EXCEPT ![r] = NextStage(r, @)]
  /\ UNCHANGED <<loginVars, siteVars, errors>>

\* _auth_post, 401 or 403: throw away what is cached - by now perhaps the
\* credentials of a later login - and log in, or wait for the one who does.
HistoryRefused(r) ==
  /\ request[r].pc = "history" /\ request[r].sent <= expired
  /\ shared' = NoCreds
  /\ LoginOrWait(r, [request[r] EXCEPT !.own = NoCreds, !.then = "fail"])
  /\ UNCHANGED <<siteVars, errors>>

\* The calls behind it have no guard: a 401 is an error like any other.
FurtherRefused(r) ==
  /\ request[r].pc \in {"valuation", "market"} /\ request[r].sent <= expired
  /\ request' = [request EXCEPT ![r] = Failing(@)]
  /\ UNCHANGED <<loginVars, siteVars, errors>>

CallFails(r) ==
  /\ request[r].pc \in {"history", "valuation", "market"}
  /\ callErrors < MaxCallErrors /\ callErrors' = callErrors + 1
  /\ request' = [request EXCEPT ![r] = Failing(@)]
  /\ UNCHANGED <<loginVars, siteVars, loginErrors>>

-----------------------------------------------------------------------------
(* The login, by the holder of the lock.                                    *)

\* The cookies are saved first, with the token the instance had before.
SaveCookies(r) ==
  /\ request[r].pc = "login"
  /\ shared' = [request[r].own EXCEPT !.cookies = TRUE]
  /\ request' = [request EXCEPT ![r].own.cookies = TRUE, ![r].pc = "token"]
  /\ UNCHANGED <<ready, lock, siteVars, errors>>

\* The event is set here for the first time, with the browser still open.
SaveToken(r) ==
  /\ request[r].pc = "token"
  /\ issued' = issued + 1
  /\ shared' = [request[r].own EXCEPT !.token = issued + 1]
  /\ request' = Woken([request EXCEPT ![r].own.token = issued + 1,
                                      ![r].pc = "closing"])
  /\ ready' = TRUE
  /\ UNCHANGED <<lock, expired, expiries, errors>>

\* Mutant: the event, set once the token was there, is not set again.
DoneQuietly(r) ==
  /\ request[r].pc = "closing"
  /\ lock' = NoOne
  /\ request' = [request EXCEPT ![r] =
       IF @.then = "fail" THEN Failing(@) ELSE Send(@, "history")]
  /\ UNCHANGED <<shared, ready, siteVars, errors>>

\* The browser is closed, the event set again, the lock released.
LoginDone(r) ==
  /\ request[r].pc = "closing"
  /\ ready' = TRUE /\ lock' = NoOne
  /\ request' = Woken([request EXCEPT ![r] =
       IF @.then = "fail" THEN Failing(@) ELSE Send(@, "history")])
  /\ UNCHANGED <<shared, siteVars, errors>>

\* The lock is released with the event cleared; nobody is woken.
LoginFails(r) ==
  /\ request[r].pc \in LoggingIn
  /\ LoginError
  /\ ready' = FALSE /\ lock' = NoOne
  /\ request' = [request EXCEPT ![r] = Failing(@)]
  /\ UNCHANGED shared

\* Too many mails: five minutes' sleep with the lock held, then from scratch.
MfaLimited(r) ==
  /\ request[r].pc = "login" /\ request[r].mfa + 1 < MaxMfa
  /\ LoginError
  /\ request' = [request EXCEPT ![r].mfa = @ + 1]
  /\ UNCHANGED loginVars

-----------------------------------------------------------------------------
(* External: the site ends every session it has open.                       *)
Expire ==
  /\ expiries < MaxExpiries /\ expired < issued
  /\ expired' = issued /\ expiries' = expiries + 1
  /\ UNCHANGED <<loginVars, request, issued, errors>>

Answering(r) == \/ Served(r) \/ HistoryRefused(r) \/ FurtherRefused(r)
                \/ CallFails(r)

Login(r) == \/ SaveCookies(r) \/ SaveToken(r) \/ LoginDone(r)
            \/ LoginFails(r) \/ MfaLimited(r)

Next == \/ \E r \in Requests : Attempt(r) \/ WakeUp(r) \/ Answering(r) \/ Login(r)
        \/ Expire

Spec == Init /\ [][Next]_vars

\* A coroutine goes on: sleeps end, calls and browser steps answer or time out.
\* That a request comes in is not assumed.
Fairness == \A r \in Requests :
  /\ WF_vars(request[r].pc = "pause" /\ Attempt(r))
  /\ WF_vars(WakeUp(r)) /\ WF_vars(Answering(r)) /\ WF_vars(Login(r))

FairSpec == Spec /\ Fairness

-----------------------------------------------------------------------------
(* Properties.                                                              *)

\* Single flight: as long as the site ends no session and no login fails, one
\* login serves all requests, however they meet (dc_scraper.py:349-385).
SingleFlight == expiries = 0 /\ loginErrors = 0 => issued <= 1

\* Nobody waits for good for a login others make or have made, whatever clears
\* and sets the event in between; a failed login is the one exception.
WaitersServed ==
  \A r \in Requests :
    request[r].pc # "new" ~> request[r].pc \in Answered \/ loginErrors > 0

\* Every request is answered, with data or with an error, after at most
\* max_attempts attempts (parcer.py:56-90).  Violated: when a login fails, the
\* event is not set, and those who wait for it never look again.
EveryScrapeAnswers ==
  \A r \in Requests : request[r].pc # "new" ~> request[r].pc \in Answered
=============================================================================
