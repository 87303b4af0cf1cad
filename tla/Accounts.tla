------------------------------ MODULE Accounts ------------------------------
(***************************************************************************)
(* The accounts: the administrators made at start-up, the invitations they *)
(* hand out, registration, the roles, and the sessions, which are nothing  *)
(* but two signed tokens in the cookies of a browser.  A call loads what   *)
(* it checks with its first queries and commits or answers later; nothing  *)
(* is locked, and no token can be called back.                             *)
(***************************************************************************)
EXTENDS Integers, Sequences, FiniteSets

CONSTANTS
  Calls,        \* HTTP calls in progress at the same time
  Browsers,
  Addresses,    \* e-mail addresses, in small letters
  Roles,        \* UserRoleEnum, without "admin"
  Passwords,
  FirstAdmins,  \* ADMIN_USERNAME and ADMIN_ONE_USERNAME
  MaxUsers,     \* bound: rows of users
  MaxCalls,     \* bound: calls in all
  Horizon,      \* bound: units of time that pass
  AccessLife,   \* ACCESS_KEY_TIMEDELTA_MINUTES
  RefreshLife,  \* REFRESH_KEY_TIMEDELTA_MINUTES
  DefaultLife   \* USER_INTERACTION_KEY_TIMEDELTA_DAYS

ASSUME AccountsAssumption ==
  /\ FirstAdmins \in Addresses \X Addresses /\ FirstAdmins[1] # FirstAdmins[2]
  /\ "admin" \notin Roles /\ Passwords # {}
  /\ {MaxUsers, MaxCalls, Horizon} \subseteq Nat /\ MaxUsers >= 2
  /\ {AccessLife, RefreshLife, DefaultLife} \subseteq Nat

VARIABLES
  users,       \* rows of users, by id
  invitations, \* invitations handed out: address, role and end
  jar,         \* the two cookies of each browser
  call,        \* what each call is about to do
  now, calls,
  grants,      \* what administrators have granted: <<address, role>>
  selfDemoted, \* an administrator gave up the role
  overlapped,  \* two calls of assign_role were in progress at the same time
  session,     \* of each browser: "in" or "out", by its last answered login or logout
  raced        \* browsers with two calls on their session at the same time

rows == <<users, invitations>>
cookies == <<jar, session, raced>>
bounds == <<now, calls>>
ghosts == <<grants, selfDemoted, overlapped>>
vars == <<rows, cookies, call, bounds, ghosts>>

AllRoles == Roles \cup {"admin"}
Ids == DOMAIN users

\* An address as somebody typed it.
Typed == [address : Addresses, mixed : BOOLEAN]
Lower(e) == [e EXCEPT !.mixed = FALSE]
Small(a) == [address |-> a, mixed |-> FALSE]

\* @validates("email") of the model.
Normalised(e) == Lower(e)

NoToken == [user |-> 0, exp |-> 0]
Token(u, life) == [user |-> u, exp |-> now + life]
Valid(token) == token # NoToken /\ token.exp >= now
EmptyJar == [access |-> NoToken, refresh |-> NoToken]
Pair(u) == [access |-> Token(u, AccessLife), refresh |-> Token(u, RefreshLife)]

Idle == [pc |-> "idle"]

TypeOK ==
  /\ users \in Seq([email : Typed, role : AllRoles, password : Passwords])
  /\ Len(users) <= MaxUsers
  /\ \A i \in invitations : /\ i.email \in Typed /\ i.role \in AllRoles
                            /\ i.exp \in 0 .. Horizon + DefaultLife + 1
  /\ \A b \in Browsers : jar[b].access.user = jar[b].refresh.user
  /\ \A b \in Browsers : jar[b].access.user \in Ids \cup {0}
  /\ \A c \in Calls : call[c].pc \in {"idle", "invite", "register", "assign",
       "password", "login", "refresh", "logout"}
  /\ now \in 0 .. Horizon /\ calls \in 0 .. MaxCalls

-----------------------------------------------------------------------------
(* create_roles.  ADMIN_PASSWORD is some password, which one does not matter. *)

Administrator(a, p) == [email |-> Normalised(Small(a)), role |-> "admin", password |-> p]

Init ==
  /\ users = LET p == CHOOSE some \in Passwords : TRUE
             IN <<Administrator(FirstAdmins[1], p), Administrator(FirstAdmins[2], p)>>
  /\ invitations = {}
  /\ jar = [b \in Browsers |-> EmptyJar]
  /\ call = [c \in Calls |-> Idle]
  /\ now = 0 /\ calls = 0
  /\ grants = {<<FirstAdmins[1], "admin">>, <<FirstAdmins[2], "admin">>}
  /\ selfDemoted = FALSE /\ overlapped = FALSE
  /\ session = [b \in Browsers |-> "out"] /\ raced = {}

\* Calls in progress die; the first administrator is there whatever its role has
\* become, so nothing is created.
Restart ==
  /\ \E u \in Ids : users[u].email = Small(FirstAdmins[1])
  /\ call' = [c \in Calls |-> Idle]
  /\ UNCHANGED <<rows, cookies, now, calls, ghosts>>

-----------------------------------------------------------------------------
Enter(c, new) ==
  /\ call[c] = Idle /\ calls < MaxCalls
  /\ calls' = calls + 1
  /\ call' = [call EXCEPT ![c] = new]

Done(c) == call' = [call EXCEPT ![c] = Idle]

\* get_current_user: the row of the user the access token names, as it is now.
CurrentUser(b) == jar[b].access.user
Authenticated(b) == Valid(jar[b].access)

IsAdmin(u) == users[u].role = "admin"

\* Mutant: nobody asks for the role.
AnyRole(u) == u \in Ids

\* check_admin_privileges.
MayAdminister(u) == IsAdmin(u)

\* get_user_by_email compares the address as it was typed.
Found(e) == {u \in Ids : users[u].email = e}

\* timedelta(0) is false, so an invitation for no days gets the default.
InvitationLife(days) == IF days = 0 THEN DefaultLife ELSE days

-----------------------------------------------------------------------------
(* Invitations and registration.                                            *)

InviteUser(c) == \E b \in Browsers, e \in Typed, r \in AllRoles, days \in 0 .. 1 :
  /\ Authenticated(b) /\ MayAdminister(CurrentUser(b))
  /\ Found(e) = {}
  /\ Enter(c, [pc |-> "invite", email |-> e, role |-> r, life |-> InvitationLife(days)])
  /\ grants' = IF IsAdmin(CurrentUser(b)) THEN grants \cup {<<e.address, r>>} ELSE grants
  /\ UNCHANGED <<rows, cookies, now, selfDemoted, overlapped>>

GenerateInviteLink(c) ==
  /\ call[c].pc = "invite"
  /\ invitations' = invitations \cup {[email |-> call[c].email, role |-> call[c].role,
                                       exp |-> now + call[c].life]}
  /\ Done(c)
  /\ UNCHANGED <<users, cookies, bounds, ghosts>>

\* verify_invite; a call that gives an address other than that of the code, letter
\* by letter, is refused as well.
VerifyInvite(i) == i.exp >= now

RegisterUser(c) == \E i \in invitations, p \in Passwords :
  /\ VerifyInvite(i)
  /\ Found(i.email) = {}
  /\ Enter(c, [pc |-> "register", email |-> i.email, role |-> i.role, password |-> p])
  /\ UNCHANGED <<rows, cookies, now, ghosts>>

\* Mutant: the column is not unique; that nobody has the address is only checked before.
NotUnique(e) == FALSE

\* The unique index of users.email; refused, the call answers 500.
Taken(e) == \E u \in Ids : users[u].email = Normalised(e)

CreateUser(c) ==
  LET k == call[c]
  IN /\ k.pc = "register" /\ ~Taken(k.email) /\ Len(users) < MaxUsers
     /\ users' = Append(users, [email |-> Normalised(k.email), role |-> k.role,
                                password |-> k.password])
     /\ Done(c)
     /\ UNCHANGED <<invitations, cookies, bounds, ghosts>>

CreateRefused(c) ==
  /\ call[c].pc = "register" /\ Taken(call[c].email)
  /\ Done(c)
  /\ UNCHANGED <<rows, cookies, bounds, ghosts>>

-----------------------------------------------------------------------------
(* Roles and passwords.                                                     *)

AssignRole(c) == \E b \in Browsers, e \in Typed, r \in AllRoles : \E u \in Found(e) :
  LET me == CurrentUser(b)
  IN /\ Authenticated(b) /\ MayAdminister(me)
     /\ Enter(c, [pc |-> "assign", user |-> u, loaded |-> users[u].role, role |-> r])
     /\ grants' = IF IsAdmin(me) THEN grants \cup {<<e.address, r>>} ELSE grants
     /\ selfDemoted' = (selfDemoted \/ (u = me /\ r # "admin"))
     /\ overlapped' = (overlapped \/ \E d \in Calls : call[d].pc = "assign")
     /\ UNCHANGED <<rows, cookies, now>>

\* The UPDATE names the column only when the role differs from the one loaded.
UpdateUserRole(c) ==
  LET k == call[c]
  IN /\ k.pc = "assign"
     /\ users' = IF k.role = k.loaded THEN users
                 ELSE [users EXCEPT ![k.user].role = k.role]
     /\ Done(c)
     /\ UNCHANGED <<invitations, cookies, bounds, ghosts>>

\* validate_and_change_password; strength and repetition are left out.
Acceptable(u, old, new) == old = users[u].password /\ new # old

\* The row is the one get_current_user has loaded: the old password is checked
\* against the hash the call began with.
ChangePassword(c) == \E b \in Browsers, old, new \in Passwords :
  /\ Authenticated(b)
  /\ Acceptable(CurrentUser(b), old, new)
  /\ Enter(c, [pc |-> "password", user |-> CurrentUser(b), password |-> new])
  /\ UNCHANGED <<rows, cookies, now, ghosts>>

UpdateUserPassword(c) ==
  /\ call[c].pc = "password"
  /\ users' = [users EXCEPT ![call[c].user].password = call[c].password]
  /\ Done(c)
  /\ UNCHANGED <<invitations, cookies, bounds, ghosts>>

-----------------------------------------------------------------------------
(* Sessions: what a call reads, and later the answer that sets the cookies. *)

Concerns(k, b) == k.pc \in {"login", "refresh", "logout"} /\ k.browser = b

EnterSession(c, b, new) ==
  /\ Enter(c, new)
  /\ raced' = IF \E d \in Calls : Concerns(call[d], b) THEN raced \cup {b} ELSE raced
  /\ UNCHANGED <<rows, jar, session, now, ghosts>>

\* The schema lowers the address of a login.
Login(c) == \E b \in Browsers, e \in Typed, p \in Passwords : \E u \in Found(Lower(e)) :
  /\ users[u].password = p
  /\ EnterSession(c, b, [pc |-> "login", browser |-> b, tokens |-> Pair(u)])

\* The refresh token in use stays valid.
RefreshToken(c) == \E b \in Browsers :
  /\ Valid(jar[b].refresh)
  /\ EnterSession(c, b, [pc |-> "refresh", browser |-> b,
                         tokens |-> Pair(jar[b].refresh.user)])

LogoutUser(c) == \E b \in Browsers :
  /\ Authenticated(b)
  /\ EnterSession(c, b, [pc |-> "logout", browser |-> b])

SetTokenCookies(c) ==
  LET k == call[c]
  IN /\ k.pc \in {"login", "refresh"}
     /\ jar' = [jar EXCEPT ![k.browser] = k.tokens]
     /\ session' = [session EXCEPT ![k.browser] = IF k.pc = "login" THEN "in" ELSE @]
     /\ Done(c)
     /\ UNCHANGED <<rows, raced, bounds, ghosts>>

\* Mutant: the refresh token is left in the browser.
AccessCookieDeleted(cookie) == [cookie EXCEPT !.access = NoToken]

CookiesDeleted(cookie) == EmptyJar

DeleteTokenCookies(c) ==
  LET k == call[c]
  IN /\ k.pc = "logout"
     /\ jar' = [jar EXCEPT ![k.browser] = CookiesDeleted(@)]
     /\ session' = [session EXCEPT ![k.browser] = "out"]
     /\ raced' = IF \E d \in Calls \ {c} : Concerns(call[d], k.browser)
                 THEN raced ELSE raced \ {k.browser}
     /\ Done(c)
     /\ UNCHANGED <<rows, bounds, ghosts>>

Tick ==
  /\ now < Horizon
  /\ now' = now + 1
  /\ UNCHANGED <<rows, cookies, call, calls, ghosts>>

Next ==
  \/ \E c \in Calls :
       \/ InviteUser(c) \/ GenerateInviteLink(c) \/ RegisterUser(c) \/ CreateUser(c)
       \/ CreateRefused(c) \/ AssignRole(c) \/ UpdateUserRole(c) \/ ChangePassword(c)
       \/ UpdateUserPassword(c) \/ Login(c) \/ RefreshToken(c) \/ LogoutUser(c)
       \/ SetTokenCookies(c) \/ DeleteTokenCookies(c)
  \/ Restart
  \/ Tick

Spec == Init /\ [][Next]_vars

-----------------------------------------------------------------------------
(* Properties.                                                              *)

\* An address, however it is typed, has one account: invitations for the same
\* person in small and in mixed letters, used at the same time or twice, end in
\* one row (models/user.py:49 and 94, crud/user.py:48-56).
OneAccountPerAddress ==
  \A u, v \in Ids : users[u].email.address = users[v].email.address => u = v

\* The role of an account is one that an administrator has granted to its
\* address, by an invitation or by assign_role, when his call began: somebody
\* who was demoted before grants nothing (services/user.py:31-46).
RolesGranted == \A u \in Ids : <<users[u].email.address, users[u].role>> \in grants

\* No administrator is lost as long as none gives up the role himself and no two
\* assign_role are in progress together.  Nothing in the code keeps two of them
\* from demoting one another, and create_roles does not bring one back.
AdminRemains ==
  ~selfDemoted /\ ~overlapped => \E u \in Ids : IsAdmin(u)

\* After its logout a browser holds no token that could open or renew a session
\* until it logs in again; the one exception is a call on the session, such as a
\* refresh, that was under way during the logout: its answer brings new tokens
\* (api/v1/routers/auth.py:266-327, 380-382).
LogoutHolds ==
  \A b \in Browsers : session[b] = "out" /\ b \notin raced => jar[b] = EmptyJar
=============================================================================
