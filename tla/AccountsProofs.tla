--------------------------- MODULE AccountsProofs ---------------------------
(***************************************************************************)
(* Proofs about Accounts for every number of calls, browsers, addresses,   *)
(* roles and users, every life of a token and every bound.                 *)
(***************************************************************************)
EXTENDS Accounts, SequenceTheorems, TLAPS

USE DEF rows, cookies, bounds, ghosts

-----------------------------------------------------------------------------
(* Types                                                                   *)

Row == [email : Typed, role : AllRoles, password : Passwords]

\* A token is none, or names a user there is.
Tokens == {NoToken} \cup [user : Ids, exp : Int]
Jar == [access : Tokens, refresh : Tokens]

Invite    == [pc : {"invite"}, email : Typed, role : AllRoles, life : 0 .. DefaultLife + 1]
Register  == [pc : {"register"}, email : Typed, role : AllRoles, password : Passwords]
Assign    == [pc : {"assign"}, user : Ids, loaded : AllRoles, role : AllRoles]
Password  == [pc : {"password"}, user : Ids, password : Passwords]
SetTokens == [pc : {"login", "refresh"}, browser : Browsers,
              tokens : {j \in Jar : j.access.user = j.refresh.user}]
Logout    == [pc : {"logout"}, browser : Browsers]
Call == {Idle} \cup Invite \cup Register \cup Assign \cup Password \cup SetTokens
          \cup Logout

\* The type invariant, with what a call keeps from its first queries.
Types ==
  /\ TypeOK
  /\ jar \in [Browsers -> Jar]
  /\ call \in [Calls -> Call]
  /\ session \in [Browsers -> {"in", "out"}] /\ raced \subseteq Browsers
  /\ selfDemoted \in BOOLEAN /\ overlapped \in BOOLEAN

\* A call's state tells which of its fields there are.
LEMMA CallKinds ==
  ASSUME NEW k \in Call
  PROVE  /\ k.pc \in {"idle", "invite", "register", "assign", "password", "login",
                      "refresh", "logout"}
         /\ k.pc = "idle" => k = Idle
         /\ k.pc = "invite" => k \in Invite
         /\ k.pc = "register" => k \in Register
         /\ k.pc = "assign" => k \in Assign
         /\ k.pc = "password" => k \in Password
         /\ k.pc \in {"login", "refresh"} => k \in SetTokens
         /\ k.pc = "logout" => k \in Logout
BY DEF Call, Idle, Invite, Register, Assign, Password, SetTokens, Logout

\* Writing one column of a user's row: the others and the other rows stay.
LEMMA RowUpdate ==
  ASSUME users \in Seq(Row), NEW u \in Ids, NEW row \in Row,
         row.email = users[u].email, users' = [users EXCEPT ![u] = row]
  PROVE  /\ users' \in Seq(Row) /\ Len(users') = Len(users) /\ Ids' = Ids
         /\ users'[u] = row
         /\ \A v \in Ids : /\ users'[v].email = users[v].email
                           /\ v # u => users'[v] = users[v]
<1>1. Ids = 1 .. Len(users)
  BY DEF Ids
<1>2. /\ users' \in Seq(Row) /\ Len(users') = Len(users)
      /\ \A v \in 1 .. Len(users) : users'[v] = IF v = u THEN row ELSE users[v]
  BY <1>1, ExceptSeq
<1>3. Ids' = 1 .. Len(users')
  BY <1>2 DEF Ids
<1>4. QED
  BY <1>1, <1>2, <1>3

\* Adding a user: the new row has the next id.
LEMMA RowAdded ==
  ASSUME users \in Seq(Row), NEW row \in Row, users' = Append(users, row)
  PROVE  /\ users' \in Seq(Row) /\ Len(users') = Len(users) + 1
         /\ Len(users) + 1 \notin Ids
         /\ Ids' = Ids \cup {Len(users) + 1}
         /\ users'[Len(users) + 1] = row
         /\ \A v \in Ids : users'[v] = users[v]
<1>1. Ids = 1 .. Len(users) /\ Len(users) \in Nat
  BY DEF Ids
<1>2. /\ users' \in Seq(Row) /\ Len(users') = Len(users) + 1
      /\ \A v \in 1 .. Len(users) : users'[v] = users[v]
      /\ users'[Len(users) + 1] = row
  BY <1>1, AppendProperties
<1>3. Ids' = 1 .. Len(users')
  BY <1>2 DEF Ids
<1>4. QED
  BY <1>1, <1>2, <1>3

\* With more users, tokens, cookies and calls keep their types.
LEMMA MoreUsers ==
  ASSUME Ids \subseteq Ids'
  PROVE  Tokens \subseteq Tokens' /\ Jar \subseteq Jar' /\ Call \subseteq Call'
<1>1. Tokens \subseteq Tokens'
  BY DEF Tokens, NoToken
<1>2. Jar \subseteq Jar'
  BY <1>1 DEF Jar
<1>3. SetTokens \subseteq SetTokens'
  BY <1>2 DEF SetTokens
<1>4. Assign \subseteq Assign' /\ Password \subseteq Password'
  BY DEF Assign, Password
<1>5. QED
  BY <1>1, <1>2, <1>3, <1>4 DEF Call, Idle, Invite, Register, Logout

\* What the types of a state say of its rows, and of a token that is valid.
LEMMA RowTypes ==
  ASSUME Types
  PROVE  /\ users \in Seq(Row) /\ Len(users) \in Nat /\ Ids = 1 .. Len(users)
         /\ \A u \in Ids : users[u] \in Row
         /\ \A b \in Browsers :
              /\ jar[b] \in Jar
              /\ Valid(jar[b].access) => jar[b].access.user \in Ids
              /\ Valid(jar[b].refresh) => jar[b].refresh.user \in Ids
              /\ jar[b].access.user = jar[b].refresh.user
         /\ \A c \in Calls : call[c] \in Call
         /\ now \in 0 .. Horizon
<1>1. users \in Seq(Row) /\ jar \in [Browsers -> Jar] /\ call \in [Calls -> Call]
      /\ now \in 0 .. Horizon
      /\ \A b \in Browsers : jar[b].access.user = jar[b].refresh.user
  BY DEF Types, TypeOK, Row
<1>2. Len(users) \in Nat /\ Ids = 1 .. Len(users)
  BY <1>1, LenProperties DEF Ids
<1>3. \A u \in Ids : users[u] \in Row
  BY <1>1, <1>2, ElementOfSeq
<1>4. \A token \in Tokens : Valid(token) => token.user \in Ids
  BY DEF Tokens, Valid
<1>5. \A b \in Browsers : jar[b].access \in Tokens /\ jar[b].refresh \in Tokens
  BY <1>1 DEF Jar
<1>6. QED
  BY <1>1, <1>2, <1>3, <1>4, <1>5

\* A step that keeps every part typed, with at most more users, keeps the types.
LEMMA KeepTypes ==
  ASSUME Types, users' \in Seq(Row), Ids \subseteq Ids', Len(users') <= MaxUsers,
         \A i \in invitations' : /\ i.email \in Typed /\ i.role \in AllRoles
                                 /\ i.exp \in 0 .. Horizon + DefaultLife + 1,
         jar' \in [Browsers -> Jar],
         \A b \in Browsers : jar'[b].access.user = jar'[b].refresh.user,
         call' \in [Calls -> Call],
         session' \in [Browsers -> {"in", "out"}], raced' \subseteq Browsers,
         now' \in 0 .. Horizon, calls' \in 0 .. MaxCalls,
         selfDemoted' \in BOOLEAN, overlapped' \in BOOLEAN
  PROVE  Types'
<1>1. jar' \in [Browsers -> Jar'] /\ call' \in [Calls -> Call']
  BY MoreUsers
<1>2. \A b \in Browsers : jar'[b].access.user \in Ids' \cup {0}
  BY DEF Jar, Tokens, NoToken
<1>3. \A c \in Calls : call'[c].pc \in {"idle", "invite", "register", "assign",
        "password", "login", "refresh", "logout"}
  BY CallKinds
<1>4. TypeOK'
  BY <1>2, <1>3 DEF TypeOK, Row
<1>5. QED
  BY <1>1, <1>4 DEF Types

\* The state when the service has been started for the first time.
LEMMA InitTypes == Init => Types
<1> SUFFICES ASSUME Init PROVE Types
  OBVIOUS
<1>1. PICK p \in Passwords :
        users = <<Administrator(FirstAdmins[1], p), Administrator(FirstAdmins[2], p)>>
  BY AccountsAssumption DEF Init
<1>2. \A a \in Addresses : Administrator(a, p) \in Row
  BY DEF Administrator, Normalised, Lower, Small, Row, Typed, AllRoles
<1>3. FirstAdmins[1] \in Addresses /\ FirstAdmins[2] \in Addresses
  BY AccountsAssumption
<1>4. users \in Seq(Row) /\ Len(users) = 2
  BY <1>1, <1>2, <1>3
<1>5. jar \in [Browsers -> Jar] /\ call \in [Calls -> Call]
      /\ \A b \in Browsers : jar[b] = EmptyJar
  BY DEF Init, EmptyJar, Jar, Tokens, Call
<1>6. TypeOK
  BY <1>4, <1>5, AccountsAssumption DEF TypeOK, Init, Row, EmptyJar, NoToken, Idle
<1>7. QED
  BY <1>5, <1>6 DEF Types, Init

\* A call that begins keeps the types when what it keeps is typed.
LEMMA EnterTypes ==
  ASSUME Types, NEW c \in Calls, NEW new \in Call, Enter(c, new),
         UNCHANGED <<rows, jar, session, now>>, raced' \subseteq Browsers,
         selfDemoted' \in BOOLEAN, overlapped' \in BOOLEAN
  PROVE  Types'
<1>1. calls' \in 0 .. MaxCalls
  BY AccountsAssumption DEF Enter, Types, TypeOK
<1>2. call' \in [Calls -> Call]
  BY DEF Enter, Types
<1>3. Ids' = Ids
  BY DEF Ids
<1>4. QED
  BY <1>1, <1>2, <1>3, KeepTypes, RowTypes DEF Types, TypeOK

\* A call that ends, or a restart, keeps the types when what it writes is typed.
LEMMA EndTypes ==
  ASSUME Types, UNCHANGED <<bounds, ghosts>>,
         (\E c \in Calls : Done(c)),
         users' \in Seq(Row), Ids \subseteq Ids', Len(users') <= MaxUsers,
         \A i \in invitations' : /\ i.email \in Typed /\ i.role \in AllRoles
                                 /\ i.exp \in 0 .. Horizon + DefaultLife + 1,
         jar' \in [Browsers -> Jar],
         \A b \in Browsers : jar'[b].access.user = jar'[b].refresh.user,
         session' \in [Browsers -> {"in", "out"}], raced' \subseteq Browsers
  PROVE  Types'
<1>1. call' \in [Calls -> Call]
  BY DEF Done, Types, Call
<1>2. QED
  BY <1>1, KeepTypes DEF Types, TypeOK

\* The first queries of every call: what it keeps is typed.
LEMMA BeginTypes ==
  ASSUME Types, NEW c \in Calls,
         \/ InviteUser(c) \/ RegisterUser(c) \/ AssignRole(c) \/ ChangePassword(c)
         \/ Login(c) \/ RefreshToken(c) \/ LogoutUser(c)
  PROVE  Types'
<1>0. raced \subseteq Browsers /\ selfDemoted \in BOOLEAN /\ overlapped \in BOOLEAN
  BY DEF Types
<1>1. CASE InviteUser(c)
  <2>1. PICK e \in Typed, r \in AllRoles, days \in 0 .. 1 :
          Enter(c, [pc |-> "invite", email |-> e, role |-> r, life |-> InvitationLife(days)])
    BY <1>1 DEF InviteUser
  <2>2. [pc |-> "invite", email |-> e, role |-> r, life |-> InvitationLife(days)] \in Call
    BY AccountsAssumption DEF Call, Invite, InvitationLife
  <2>3. QED
    BY <1>0, <1>1, <2>1, <2>2, EnterTypes DEF InviteUser
<1>2. CASE RegisterUser(c)
  <2>1. PICK i \in invitations, p \in Passwords :
          Enter(c, [pc |-> "register", email |-> i.email, role |-> i.role,
                    password |-> p])
    BY <1>2 DEF RegisterUser
  <2>2. [pc |-> "register", email |-> i.email, role |-> i.role, password |-> p] \in Call
    BY DEF Call, Register, Types, TypeOK
  <2>3. QED
    BY <1>0, <1>2, <2>1, <2>2, EnterTypes DEF RegisterUser
<1>3. CASE AssignRole(c)
  <2>1. PICK b \in Browsers, e \in Typed, r \in AllRoles : \E u \in Found(e) :
          /\ Enter(c, [pc |-> "assign", user |-> u, loaded |-> users[u].role,
                       role |-> r])
          /\ selfDemoted' = (selfDemoted \/ (u = CurrentUser(b) /\ r # "admin"))
          /\ overlapped' = (overlapped \/ \E d \in Calls : call[d].pc = "assign")
          /\ UNCHANGED <<rows, cookies, now>>
    BY <1>3 DEF AssignRole
  <2>2. PICK u \in Found(e) :
          /\ Enter(c, [pc |-> "assign", user |-> u, loaded |-> users[u].role,
                       role |-> r])
          /\ selfDemoted' = (selfDemoted \/ (u = CurrentUser(b) /\ r # "admin"))
          /\ overlapped' = (overlapped \/ \E d \in Calls : call[d].pc = "assign")
          /\ UNCHANGED <<rows, cookies, now>>
    BY <2>1
  <2>3. u \in Ids /\ users[u].role \in AllRoles
    BY RowTypes DEF Found, Row
  <2>4. [pc |-> "assign", user |-> u, loaded |-> users[u].role, role |-> r] \in Call
    BY <2>3 DEF Call, Assign
  <2>5. selfDemoted' \in BOOLEAN /\ overlapped' \in BOOLEAN
    BY <2>2
  <2>6. QED
    BY <1>0, <2>2, <2>4, <2>5, EnterTypes
<1>4. CASE ChangePassword(c)
  <2>1. PICK b \in Browsers, new \in Passwords :
          /\ Authenticated(b)
          /\ Enter(c, [pc |-> "password", user |-> CurrentUser(b), password |-> new])
    BY <1>4 DEF ChangePassword
  <2>2. CurrentUser(b) \in Ids
    BY <2>1, RowTypes DEF Authenticated, CurrentUser
  <2>3. [pc |-> "password", user |-> CurrentUser(b), password |-> new] \in Call
    BY <2>2 DEF Call, Password
  <2>4. QED
    BY <1>0, <1>4, <2>1, <2>3, EnterTypes DEF ChangePassword
<1>5. \A u \in Ids : Pair(u) \in Jar /\ Pair(u).access.user = Pair(u).refresh.user
  BY RowTypes, AccountsAssumption DEF Pair, Token, Jar, Tokens
<1>6. ASSUME NEW b \in Browsers, NEW new \in Call, EnterSession(c, b, new) PROVE Types'
  <2>1. raced' \subseteq Browsers
    BY <1>0, <1>6 DEF EnterSession
  <2>2. QED
    BY <1>0, <1>6, <2>1, EnterTypes DEF EnterSession
<1>7. CASE Login(c)
  <2>1. PICK b \in Browsers, e \in Typed : \E u \in Found(Lower(e)) :
          EnterSession(c, b, [pc |-> "login", browser |-> b, tokens |-> Pair(u)])
    BY <1>7 DEF Login
  <2>2. PICK u \in Found(Lower(e)) :
          EnterSession(c, b, [pc |-> "login", browser |-> b, tokens |-> Pair(u)])
    BY <2>1
  <2>3. [pc |-> "login", browser |-> b, tokens |-> Pair(u)] \in Call
    BY <1>5 DEF Found, Call, SetTokens
  <2>4. QED
    BY <1>6, <2>2, <2>3
<1>8. CASE RefreshToken(c)
  <2>1. PICK b \in Browsers : /\ Valid(jar[b].refresh)
                              /\ EnterSession(c, b, [pc |-> "refresh", browser |-> b,
                                   tokens |-> Pair(jar[b].refresh.user)])
    BY <1>8 DEF RefreshToken
  <2>2. jar[b].refresh.user \in Ids
    BY <2>1, RowTypes
  <2>3. [pc |-> "refresh", browser |-> b, tokens |-> Pair(jar[b].refresh.user)] \in Call
    BY <1>5, <2>2 DEF Call, SetTokens
  <2>4. QED
    BY <1>6, <2>1, <2>3
<1>9. CASE LogoutUser(c)
  <2>1. PICK b \in Browsers : EnterSession(c, b, [pc |-> "logout", browser |-> b])
    BY <1>9 DEF LogoutUser
  <2>2. [pc |-> "logout", browser |-> b] \in Call
    BY DEF Call, Logout
  <2>3. QED
    BY <1>6, <2>1, <2>2
<1>10. QED
  BY <1>1, <1>2, <1>3, <1>4, <1>7, <1>8, <1>9

\* What create_user writes: a new row with the small letters of the address.
LEMMA CreatedRow ==
  ASSUME Types, NEW c \in Calls, CreateUser(c)
  PROVE  \E row \in Row :
           /\ row.email = Lower(call[c].email) /\ row.role = call[c].role
           /\ users' = Append(users, row)
           /\ call[c] \in Register
<1>1. call[c] \in Register
  BY CallKinds, RowTypes DEF CreateUser
<1>2. Lower(call[c].email) \in Typed
  BY <1>1 DEF Register, Typed, Lower
<1>3. [email |-> Lower(call[c].email), role |-> call[c].role,
       password |-> call[c].password] \in Row
  BY <1>1, <1>2 DEF Register, Row
<1>4. users' = Append(users, [email |-> Lower(call[c].email), role |-> call[c].role,
                              password |-> call[c].password])
  BY DEF CreateUser, Normalised
<1>5. QED
  BY <1>1, <1>3, <1>4

\* What assign_role writes: the role, unless it is the one it has loaded.
LEMMA AssignedRow ==
  ASSUME Types, NEW c \in Calls, UpdateUserRole(c)
  PROVE  /\ call[c] \in Assign /\ call[c].user \in Ids
         /\ users' \in Seq(Row) /\ Len(users') = Len(users) /\ Ids' = Ids
         /\ \A v \in Ids : users'[v].email = users[v].email
         /\ \A v \in Ids : v # call[c].user => users'[v] = users[v]
         /\ \/ users' = users /\ call[c].role = call[c].loaded
            \/ users'[call[c].user].role = call[c].role
<1>1. call[c] \in Assign
  BY CallKinds, RowTypes DEF UpdateUserRole
<1>2. call[c].user \in Ids /\ call[c].role \in AllRoles
  BY <1>1 DEF Assign
<1>3. CASE users' = users
  BY <1>1, <1>2, <1>3, RowTypes DEF UpdateUserRole, Ids
<1>4. CASE users' = [users EXCEPT ![call[c].user].role = call[c].role]
  <2> DEFINE u == call[c].user
             row == [users[u] EXCEPT !.role = call[c].role]
  <2>1. row \in Row /\ row.email = users[u].email /\ row.role = call[c].role
    BY <1>2, RowTypes DEF Row
  <2>2. users' = [users EXCEPT ![u] = row]
    BY <1>4
  <2>3. /\ users' \in Seq(Row) /\ Len(users') = Len(users) /\ Ids' = Ids
        /\ users'[u] = row
        /\ \A v \in Ids : /\ users'[v].email = users[v].email
                          /\ v # u => users'[v] = users[v]
    <3> HIDE DEF row, u
    <3>1. users \in Seq(Row) /\ u \in Ids
      BY <1>2, RowTypes DEF u
    <3>2. QED
      BY <2>1, <2>2, <3>1, RowUpdate
  <2>4. QED
    BY <1>1, <1>2, <2>1, <2>3
<1>5. QED
  BY <1>3, <1>4 DEF UpdateUserRole

\* What change_password writes: the password of the user whose token it was.
LEMMA PasswordRow ==
  ASSUME Types, NEW c \in Calls, UpdateUserPassword(c)
  PROVE  /\ users' \in Seq(Row) /\ Len(users') = Len(users) /\ Ids' = Ids
         /\ \A v \in Ids : /\ users'[v].email = users[v].email
                           /\ users'[v].role = users[v].role
<1>1. call[c] \in Password
  BY CallKinds, RowTypes DEF UpdateUserPassword
<1> DEFINE u == call[c].user
           row == [users[u] EXCEPT !.password = call[c].password]
<1>2. u \in Ids /\ call[c].password \in Passwords /\ users[u] \in Row
  BY <1>1, RowTypes DEF Password
<1>3. row \in Row /\ row.email = users[u].email /\ row.role = users[u].role
  BY <1>2 DEF Row
<1>4. users' = [users EXCEPT ![u] = row]
  BY DEF UpdateUserPassword
<1>5. QED
  <2> HIDE DEF row, u
  <2>1. users \in Seq(Row)
    BY RowTypes
  <2>2. /\ users' \in Seq(Row) /\ Len(users') = Len(users) /\ Ids' = Ids
        /\ users'[u] = row
        /\ \A v \in Ids : /\ users'[v].email = users[v].email
                          /\ v # u => users'[v] = users[v]
    BY <1>2, <1>3, <1>4, <2>1, RowUpdate
  <2>3. QED
    BY <1>3, <2>2

\* The answers: what they write is typed.
LEMMA AnswerTypes ==
  ASSUME Types, NEW c \in Calls,
         \/ GenerateInviteLink(c) \/ CreateUser(c) \/ CreateRefused(c)
         \/ UpdateUserRole(c) \/ UpdateUserPassword(c)
         \/ SetTokenCookies(c) \/ DeleteTokenCookies(c)
  PROVE  Types'
<1>0. /\ users \in Seq(Row) /\ Len(users) <= MaxUsers /\ jar \in [Browsers -> Jar]
      /\ \A b \in Browsers : jar[b].access.user = jar[b].refresh.user
      /\ session \in [Browsers -> {"in", "out"}] /\ raced \subseteq Browsers
      /\ \A i \in invitations : /\ i.email \in Typed /\ i.role \in AllRoles
                                /\ i.exp \in 0 .. Horizon + DefaultLife + 1
  BY RowTypes DEF Types, TypeOK
<1>1. CASE GenerateInviteLink(c)
  <2>1. call[c] \in Invite
    BY <1>1, CallKinds, RowTypes DEF GenerateInviteLink
  <2>2. call[c].life \in 0 .. DefaultLife + 1 /\ now \in 0 .. Horizon
    BY <2>1, RowTypes DEF Invite
  <2>3. now + call[c].life \in 0 .. Horizon + DefaultLife + 1
    BY <2>2, AccountsAssumption
  <2>4. \A i \in invitations' : /\ i.email \in Typed /\ i.role \in AllRoles
                                /\ i.exp \in 0 .. Horizon + DefaultLife + 1
    BY <1>0, <1>1, <2>1, <2>3 DEF GenerateInviteLink, Invite
  <2>5. Ids' = Ids
    BY <1>1 DEF GenerateInviteLink, Ids
  <2>6. QED
    BY <1>0, <1>1, <2>4, <2>5, EndTypes DEF GenerateInviteLink
<1>2. CASE CreateUser(c)
  <2>1. PICK row \in Row : users' = Append(users, row)
    BY <1>2, CreatedRow
  <2>2. /\ users' \in Seq(Row) /\ Len(users') = Len(users) + 1 /\ Ids \subseteq Ids'
    BY <1>0, <2>1, RowAdded
  <2>3. Len(users') <= MaxUsers
    BY <1>2, <2>2, RowTypes, AccountsAssumption DEF CreateUser
  <2>4. QED
    BY <1>0, <1>2, <2>2, <2>3, EndTypes DEF CreateUser
<1>3. CASE CreateRefused(c)
  BY <1>0, <1>3, EndTypes DEF CreateRefused, Ids
<1>4. CASE UpdateUserRole(c)
  BY <1>0, <1>4, AssignedRow, EndTypes DEF UpdateUserRole
<1>5. CASE UpdateUserPassword(c)
  BY <1>0, <1>5, PasswordRow, EndTypes DEF UpdateUserPassword
<1>6. CASE SetTokenCookies(c)
  <2>1. call[c] \in SetTokens
    BY <1>6, CallKinds, RowTypes DEF SetTokenCookies
  <2>2. /\ call[c].tokens \in Jar /\ call[c].browser \in Browsers
        /\ call[c].tokens.access.user = call[c].tokens.refresh.user
    BY <2>1 DEF SetTokens
  <2>3. jar' \in [Browsers -> Jar] /\ session' \in [Browsers -> {"in", "out"}]
        /\ \A b \in Browsers : jar'[b].access.user = jar'[b].refresh.user
    BY <1>0, <1>6, <2>2 DEF SetTokenCookies
  <2>4. QED
    BY <1>0, <1>6, <2>3, EndTypes DEF SetTokenCookies, Ids
<1>7. CASE DeleteTokenCookies(c)
  <2>1. call[c] \in Logout
    BY <1>7, CallKinds, RowTypes DEF DeleteTokenCookies
  <2>2. EmptyJar \in Jar /\ EmptyJar.access.user = EmptyJar.refresh.user
    BY DEF EmptyJar, Jar, Tokens
  <2>3. /\ jar' \in [Browsers -> Jar] /\ session' \in [Browsers -> {"in", "out"}]
        /\ \A b \in Browsers : jar'[b].access.user = jar'[b].refresh.user
        /\ raced' \subseteq Browsers
    BY <1>0, <1>7, <2>2 DEF DeleteTokenCookies, CookiesDeleted
  <2>4. QED
    BY <1>0, <1>7, <2>3, EndTypes DEF DeleteTokenCookies, Ids
<1>8. QED
  BY <1>1, <1>2, <1>3, <1>4, <1>5, <1>6, <1>7

\* Every step keeps the types.
LEMMA NextTypes == Types /\ [Next]_vars => Types'
<1> SUFFICES ASSUME Types, [Next]_vars PROVE Types'
  OBVIOUS
<1>1. CASE Restart \/ Tick \/ UNCHANGED vars
  <2>1. UNCHANGED <<rows, cookies, ghosts, calls>> /\ Ids' = Ids
    BY <1>1 DEF Restart, Tick, vars, Ids
  <2>2. now' \in 0 .. Horizon
    BY <1>1, AccountsAssumption DEF Restart, Tick, vars, Types, TypeOK
  <2>3. call' \in [Calls -> Call]
    BY <1>1 DEF Restart, Tick, vars, Types, Call
  <2>4. QED
    BY <2>1, <2>2, <2>3, RowTypes, KeepTypes DEF Types, TypeOK
<1>2. QED
  BY <1>1, BeginTypes, AnswerTypes DEF Next

\* Rows, invitations, cookies and calls stay well typed.
THEOREM TypeCorrect == Spec => []TypeOK
<1>1. Types => TypeOK
  BY DEF Types
<1>2. QED
  BY <1>1, InitTypes, NextTypes, PTL DEF Spec

\* What a step does to the rows: nothing, one more account, a role, or passwords.
LEMMA RowSteps ==
  ASSUME Types, [Next]_vars
  PROVE  \/ users' = users
         \/ \E c \in Calls : CreateUser(c) \/ UpdateUserRole(c) \/ UpdateUserPassword(c)
<1>1. CASE Restart \/ Tick \/ UNCHANGED vars
  BY <1>1 DEF Restart, Tick, vars
<1>2. ASSUME NEW c \in Calls,
             InviteUser(c) \/ GenerateInviteLink(c) \/ RegisterUser(c) \/ CreateRefused(c)
               \/ AssignRole(c)
      PROVE  users' = users
  BY <1>2 DEF InviteUser, GenerateInviteLink, RegisterUser, CreateRefused, AssignRole
<1>3. ASSUME NEW c \in Calls,
             ChangePassword(c) \/ Login(c) \/ RefreshToken(c) \/ LogoutUser(c)
               \/ SetTokenCookies(c) \/ DeleteTokenCookies(c)
      PROVE  users' = users
  BY <1>3 DEF ChangePassword, Login, RefreshToken, LogoutUser, EnterSession,
     SetTokenCookies, DeleteTokenCookies
<1>4. QED
  BY <1>1, <1>2, <1>3 DEF Next

-----------------------------------------------------------------------------
(* One account per address                                                 *)

\* Addresses are stored in small letters, which is what makes the unique index
\* see two spellings of one address.
EmailInv ==
  /\ \A u \in Ids : ~users[u].email.mixed
  /\ OneAccountPerAddress

\* The two administrators have different addresses.
LEMMA InitEmailInv == Init => EmailInv
<1> SUFFICES ASSUME Init PROVE EmailInv
  OBVIOUS
<1>1. PICK p \in Passwords :
        users = <<Administrator(FirstAdmins[1], p), Administrator(FirstAdmins[2], p)>>
  BY AccountsAssumption DEF Init
<1>2. Ids = {1, 2}
  BY <1>1 DEF Ids
<1>3. \A a : /\ Administrator(a, p).email.mixed = FALSE
             /\ Administrator(a, p).email.address = a
  BY DEF Administrator, Normalised, Lower, Small
<1>4. /\ users[1].email.address = FirstAdmins[1] /\ users[1].email.mixed = FALSE
      /\ users[2].email.address = FirstAdmins[2] /\ users[2].email.mixed = FALSE
  BY <1>1, <1>3
<1>5. FirstAdmins[1] # FirstAdmins[2]
  BY AccountsAssumption
<1>6. QED
  BY <1>2, <1>4, <1>5 DEF EmailInv, OneAccountPerAddress

\* EmailInv is inductive, given the types.
LEMMA NextEmailInv == Types /\ EmailInv /\ [Next]_vars => EmailInv'
<1> SUFFICES ASSUME Types, EmailInv, [Next]_vars PROVE EmailInv'
  OBVIOUS
<1>1. CASE Ids' = Ids /\ \A v \in Ids : users'[v].email = users[v].email
  BY <1>1 DEF EmailInv, OneAccountPerAddress
<1>2. ASSUME NEW c \in Calls, CreateUser(c) PROVE EmailInv'
  <2>1. PICK row \in Row : /\ row.email = Lower(call[c].email)
                           /\ users' = Append(users, row)
                           /\ call[c] \in Register
    BY <1>2, CreatedRow
  <2> DEFINE n == Len(users) + 1
  <2>2. /\ n \notin Ids /\ Ids' = Ids \cup {n} /\ users'[n] = row
        /\ \A v \in Ids : users'[v] = users[v]
    BY <2>1, RowTypes, RowAdded
  <2>3. call[c].email \in Typed
    BY <2>1 DEF Register
  <2>4. row.email = [address |-> call[c].email.address, mixed |-> FALSE]
    BY <2>1, <2>3 DEF Lower, Typed
  <2>5. ASSUME NEW v \in Ids PROVE users[v].email.address # row.email.address
    <3>1. users[v].email \in Typed /\ users[v].email.mixed = FALSE
      BY RowTypes DEF EmailInv, Row, Typed
    <3>2. users[v].email # row.email
      BY <1>2, <2>1 DEF CreateUser, Taken, Normalised
    <3>3. users[v].email = [address |-> users[v].email.address, mixed |-> FALSE]
      <4>1. users[v].email = [address |-> users[v].email.address,
                              mixed |-> users[v].email.mixed]
        BY <3>1 DEF Typed
      <4>2. QED
        BY <3>1, <4>1, Zenon
    <3>4. row.email.address = call[c].email.address
      BY <2>4
    <3>5. QED
      BY <2>4, <3>2, <3>3, <3>4, Zenon
  <2>6. QED
    <3> HIDE DEF n
    <3>1. QED
      BY <2>2, <2>4, <2>5 DEF EmailInv, OneAccountPerAddress
<1>3. ASSUME NEW c \in Calls, UpdateUserRole(c) PROVE EmailInv'
  BY <1>1, <1>3, AssignedRow
<1>4. ASSUME NEW c \in Calls, UpdateUserPassword(c) PROVE EmailInv'
  BY <1>1, <1>4, PasswordRow
<1>5. CASE users' = users
  BY <1>1, <1>5 DEF Ids
<1>6. QED
  BY <1>2, <1>3, <1>4, <1>5, RowSteps

\* An address has one account, however it is typed and however many invitations
\* are used at the same time.
THEOREM OneAccount == Spec => []OneAccountPerAddress
<1>1. EmailInv => OneAccountPerAddress
  BY DEF EmailInv
<1>2. QED
  BY <1>1, InitTypes, NextTypes, InitEmailInv, NextEmailInv, PTL DEF Spec

-----------------------------------------------------------------------------
(* Roles                                                                   *)

\* Why RolesGranted holds: what a call or an invitation is about to give has been
\* granted by an administrator when the call began.
GrantInv ==
  /\ RolesGranted
  /\ \A i \in invitations : <<i.email.address, i.role>> \in grants
  /\ \A c \in Calls : call[c].pc \in {"invite", "register"} =>
       <<call[c].email.address, call[c].role>> \in grants
  /\ \A c \in Calls : call[c].pc = "assign" =>
       <<users[call[c].user].email.address, call[c].role>> \in grants

\* The administrators made at start-up are granted their role.
LEMMA InitGrantInv == Init => GrantInv
<1> SUFFICES ASSUME Init PROVE GrantInv
  OBVIOUS
<1>1. PICK p \in Passwords :
        users = <<Administrator(FirstAdmins[1], p), Administrator(FirstAdmins[2], p)>>
  BY AccountsAssumption DEF Init
<1>2. Ids = {1, 2}
  BY <1>1 DEF Ids
<1>3. \A a : /\ Administrator(a, p).email.address = a
             /\ Administrator(a, p).role = "admin"
  BY DEF Administrator, Normalised, Lower, Small
<1>4. RolesGranted
  BY <1>1, <1>2, <1>3 DEF RolesGranted, Init
<1>5. QED
  BY <1>4 DEF GrantInv, Init, Idle

\* A step that adds grants, changes no address and gives no role that has not been
\* granted; a call that begins, or an invitation, is granted.
LEMMA KeepGrants ==
  ASSUME Types, GrantInv, grants \subseteq grants',
         Ids \subseteq Ids',
         \A u \in Ids' : <<users'[u].email.address, users'[u].role>> \in grants',
         \A u \in Ids : users'[u].email = users[u].email,
         \A i \in invitations' : <<i.email.address, i.role>> \in grants',
         \A c \in Calls : \/ call'[c] = call[c]
                          \/ /\ call'[c].pc \in {"invite", "register"} =>
                                  <<call'[c].email.address, call'[c].role>> \in grants'
                             /\ call'[c].pc = "assign" =>
                                  <<users'[call'[c].user].email.address, call'[c].role>>
                                    \in grants'
  PROVE  GrantInv'
<1>1. \A c \in Calls : call[c].pc = "assign" => call[c].user \in Ids
  BY CallKinds, RowTypes DEF Assign
<1>2. QED
  BY <1>1 DEF GrantInv, RolesGranted

\* A call that ends gives nothing more.
LEMMA DoneGrants ==
  ASSUME Types, NEW c \in Calls, Done(c)
  PROVE  \A d \in Calls : call'[d] = call[d] \/ call'[d].pc = "idle"
BY DEF Done, Idle, Types

\* GrantInv is inductive, given the types.
LEMMA NextGrantInv == Types /\ GrantInv /\ [Next]_vars => GrantInv'
<1> SUFFICES ASSUME Types, GrantInv, [Next]_vars PROVE GrantInv'
  OBVIOUS
<1>0. ASSUME NEW c \in Calls, NEW new, Enter(c, new)
      PROVE  /\ call'[c] = new
             /\ \A d \in Calls : d # c => call'[d] = call[d]
  BY <1>0 DEF Enter, Types
<1>1. ASSUME NEW c \in Calls, InviteUser(c) PROVE GrantInv'
  <2>1. PICK b \in Browsers, e \in Typed, r \in AllRoles, days \in 0 .. 1 :
          /\ IsAdmin(CurrentUser(b))
          /\ Enter(c, [pc |-> "invite", email |-> e, role |-> r, life |-> InvitationLife(days)])
          /\ grants' = grants \cup {<<e.address, r>>}
    BY <1>1 DEF InviteUser, MayAdminister
  <2>2. UNCHANGED rows /\ Ids' = Ids
    BY <1>1 DEF InviteUser, Ids
  <2>3. QED
    BY <1>0, <2>1, <2>2, KeepGrants DEF GrantInv, RolesGranted
<1>2. ASSUME NEW c \in Calls, RegisterUser(c) PROVE GrantInv'
  <2>1. PICK i \in invitations, p \in Passwords :
          Enter(c, [pc |-> "register", email |-> i.email, role |-> i.role,
                    password |-> p])
    BY <1>2 DEF RegisterUser
  <2>2. UNCHANGED <<rows, grants>> /\ Ids' = Ids
    BY <1>2 DEF RegisterUser, Ids
  <2>3. QED
    BY <1>0, <2>1, <2>2, KeepGrants DEF GrantInv, RolesGranted
<1>3. ASSUME NEW c \in Calls, AssignRole(c) PROVE GrantInv'
  <2>1. PICK b \in Browsers, e \in Typed, r \in AllRoles : \E u \in Found(e) :
          /\ Enter(c, [pc |-> "assign", user |-> u, loaded |-> users[u].role,
                       role |-> r])
          /\ grants' = grants \cup {<<e.address, r>>}
    BY <1>3 DEF AssignRole, MayAdminister
  <2>2. PICK u \in Found(e) :
          /\ Enter(c, [pc |-> "assign", user |-> u, loaded |-> users[u].role,
                       role |-> r])
          /\ grants' = grants \cup {<<e.address, r>>}
    BY <2>1
  <2>3. UNCHANGED rows /\ Ids' = Ids /\ users[u].email = e
    BY <1>3 DEF AssignRole, Ids, Found
  <2>4. QED
    BY <1>0, <2>2, <2>3, KeepGrants DEF GrantInv, RolesGranted
<1>4. ASSUME NEW c \in Calls, ChangePassword(c) PROVE GrantInv'
  <2>1. PICK b \in Browsers, new \in Passwords :
          Enter(c, [pc |-> "password", user |-> CurrentUser(b), password |-> new])
    BY <1>4 DEF ChangePassword
  <2>2. UNCHANGED <<rows, grants>> /\ Ids' = Ids
    BY <1>4 DEF ChangePassword, Ids
  <2>3. QED
    BY <1>0, <2>1, <2>2, KeepGrants DEF GrantInv, RolesGranted
<1>5. ASSUME NEW c \in Calls, Login(c) \/ RefreshToken(c) \/ LogoutUser(c)
      PROVE  GrantInv'
  <2>1. \E new : Enter(c, new) /\ new.pc \in {"login", "refresh", "logout"}
    <3>1. CASE Login(c)
      <4>1. PICK b \in Browsers, e \in Typed, p \in Passwords : \E u \in Found(Lower(e)) :
              EnterSession(c, b, [pc |-> "login", browser |-> b, tokens |-> Pair(u)])
        BY <3>1 DEF Login
      <4>2. QED
        BY <4>1 DEF EnterSession
    <3>2. CASE RefreshToken(c)
      <4>1. PICK b \in Browsers :
              EnterSession(c, b, [pc |-> "refresh", browser |-> b,
                                  tokens |-> Pair(jar[b].refresh.user)])
        BY <3>2 DEF RefreshToken
      <4>2. QED
        BY <4>1 DEF EnterSession
    <3>3. CASE LogoutUser(c)
      <4>1. PICK b \in Browsers : EnterSession(c, b, [pc |-> "logout", browser |-> b])
        BY <3>3 DEF LogoutUser
      <4>2. QED
        BY <4>1 DEF EnterSession
    <3>4. QED
      BY <1>5, <3>1, <3>2, <3>3
  <2>2. UNCHANGED <<rows, grants>> /\ Ids' = Ids
    BY <1>5 DEF Login, RefreshToken, LogoutUser, EnterSession, Ids
  <2>3. QED
    BY <1>0, <2>1, <2>2, KeepGrants DEF GrantInv, RolesGranted
<1>6. ASSUME NEW c \in Calls, GenerateInviteLink(c) PROVE GrantInv'
  <2>1. \A i \in invitations' : <<i.email.address, i.role>> \in grants
    <3>1. <<call[c].email.address, call[c].role>> \in grants
      BY <1>6 DEF GenerateInviteLink, GrantInv
    <3>2. \A i \in invitations' :
            i \in invitations \/ (i.email = call[c].email /\ i.role = call[c].role)
      BY <1>6 DEF GenerateInviteLink
    <3>3. QED
      BY <3>1, <3>2 DEF GrantInv
  <2>2. UNCHANGED <<users, grants>> /\ Ids' = Ids /\ Done(c)
    BY <1>6 DEF GenerateInviteLink, Ids
  <2>3. QED
    BY <2>1, <2>2, DoneGrants, KeepGrants DEF GrantInv, RolesGranted
<1>7. ASSUME NEW c \in Calls, CreateUser(c) PROVE GrantInv'
  <2>1. PICK row \in Row : /\ row.email = Lower(call[c].email)
                           /\ row.role = call[c].role
                           /\ users' = Append(users, row)
                           /\ call[c] \in Register
    BY <1>7, CreatedRow
  <2> DEFINE n == Len(users) + 1
  <2>2. /\ n \notin Ids /\ Ids' = Ids \cup {n} /\ users'[n] = row
        /\ \A v \in Ids : users'[v] = users[v]
    BY <2>1, RowTypes, RowAdded
  <2>3. row.email.address = call[c].email.address
    BY <2>1 DEF Register, Lower, Typed
  <2>4. <<row.email.address, row.role>> \in grants
    BY <1>7, <2>1, <2>3 DEF CreateUser, GrantInv
  <2>5. UNCHANGED <<invitations, grants>> /\ Done(c)
    BY <1>7 DEF CreateUser
  <2>6. QED
    <3> HIDE DEF n
    <3>1. QED
      BY <2>2, <2>4, <2>5, DoneGrants, KeepGrants DEF GrantInv, RolesGranted
<1>8. ASSUME NEW c \in Calls, UpdateUserRole(c) PROVE GrantInv'
  <2>1. /\ UNCHANGED <<invitations, grants>> /\ Done(c) /\ call[c].pc = "assign"
    BY <1>8 DEF UpdateUserRole
  <2>2. <<users[call[c].user].email.address, call[c].role>> \in grants
    BY <2>1 DEF GrantInv
  <2>3. \A u \in Ids : <<users'[u].email.address, users'[u].role>> \in grants
    BY <1>8, <2>2, AssignedRow DEF GrantInv, RolesGranted
  <2>4. Ids' = Ids /\ \A v \in Ids : users'[v].email = users[v].email
    BY <1>8, AssignedRow
  <2>5. QED
    BY <2>1, <2>3, <2>4, DoneGrants, KeepGrants DEF GrantInv
<1>9. ASSUME NEW c \in Calls, UpdateUserPassword(c) PROVE GrantInv'
  <2>1. UNCHANGED <<invitations, grants>> /\ Done(c)
    BY <1>9 DEF UpdateUserPassword
  <2>2. QED
    BY <1>9, <2>1, PasswordRow, DoneGrants, KeepGrants DEF GrantInv, RolesGranted
<1>10. ASSUME NEW c \in Calls,
              CreateRefused(c) \/ SetTokenCookies(c) \/ DeleteTokenCookies(c)
       PROVE  GrantInv'
  <2>1. UNCHANGED <<rows, grants>> /\ Done(c) /\ Ids' = Ids
    BY <1>10 DEF CreateRefused, SetTokenCookies, DeleteTokenCookies, Ids
  <2>2. QED
    BY <2>1, DoneGrants, KeepGrants DEF GrantInv, RolesGranted
<1>11. CASE Restart \/ Tick \/ UNCHANGED vars
  <2>1. UNCHANGED <<rows, grants>> /\ Ids' = Ids
    BY <1>11 DEF Restart, Tick, vars, Ids
  <2>2. \A d \in Calls : call'[d] = call[d] \/ call'[d].pc = "idle"
    BY <1>11 DEF Restart, Tick, vars, Idle
  <2>3. QED
    BY <2>1, <2>2, KeepGrants DEF GrantInv, RolesGranted
<1>12. QED
  BY <1>1, <1>2, <1>3, <1>4, <1>5, <1>6, <1>7, <1>8, <1>9, <1>10, <1>11 DEF Next

\* An account has a role only if an administrator has granted it to its address.
THEOREM RolesAreGranted == Spec => []RolesGranted
<1>1. GrantInv => RolesGranted
  BY DEF GrantInv
<1>2. QED
  BY <1>1, InitTypes, NextTypes, InitGrantInv, NextGrantInv, PTL DEF Spec

-----------------------------------------------------------------------------
(* The last administrator                                                  *)

\* Why AdminRemains holds: while only one assign_role is in progress, and nobody
\* takes the role from himself, the administrator who called it is still there.
AdminInv ==
  ~selfDemoted /\ ~overlapped =>
    /\ \E u \in Ids : IsAdmin(u)
    /\ \A c, d \in Calls : call[c].pc = "assign" /\ call[d].pc = "assign" => c = d
    /\ \A c \in Calls : call[c].pc = "assign" /\ call[c].role # "admin" =>
         \E v \in Ids : v # call[c].user /\ IsAdmin(v)

\* There are two administrators at first.
LEMMA InitAdminInv == Init => AdminInv
<1> SUFFICES ASSUME Init PROVE AdminInv
  OBVIOUS
<1>1. PICK p \in Passwords :
        users = <<Administrator(FirstAdmins[1], p), Administrator(FirstAdmins[2], p)>>
  BY AccountsAssumption DEF Init
<1>2. 1 \in Ids /\ users[1].role = "admin"
  BY <1>1 DEF Ids, Administrator
<1>3. QED
  BY <1>2 DEF AdminInv, Init, Idle, IsAdmin

\* A step that keeps every role, begins no assign_role and keeps its ghosts.
LEMMA KeepAdmins ==
  ASSUME Types, AdminInv, UNCHANGED <<selfDemoted, overlapped>>,
         Ids \subseteq Ids', \A u \in Ids : users'[u].role = users[u].role,
         \A c \in Calls : call'[c] = call[c] \/ call'[c].pc # "assign"
  PROVE  AdminInv'
BY DEF AdminInv, IsAdmin

\* A call of another kind begins.
LEMMA OtherCalls ==
  ASSUME Types, NEW c \in Calls,
         \/ InviteUser(c) \/ RegisterUser(c) \/ ChangePassword(c)
         \/ Login(c) \/ RefreshToken(c) \/ LogoutUser(c)
  PROVE  /\ UNCHANGED <<users, selfDemoted, overlapped>>
         /\ \A d \in Calls : call'[d] = call[d] \/ call'[d].pc # "assign"
<1>1. UNCHANGED <<users, selfDemoted, overlapped>>
  BY DEF InviteUser, RegisterUser, ChangePassword, Login, RefreshToken, LogoutUser,
     EnterSession
<1>2. ASSUME NEW new, Enter(c, new), new.pc # "assign"
      PROVE  \A d \in Calls : call'[d] = call[d] \/ call'[d].pc # "assign"
  BY <1>2 DEF Enter, Types
<1>3. CASE InviteUser(c)
  <2>1. PICK b \in Browsers, e \in Typed, r \in AllRoles, days \in 0 .. 1 :
          Enter(c, [pc |-> "invite", email |-> e, role |-> r, life |-> InvitationLife(days)])
    BY <1>3 DEF InviteUser
  <2>2. QED
    BY <1>1, <1>2, <2>1
<1>4. CASE RegisterUser(c)
  <2>1. PICK i \in invitations, p \in Passwords :
          Enter(c, [pc |-> "register", email |-> i.email, role |-> i.role,
                    password |-> p])
    BY <1>4 DEF RegisterUser
  <2>2. QED
    BY <1>1, <1>2, <2>1
<1>5. CASE ChangePassword(c)
  <2>1. PICK b \in Browsers, new \in Passwords :
          Enter(c, [pc |-> "password", user |-> CurrentUser(b), password |-> new])
    BY <1>5 DEF ChangePassword
  <2>2. QED
    BY <1>1, <1>2, <2>1
<1>6. CASE Login(c)
  <2>1. PICK b \in Browsers, e \in Typed, p \in Passwords : \E u \in Found(Lower(e)) :
          EnterSession(c, b, [pc |-> "login", browser |-> b, tokens |-> Pair(u)])
    BY <1>6 DEF Login
  <2>2. PICK u \in Found(Lower(e)) :
          Enter(c, [pc |-> "login", browser |-> b, tokens |-> Pair(u)])
    BY <2>1 DEF EnterSession
  <2>3. QED
    BY <1>1, <1>2, <2>2
<1>7. CASE RefreshToken(c)
  <2>1. PICK b \in Browsers : Enter(c, [pc |-> "refresh", browser |-> b,
                                        tokens |-> Pair(jar[b].refresh.user)])
    BY <1>7 DEF RefreshToken, EnterSession
  <2>2. QED
    BY <1>1, <1>2, <2>1
<1>8. CASE LogoutUser(c)
  <2>1. PICK b \in Browsers : Enter(c, [pc |-> "logout", browser |-> b])
    BY <1>8 DEF LogoutUser, EnterSession
  <2>2. QED
    BY <1>1, <1>2, <2>1
<1>9. QED
  BY <1>3, <1>4, <1>5, <1>6, <1>7, <1>8

\* An assign_role that takes the role away finds the caller an administrator, and
\* he is not the user he takes it from, unless he takes it from himself.
LEMMA AssignAdmins ==
  ASSUME Types, AdminInv, NEW c \in Calls, AssignRole(c)
  PROVE  AdminInv'
<1> SUFFICES ASSUME ~selfDemoted', ~overlapped'
             PROVE  /\ \E u \in Ids' : IsAdmin(u)'
                    /\ \A d, e \in Calls :
                         call'[d].pc = "assign" /\ call'[e].pc = "assign" => d = e
                    /\ \A d \in Calls : call'[d].pc = "assign" /\ call'[d].role # "admin"
                         => \E v \in Ids' : v # call'[d].user /\ IsAdmin(v)'
  BY DEF AdminInv
<1>1. PICK b \in Browsers, a \in Typed, r \in AllRoles : \E u \in Found(a) :
        /\ Authenticated(b) /\ IsAdmin(CurrentUser(b))
        /\ Enter(c, [pc |-> "assign", user |-> u, loaded |-> users[u].role, role |-> r])
        /\ selfDemoted' = (selfDemoted \/ (u = CurrentUser(b) /\ r # "admin"))
        /\ overlapped' = (overlapped \/ \E d \in Calls : call[d].pc = "assign")
  BY DEF AssignRole, MayAdminister
<1>2. PICK u \in Found(a) :
        /\ Authenticated(b) /\ IsAdmin(CurrentUser(b))
        /\ Enter(c, [pc |-> "assign", user |-> u, loaded |-> users[u].role, role |-> r])
        /\ selfDemoted' = (selfDemoted \/ (u = CurrentUser(b) /\ r # "admin"))
        /\ overlapped' = (overlapped \/ \E d \in Calls : call[d].pc = "assign")
  BY <1>1
<1>3. ~(u = CurrentUser(b) /\ r # "admin") /\ \A d \in Calls : call[d].pc # "assign"
  BY <1>2
<1>4. users' = users /\ Ids' = Ids /\ CurrentUser(b) \in Ids
  BY <1>2, RowTypes DEF AssignRole, Ids, Authenticated, CurrentUser
<1>5. /\ call'[c].user = u /\ call'[c].role = r
      /\ \A d \in Calls : d # c => call'[d] = call[d]
  BY <1>2 DEF Enter, Types
<1>6. IsAdmin(CurrentUser(b)) <=> users'[CurrentUser(b)].role = "admin"
  BY <1>4 DEF IsAdmin
<1>7. QED
  BY <1>2, <1>3, <1>4, <1>5, <1>6 DEF IsAdmin

\* AdminInv is inductive, given the types.
LEMMA NextAdminInv == Types /\ AdminInv /\ [Next]_vars => AdminInv'
<1> SUFFICES ASSUME Types, AdminInv, [Next]_vars PROVE AdminInv'
  OBVIOUS
<1>1. ASSUME NEW c \in Calls, Done(c)
      PROVE  \A d \in Calls : d # c => call'[d] = call[d]
  BY <1>1 DEF Done, Types
<1>2. ASSUME NEW c \in Calls, Done(c)
      PROVE  \A d \in Calls : call'[d] = call[d] \/ call'[d].pc # "assign"
  BY <1>2, DoneGrants
<1>3. ASSUME NEW c \in Calls, UpdateUserRole(c) PROVE AdminInv'
  <2>1. SUFFICES ASSUME ~selfDemoted, ~overlapped
                 PROVE  /\ \E u \in Ids' : IsAdmin(u)'
                        /\ \A d \in Calls : call'[d].pc # "assign"
    BY <1>3 DEF UpdateUserRole, AdminInv
  <2>2. /\ Done(c) /\ call[c].pc = "assign"
        /\ \A d \in Calls : call[d].pc = "assign" => d = c
        /\ \E u \in Ids : IsAdmin(u)
        /\ call[c].role # "admin" => \E v \in Ids : v # call[c].user /\ IsAdmin(v)
    BY <1>3, <2>1 DEF UpdateUserRole, AdminInv
  <2>3. \A d \in Calls : call'[d].pc # "assign"
    BY <2>2 DEF Done, Types, Idle
  <2>4. \E u \in Ids' : IsAdmin(u)'
    BY <1>3, <2>2, AssignedRow DEF IsAdmin
  <2>5. QED
    BY <2>3, <2>4
<1>4. ASSUME NEW c \in Calls, CreateUser(c) PROVE AdminInv'
  <2>1. PICK row \in Row : users' = Append(users, row)
    BY <1>4, CreatedRow
  <2>2. Ids \subseteq Ids' /\ \A v \in Ids : users'[v] = users[v]
    BY <2>1, RowTypes, RowAdded
  <2>3. QED
    BY <1>2, <1>4, <2>2, KeepAdmins DEF CreateUser
<1>5. ASSUME NEW c \in Calls, UpdateUserPassword(c) PROVE AdminInv'
  BY <1>2, <1>5, PasswordRow, KeepAdmins DEF UpdateUserPassword
<1>6. ASSUME NEW c \in Calls,
             \/ GenerateInviteLink(c) \/ CreateRefused(c)
             \/ SetTokenCookies(c) \/ DeleteTokenCookies(c)
      PROVE  AdminInv'
  <2>1. UNCHANGED <<users, ghosts>> /\ Done(c) /\ Ids' = Ids
    BY <1>6 DEF GenerateInviteLink, CreateRefused, SetTokenCookies, DeleteTokenCookies, Ids
  <2>2. QED
    BY <1>2, <2>1, KeepAdmins
<1>7. ASSUME NEW c \in Calls,
             \/ InviteUser(c) \/ RegisterUser(c) \/ ChangePassword(c)
             \/ Login(c) \/ RefreshToken(c) \/ LogoutUser(c)
      PROVE  AdminInv'
  BY <1>7, OtherCalls, KeepAdmins DEF Ids
<1>8. CASE Restart \/ Tick \/ UNCHANGED vars
  <2>1. UNCHANGED <<users, ghosts>> /\ Ids' = Ids
    BY <1>8 DEF Restart, Tick, vars, Ids
  <2>2. \A d \in Calls : call'[d] = call[d] \/ call'[d].pc # "assign"
    BY <1>8 DEF Restart, Tick, vars, Idle
  <2>3. QED
    BY <2>1, <2>2, KeepAdmins
<1>9. QED
  BY <1>3, <1>4, <1>5, <1>6, <1>7, <1>8, AssignAdmins DEF Next

\* Somebody stays an administrator, unless one gives up the role himself or two
\* assign_role are in progress together.
THEOREM AnAdminRemains == Spec => []AdminRemains
<1>1. AdminInv => AdminRemains
  BY DEF AdminInv, AdminRemains
<1>2. QED
  BY <1>1, InitTypes, NextTypes, InitAdminInv, NextAdminInv, PTL DEF Spec

-----------------------------------------------------------------------------
(* The sessions                                                            *)

\* Why LogoutHolds holds: while no two calls on a browser's session have met, the
\* only one in progress, if it renews the session, has found it open.
SessionInv ==
  /\ LogoutHolds
  /\ \A c, d \in Calls, b \in Browsers :
       b \notin raced /\ Concerns(call[c], b) /\ Concerns(call[d], b) => c = d
  /\ \A c \in Calls, b \in Browsers :
       b \notin raced /\ call[c].pc = "refresh" /\ call[c].browser = b
         => session[b] = "in"

\* Nobody is logged in.
LEMMA InitSessionInv == Init => SessionInv
BY DEF Init, SessionInv, LogoutHolds, Concerns, Idle

\* A step that leaves the cookies alone and begins no call on a session.
LEMMA KeepSessions ==
  ASSUME Types, SessionInv, UNCHANGED cookies,
         \A c \in Calls : \/ call'[c] = call[c]
                          \/ call'[c].pc \notin {"login", "refresh", "logout"}
  PROVE  SessionInv'
BY DEF SessionInv, LogoutHolds, Concerns

\* A call on a session begins: the browser is raced from then on if there is one
\* already, and a refresh finds tokens.
LEMMA EnterSessionInv ==
  ASSUME Types, SessionInv, NEW c \in Calls, NEW b \in Browsers, NEW new,
         EnterSession(c, b, new), Concerns(new, b),
         new.pc = "refresh" => Valid(jar[b].refresh)
  PROVE  SessionInv'
<1>1. /\ call'[c] = new /\ \A d \in Calls : d # c => call'[d] = call[d]
      /\ jar' = jar /\ session' = session
      /\ raced' = IF \E d \in Calls : Concerns(call[d], b) THEN raced \cup {b} ELSE raced
      /\ raced \subseteq raced'
  BY DEF EnterSession, Enter, Types
<1>2. LogoutHolds'
  BY <1>1 DEF SessionInv, LogoutHolds
<1>3. b \notin raced' => \A d \in Calls : ~Concerns(call[d], b)
  BY <1>1
<1>4. \A a \in Browsers : Concerns(new, a) => a = b
  BY DEF Concerns
<1>5. \A d, e \in Calls, a \in Browsers :
        a \notin raced' /\ Concerns(call'[d], a) /\ Concerns(call'[e], a) => d = e
  BY <1>1, <1>3, <1>4 DEF SessionInv
<1>6. new.pc = "refresh" /\ b \notin raced => session[b] = "in"
  <2>1. Valid(jar[b].refresh) => jar[b] # EmptyJar
    BY DEF Valid, EmptyJar
  <2>2. session[b] \in {"in", "out"}
    BY DEF Types
  <2>3. QED
    BY <2>1, <2>2 DEF SessionInv, LogoutHolds
<1>7. \A d \in Calls, a \in Browsers :
        a \notin raced' /\ call'[d].pc = "refresh" /\ call'[d].browser = a
          => session'[a] = "in"
  BY <1>1, <1>6 DEF SessionInv, Concerns
<1>8. QED
  BY <1>2, <1>5, <1>7 DEF SessionInv, Concerns

\* The answer of a login or a refresh sets both cookies.
LEMMA SetSessionInv ==
  ASSUME Types, SessionInv, NEW c \in Calls, SetTokenCookies(c)
  PROVE  SessionInv'
<1> DEFINE b == call[c].browser
<1>1. b \in Browsers /\ Concerns(call[c], b)
  BY CallKinds, RowTypes DEF SetTokenCookies, SetTokens, Concerns
<1>2. /\ \A d \in Calls : d # c => call'[d] = call[d]
      /\ call'[c].pc = "idle" /\ raced' = raced
      /\ \A a \in Browsers : a # b => jar'[a] = jar[a] /\ session'[a] = session[a]
  BY DEF SetTokenCookies, Done, Idle, Types
<1>3. /\ call[c].pc = "login" => session'[b] = "in"
      /\ call[c].pc # "login" => session'[b] = session[b] /\ call[c].pc = "refresh"
  BY <1>1 DEF SetTokenCookies, Types
<1>4. b \notin raced => session'[b] = "in"
  BY <1>1, <1>3 DEF SessionInv
<1> HIDE DEF b
<1>5. \A a \in Browsers : a \notin raced => session'[a] = "in" \/ a # b
  BY <1>4
<1>6. LogoutHolds'
  BY <1>2, <1>5 DEF SessionInv, LogoutHolds
<1>7. \A d \in Calls, a \in Browsers :
        a \notin raced /\ call'[d].pc = "refresh" /\ call'[d].browser = a
          => session'[a] = "in"
  BY <1>2, <1>5 DEF SessionInv
<1>8. \A d, e \in Calls, a \in Browsers :
        a \notin raced /\ Concerns(call'[d], a) /\ Concerns(call'[e], a) => d = e
  BY <1>2 DEF SessionInv, Concerns
<1>9. QED
  BY <1>2, <1>6, <1>7, <1>8 DEF SessionInv, Concerns

\* The answer of a logout deletes both cookies.
LEMMA DeleteSessionInv ==
  ASSUME Types, SessionInv, NEW c \in Calls, DeleteTokenCookies(c)
  PROVE  SessionInv'
<1> DEFINE b == call[c].browser
<1>1. b \in Browsers /\ Concerns(call[c], b) /\ call[c].pc = "logout"
  BY CallKinds, RowTypes DEF DeleteTokenCookies, Logout, Concerns
<1>2. /\ \A d \in Calls : d # c => call'[d] = call[d]
      /\ call'[c].pc = "idle"
      /\ raced' = IF \E d \in Calls \ {c} : Concerns(call[d], b)
                  THEN raced ELSE raced \ {b}
      /\ \A a \in Browsers : a # b => jar'[a] = jar[a] /\ session'[a] = session[a]
      /\ jar'[b] = EmptyJar
  BY <1>1 DEF DeleteTokenCookies, CookiesDeleted, Done, Idle, Types
<1>3. b \notin raced' => \A d \in Calls \ {c} : ~Concerns(call[d], b)
  BY <1>1, <1>2 DEF SessionInv
<1>4. \A a \in Browsers : a # b => (a \in raced' <=> a \in raced)
  BY <1>2
<1> HIDE DEF b
<1>5. LogoutHolds'
  BY <1>2, <1>4 DEF SessionInv, LogoutHolds
<1>6. \A d, e \in Calls, a \in Browsers :
        a \notin raced' /\ Concerns(call'[d], a) /\ Concerns(call'[e], a) => d = e
  BY <1>2, <1>3, <1>4 DEF SessionInv, Concerns
<1>7. \A d \in Calls, a \in Browsers :
        a \notin raced' /\ call'[d].pc = "refresh" /\ call'[d].browser = a
          => session'[a] = "in"
  BY <1>2, <1>3, <1>4 DEF SessionInv, Concerns
<1>8. QED
  BY <1>5, <1>6, <1>7 DEF SessionInv, Concerns

\* SessionInv is inductive, given the types.
LEMMA NextSessionInv == Types /\ SessionInv /\ [Next]_vars => SessionInv'
<1> SUFFICES ASSUME Types, SessionInv, [Next]_vars PROVE SessionInv'
  OBVIOUS
<1>1. ASSUME NEW c \in Calls, NEW new, Enter(c, new), UNCHANGED cookies,
             new.pc \notin {"login", "refresh", "logout"}
      PROVE  SessionInv'
  BY <1>1, KeepSessions DEF Enter, Types
<1>2. ASSUME NEW c \in Calls, InviteUser(c) PROVE SessionInv'
  <2>1. PICK b \in Browsers, e \in Typed, r \in AllRoles, days \in 0 .. 1 :
          Enter(c, [pc |-> "invite", email |-> e, role |-> r, life |-> InvitationLife(days)])
    BY <1>2 DEF InviteUser
  <2>2. QED
    BY <1>1, <1>2, <2>1 DEF InviteUser
<1>3. ASSUME NEW c \in Calls, RegisterUser(c) PROVE SessionInv'
  <2>1. PICK i \in invitations, p \in Passwords :
          Enter(c, [pc |-> "register", email |-> i.email, role |-> i.role,
                    password |-> p])
    BY <1>3 DEF RegisterUser
  <2>2. QED
    BY <1>1, <1>3, <2>1 DEF RegisterUser
<1>4. ASSUME NEW c \in Calls, AssignRole(c) PROVE SessionInv'
  <2>1. PICK b \in Browsers, e \in Typed, r \in AllRoles : \E u \in Found(e) :
          Enter(c, [pc |-> "assign", user |-> u, loaded |-> users[u].role,
                    role |-> r])
    BY <1>4 DEF AssignRole
  <2>2. QED
    BY <1>1, <1>4, <2>1 DEF AssignRole
<1>5. ASSUME NEW c \in Calls, ChangePassword(c) PROVE SessionInv'
  <2>1. PICK b \in Browsers, new \in Passwords :
          Enter(c, [pc |-> "password", user |-> CurrentUser(b), password |-> new])
    BY <1>5 DEF ChangePassword
  <2>2. QED
    BY <1>1, <1>5, <2>1 DEF ChangePassword
<1>6. ASSUME NEW c \in Calls, Login(c) PROVE SessionInv'
  <2>1. PICK b \in Browsers, e \in Typed, p \in Passwords : \E u \in Found(Lower(e)) :
          EnterSession(c, b, [pc |-> "login", browser |-> b, tokens |-> Pair(u)])
    BY <1>6 DEF Login
  <2>2. PICK u \in Found(Lower(e)) :
          EnterSession(c, b, [pc |-> "login", browser |-> b, tokens |-> Pair(u)])
    BY <2>1
  <2>3. Concerns([pc |-> "login", browser |-> b, tokens |-> Pair(u)], b)
    BY DEF Concerns
  <2>4. QED
    BY <2>2, <2>3, EnterSessionInv
<1>7. ASSUME NEW c \in Calls, RefreshToken(c) PROVE SessionInv'
  <2>1. PICK b \in Browsers :
          /\ Valid(jar[b].refresh)
          /\ EnterSession(c, b, [pc |-> "refresh", browser |-> b,
                                 tokens |-> Pair(jar[b].refresh.user)])
    BY <1>7 DEF RefreshToken
  <2>2. Concerns([pc |-> "refresh", browser |-> b,
                  tokens |-> Pair(jar[b].refresh.user)], b)
    BY DEF Concerns
  <2>3. QED
    BY <2>1, <2>2, EnterSessionInv
<1>8. ASSUME NEW c \in Calls, LogoutUser(c) PROVE SessionInv'
  <2>1. PICK b \in Browsers : EnterSession(c, b, [pc |-> "logout", browser |-> b])
    BY <1>8 DEF LogoutUser
  <2>2. Concerns([pc |-> "logout", browser |-> b], b)
    BY DEF Concerns
  <2>3. QED
    BY <2>1, <2>2, EnterSessionInv
<1>9. ASSUME NEW c \in Calls,
             \/ GenerateInviteLink(c) \/ CreateUser(c) \/ CreateRefused(c)
             \/ UpdateUserRole(c) \/ UpdateUserPassword(c)
      PROVE  SessionInv'
  <2>1. UNCHANGED cookies /\ Done(c)
    BY <1>9 DEF GenerateInviteLink, CreateUser, CreateRefused, UpdateUserRole,
       UpdateUserPassword
  <2>2. QED
    BY <2>1, DoneGrants, KeepSessions
<1>10. CASE Restart \/ Tick \/ UNCHANGED vars
  <2>1. UNCHANGED cookies
    BY <1>10 DEF Restart, Tick, vars
  <2>2. \A d \in Calls : call'[d] = call[d] \/ call'[d].pc = "idle"
    BY <1>10 DEF Restart, Tick, vars, Idle
  <2>3. QED
    BY <2>1, <2>2, KeepSessions
<1>11. QED
  BY <1>2, <1>3, <1>4, <1>5, <1>6, <1>7, <1>8, <1>9, <1>10, SetSessionInv,
     DeleteSessionInv DEF Next

\* After its logout a browser holds no token until it logs in again, unless a call
\* on its session was under way during the logout.
THEOREM LogoutIsFinal == Spec => []LogoutHolds
<1>1. SessionInv => LogoutHolds
  BY DEF SessionInv
<1>2. QED
  BY <1>1, InitTypes, NextTypes, InitSessionInv, NextSessionInv, PTL DEF Spec
=============================================================================
