------------------------------ MODULE Accounts ------------------------------
(***************************************************************************)
(* Accounts and the sessions they sign in with: the tables users, sessions *)
(* and oidc_login_codes, and the handlers that change them.                *)
(*                                                                         *)
(* The middleware resolves a token to an account and its role when a       *)
(* request arrives; the handler acts on that copy later.  Logins likewise  *)
(* check a password or a login code, then the setting or the account, and  *)
(* insert the session last.  Every step below is one statement or one      *)
(* transaction; a password is known by how many changes came before it.    *)
(***************************************************************************)
EXTENDS Integers

CONSTANTS
    Users, SessionIds, Codes, Requests,
    InitUsers,      \* accounts at start: user -> row or NoUser
    Roles,          \* of "admin", "manager", "user", "auditor"
    ClaimRoles,     \* roles the OIDC provider may claim; {} when OIDC is off
    AdminOps,       \* operations administrators use: "create", "update", "delete", "token", "revoke"
    Keep,           \* a field the administrator's update leaves out
    NoUser, NoSession, NoCode, Idle,
    MaxPassword     \* bound on password changes of an account

VARIABLES
    users,          \* user -> row
    sessions,       \* session id -> row
    codes,          \* oidc_login_codes: code -> user
    spent,          \* codes drawn so far; ids.Token never repeats one
    local_login,    \* the setting AllowLocalLogin
    req             \* goroutine -> the request it serves

vars == <<users, sessions, codes, spent, local_login, req>>

\* pw = 0: no password hash, an account that only OIDC knows.
User == [role : Roles, active : BOOLEAN, pw : 0..MaxPassword, source : {"local", "oidc"}]

\* code is the login code the session was granted for, if it was for one.
Session == [user : Users, ended : BOOLEAN, code : Codes \cup {NoCode}]

Update == [role : Roles \cup {Keep}, active : BOOLEAN \cup {Keep}, reset : BOOLEAN]

\* What a handler carries from its first step to the next.
Login == [kind : {"login"}, user : Users, role : Roles]
Callback == [kind : {"sync", "code"}, user : Users, claim : Roles]
RoleWrite == [kind : {"write"}, user : Users, claim : Roles, active : BOOLEAN]
Exchange == [kind : {"exchange"}, user : Users, code : Codes]
Grant == [kind : {"grant"}, user : Users, code : Codes \cup {NoCode}]
AdminUpdate == [kind : {"update"}, user : Users, change : Update]
OnAccount == [kind : {"delete", "end_sessions", "password"}, user : Users]
NewAccount == [kind : {"create"}, user : Users, role : Roles]
Revocation == [kind : {"revoke"}, session : SessionIds]

Request == Login \cup Callback \cup RoleWrite \cup Exchange \cup Grant \cup AdminUpdate
           \cup OnAccount \cup NewAccount \cup Revocation

ASSUME AccountsAssumption ==
    /\ MaxPassword \in Nat \ {0}
    /\ "admin" \in Roles /\ "user" \in Roles
    /\ ClaimRoles \subseteq Roles
    /\ InitUsers \in [Users -> User \cup {NoUser}]
    /\ NoUser \notin User /\ NoSession \notin Session
    /\ NoCode \notin Users \cup Codes
    /\ Idle \notin Request
    /\ Keep \notin Roles /\ Keep \notin BOOLEAN

\* Every variable has the type of its table or of its request record.
TypeOK ==
    /\ users \in [Users -> User \cup {NoUser}]
    /\ sessions \in [SessionIds -> Session \cup {NoSession}]
    /\ codes \in [Codes -> Users \cup {NoCode}]
    /\ spent \subseteq Codes
    /\ local_login \in BOOLEAN
    /\ req \in [Requests -> Request \cup {Idle}]

Init ==
    /\ users = InitUsers
    /\ sessions = [s \in SessionIds |-> NoSession]
    /\ codes = [k \in Codes |-> NoCode]
    /\ spent = {}
    /\ local_login = TRUE
    /\ req = [c \in Requests |-> Idle]

Active(u) == users[u] # NoUser /\ users[u].active
ActiveAdmin(u) == Active(u) /\ users[u].role = "admin"

\* SessionByToken.
Usable(s) == sessions[s] # NoSession /\ ~sessions[s].ended /\ Active(sessions[s].user)

\* The middleware: a request arrives with the token of session s.
Arrive(c, s, r) ==
    /\ req[c] = Idle
    /\ Usable(s)
    /\ req' = [req EXCEPT ![c] = r]

Continue(c, r) == req' = [req EXCEPT ![c] = r]
Answer(c) == Continue(c, Idle)
Serving(c, kind) == req[c] # Idle /\ req[c].kind = kind

\* CreateSession inserts a row under a fresh id, for any account.
CreateSession(u, code) ==
    \E s \in SessionIds :
        /\ sessions[s] = NoSession
        /\ sessions' = [sessions EXCEPT ![s] = [user |-> u, ended |-> FALSE, code |-> code]]

\* UPDATE sessions SET revoked_at=now() WHERE user_id=u AND revoked_at IS NULL.
SessionsEnded(u) ==
    [s \in SessionIds |->
        IF sessions[s] # NoSession /\ sessions[s].user = u
        THEN [sessions[s] EXCEPT !.ended = TRUE] ELSE sessions[s]]

-----------------------------------------------------------------------------
(* Local logins, /api/v1 and /v1 *)

\* login and baoUserpassLogin up to Authenticate, by a client with the password.
Authenticate(c, u) ==
    /\ req[c] = Idle
    /\ Active(u)
    /\ users[u].pw > 0
    /\ Continue(c, [kind |-> "login", user |-> u, role |-> users[u].role])
    /\ UNCHANGED <<users, sessions, codes, spent, local_login>>

\* SecurityConfig is read for AllowLocalLogin; the account is not read again.
CheckLocalLogin(c) ==
    /\ Serving(c, "login")
    /\ local_login \/ req[c].role = "admin"
    /\ Continue(c, [kind |-> "grant", user |-> req[c].user, code |-> NoCode])
    /\ UNCHANGED <<users, sessions, codes, spent, local_login>>

\* The INSERT that ends logins, exchanges and token requests: whatever was
\* checked before, it needs only that the account exists (a foreign key).
GrantSession(c) ==
    /\ Serving(c, "grant")
    /\ users[req[c].user] # NoUser
    /\ CreateSession(req[c].user, req[c].code)
    /\ Answer(c)
    /\ UNCHANGED <<users, codes, spent, local_login>>

SetLocalLogin ==
    /\ local_login' = ~local_login
    /\ UNCHANGED <<users, sessions, codes, spent, req>>

-----------------------------------------------------------------------------
(* OIDC logins *)

\* oidcCallback up to UpsertOIDCUser, for a verified ID token that claims role.
\* An account that became local no longer matches, and its username is taken.
UpsertOIDCUser(c, u, claim) ==
    LET row == IF users[u] = NoUser
               THEN [role |-> "user", active |-> TRUE, pw |-> 0, source |-> "oidc"]
               ELSE users[u]
    IN
    /\ req[c] = Idle
    /\ row.source = "oidc"
    /\ users' = [users EXCEPT ![u] = row]
    /\ Continue(c, [kind |-> IF claim = row.role THEN "code" ELSE "sync", user |-> u, claim |-> claim])
    /\ UNCHANGED <<sessions, codes, spent, local_login>>

\* UpdateUser, for the role synchronisation: a GetUser ...
ReadForUpdate(c) ==
    /\ Serving(c, "sync")
    /\ Continue(c, [kind |-> "write", user |-> req[c].user, claim |-> req[c].claim,
                    active |-> users[req[c].user].active])
    /\ UNCHANGED <<users, sessions, codes, spent, local_login>>

\* ... and an UPDATE that writes the claimed role and the active it read.
UpdateUser(c) ==
    /\ Serving(c, "write")
    /\ users' = [users EXCEPT ![req[c].user].role = req[c].claim, ![req[c].user].active = req[c].active]
    /\ Continue(c, [kind |-> "code", user |-> req[c].user, claim |-> req[c].claim])
    /\ UNCHANGED <<sessions, codes, spent, local_login>>

CreateOIDCLoginCode(c) ==
    /\ Serving(c, "code")
    /\ \E k \in Codes \ spent :
           /\ codes' = [codes EXCEPT ![k] = req[c].user]
           /\ spent' = spent \cup {k}
    /\ Answer(c)
    /\ UNCHANGED <<users, sessions, local_login>>

\* Mutant: a SELECT of the code, which leaves the row.
PeekOIDCLoginCode(c, k) ==
    /\ req[c] = Idle
    /\ codes[k] # NoCode
    /\ Continue(c, [kind |-> "exchange", user |-> codes[k], code |-> k])
    /\ UNCHANGED <<users, sessions, codes, spent, local_login>>

\* oidcExchange: DELETE ... RETURNING of a code that has not expired.
ConsumeOIDCLoginCode(c, k) ==
    /\ req[c] = Idle
    /\ codes[k] # NoCode
    /\ codes' = [codes EXCEPT ![k] = NoCode]
    /\ Continue(c, [kind |-> "exchange", user |-> codes[k], code |-> k])
    /\ UNCHANGED <<users, sessions, spent, local_login>>

\* ... then GetUser: only an active account goes on to its session.
CheckExchange(c) ==
    /\ Serving(c, "exchange")
    /\ Active(req[c].user)
    /\ Continue(c, [kind |-> "grant", user |-> req[c].user, code |-> req[c].code])
    /\ UNCHANGED <<users, sessions, codes, spent, local_login>>

ExpireCode(k) ==
    /\ codes[k] # NoCode
    /\ codes' = [codes EXCEPT ![k] = NoCode]
    /\ UNCHANGED <<users, sessions, spent, local_login, req>>

-----------------------------------------------------------------------------
(* Requests of a signed-in account on itself *)

\* logout, baoRevokeSelf, revokeToken of an own session; also expires_at passing.
EndSession(s) ==
    /\ sessions[s] # NoSession /\ ~sessions[s].ended
    /\ sessions' = [sessions EXCEPT ![s].ended = TRUE]
    /\ UNCHANGED <<users, codes, spent, local_login, req>>

ChangeMyPassword(c, s) ==
    /\ Arrive(c, s, [kind |-> "password", user |-> sessions[s].user])
    /\ UNCHANGED <<users, sessions, codes, spent, local_login>>

\* Mutant: the sessions of the account stay.
ChangePasswordOnly(c) ==
    /\ Serving(c, "password")
    /\ LET u == req[c].user IN
       /\ users[u].pw \in 1..(MaxPassword - 1)
       /\ users' = [users EXCEPT ![u].pw = @ + 1, ![u].source = "local"]
       /\ UNCHANGED sessions
    /\ Answer(c)
    /\ UNCHANGED <<codes, spent, local_login>>

\* ChangePassword: the client proves the current password; the account becomes
\* local and all its sessions end, in one transaction.
ChangePassword(c) ==
    /\ Serving(c, "password")
    /\ LET u == req[c].user IN
       /\ users[u].pw \in 1..(MaxPassword - 1)      \* bound MaxPassword
       /\ users' = [users EXCEPT ![u].pw = @ + 1, ![u].source = "local"]
       /\ sessions' = SessionsEnded(u)
    /\ Answer(c)
    /\ UNCHANGED <<codes, spent, local_login>>

\* createToken and baoTokenCreate: for oneself, or for anyone by an administrator.
CreateToken(c, s, u) ==
    /\ Arrive(c, s, [kind |-> "grant", user |-> u, code |-> NoCode])
    /\ u # sessions[s].user => users[sessions[s].user].role = "admin" /\ "token" \in AdminOps
    /\ UNCHANGED <<users, sessions, codes, spent, local_login>>

-----------------------------------------------------------------------------
(* Administration *)

\* The middleware lets an administrator's request in.
AdminArrives(c, s, op, r) ==
    /\ op \in AdminOps
    /\ Arrive(c, s, r)
    /\ users[sessions[s].user].role = "admin"
    /\ UNCHANGED <<users, sessions, codes, spent, local_login>>

\* createUser.
StartCreate(c, s, u, role) == AdminArrives(c, s, "create", [kind |-> "create", user |-> u, role |-> role])

CreateUser(c) ==
    /\ Serving(c, "create")
    /\ users[req[c].user] = NoUser                   \* username is unique
    /\ users' = [users EXCEPT ![req[c].user] =
           [role |-> req[c].role, active |-> TRUE, pw |-> 1, source |-> "local"]]
    /\ Answer(c)
    /\ UNCHANGED <<sessions, codes, spent, local_login>>

\* updateUser, with validateAdminActor.
StartUpdate(c, s, u, change) ==
    /\ AdminArrives(c, s, "update", [kind |-> "update", user |-> u, change |-> change])
    /\ u # sessions[s].user

\* Mutant: the number of active administrators is not looked at.
AnyAdminMayGo(u, role, active) == TRUE

\* validateActiveAdminInvariant: the count of active administrators, which
\* includes u, is at most 1 exactly when u is the only one.
AdminInvariantHolds(u, role, active) ==
    (ActiveAdmin(u) /\ (role # "admin" \/ ~active)) =>
        \E a \in Users \ {u} : ActiveAdmin(a)

\* Mutant: a field the client left out is written as it came.
WrittenAsSent(sent, stored) == sent

\* A field the client left out keeps its value.
Merged(sent, stored) == IF sent = Keep THEN stored ELSE sent

\* UpdateUserAsAdmin, whose transaction locks the active administrators.  A new
\* password makes the account local and ends its sessions.
UpdateUserAsAdmin(c) ==
    LET r == req[c]
        row == users[r.user]
        role == Merged(r.change.role, row.role)
        active == Merged(r.change.active, row.active)
    IN
    /\ Serving(c, "update")
    /\ row # NoUser
    /\ AdminInvariantHolds(r.user, role, active)
    /\ r.change.reset => row.pw < MaxPassword        \* bound MaxPassword
    /\ users' = [users EXCEPT ![r.user] =
           [role |-> role, active |-> active,
            pw |-> IF r.change.reset THEN row.pw + 1 ELSE row.pw,
            source |-> IF r.change.reset THEN "local" ELSE row.source]]
    /\ sessions' = IF r.change.reset THEN SessionsEnded(r.user) ELSE sessions
    /\ Answer(c)
    /\ UNCHANGED <<codes, spent, local_login>>

\* deleteUser: not oneself.
StartDelete(c, s, u) ==
    /\ AdminArrives(c, s, "delete", [kind |-> "delete", user |-> u])
    /\ u # sessions[s].user

\* DeleteUser deactivates the account in one statement ...
DeleteUser(c) ==
    /\ Serving(c, "delete")
    /\ users[req[c].user] # NoUser
    /\ users' = [users EXCEPT ![req[c].user].active = FALSE]
    /\ Continue(c, [kind |-> "end_sessions", user |-> req[c].user])
    /\ UNCHANGED <<sessions, codes, spent, local_login>>

\* ... and ends its sessions in another, whose error is ignored (GiveUp).
EndDeletedSessions(c) ==
    /\ Serving(c, "end_sessions")
    /\ sessions' = SessionsEnded(req[c].user)
    /\ Answer(c)
    /\ UNCHANGED <<users, codes, spent, local_login>>

\* revokeToken by an administrator.
StartRevoke(c, s, t) == AdminArrives(c, s, "revoke", [kind |-> "revoke", session |-> t])

RevokeSessionByID(c) ==
    /\ Serving(c, "revoke")
    /\ sessions[req[c].session] # NoSession /\ ~sessions[req[c].session].ended
    /\ sessions' = [sessions EXCEPT ![req[c].session].ended = TRUE]
    /\ Answer(c)
    /\ UNCHANGED <<users, codes, spent, local_login>>

\* An error answer, a client that left, a statement that failed.
GiveUp(c) ==
    /\ req[c] # Idle
    /\ Answer(c)
    /\ UNCHANGED <<users, sessions, codes, spent, local_login>>

-----------------------------------------------------------------------------

Accept(c) ==
    \/ \E u \in Users : Authenticate(c, u)
    \/ \E u \in Users, claim \in ClaimRoles : UpsertOIDCUser(c, u, claim)
    \/ \E k \in Codes : ConsumeOIDCLoginCode(c, k)
    \/ \E s \in SessionIds :
           \/ ChangeMyPassword(c, s)
           \/ \E u \in Users : CreateToken(c, s, u)
           \/ \E u \in Users, role \in Roles : StartCreate(c, s, u, role)
           \/ \E u \in Users, change \in Update : StartUpdate(c, s, u, change)
           \/ \E u \in Users : StartDelete(c, s, u)
           \/ \E t \in SessionIds : StartRevoke(c, s, t)

Serve(c) ==
    \/ CheckLocalLogin(c)
    \/ GrantSession(c)
    \/ ReadForUpdate(c)
    \/ UpdateUser(c)
    \/ CreateOIDCLoginCode(c)
    \/ CheckExchange(c)
    \/ ChangePassword(c)
    \/ CreateUser(c)
    \/ UpdateUserAsAdmin(c)
    \/ DeleteUser(c)
    \/ EndDeletedSessions(c)
    \/ RevokeSessionByID(c)
    \/ GiveUp(c)

Next ==
    \/ \E c \in Requests : Accept(c) \/ Serve(c)
    \/ \E s \in SessionIds : EndSession(s)
    \/ \E k \in Codes : ExpireCode(k)
    \/ SetLocalLogin

Spec == Init /\ [][Next]_vars

-----------------------------------------------------------------------------
(* Properties *)

\* "At least one active administrator is required"
\* (validateActiveAdminInvariant): two administrators who act on each other at
\* the same time, each with a role the middleware read earlier, do not leave
\* the system without one.
AdminRemains == \E u \in Users : ActiveAdmin(u)

\* Whose password changes keeps no session that its client could go on using.
SessionsGone ==
    \A u \in Users, s \in SessionIds :
        (users[u] # NoUser /\ users'[u].pw # users[u].pw /\ sessions'[s] # NoSession) =>
            sessions'[s].user # u \/ sessions'[s].ended

\* A password change, by the account or by an administrator, leaves no session
\* of the account that its client could go on using (ChangePassword,
\* UpdateUserAsAdmin).
PasswordChangeEndsSessions == [][SessionsGone]_vars

\* One OIDC login code grants one session: at any time a code is a row of the
\* table, or in the hands of one exchange, or was turned into one session, or
\* is lost, and never two of these.
CodeSpentOnce ==
    \A k \in Codes :
        LET takers == {c \in Requests : (Serving(c, "exchange") \/ Serving(c, "grant")) /\ req[c].code = k}
            granted == {s \in SessionIds : sessions[s] # NoSession /\ sessions[s].code = k}
        IN  /\ codes[k] # NoCode => takers = {} /\ granted = {}
            /\ takers # {} => granted = {}
            /\ \A c, d \in takers : c = d
            /\ \A s, t \in granted : s = t
            /\ k \notin spent => codes[k] = NoCode /\ takers = {} /\ granted = {}

=============================================================================
