--------------------------- MODULE AccountsProofs ---------------------------
(***************************************************************************)
(* Accounts and sessions, for any number of users, sessions, login codes   *)
(* and requests: a login code grants at most one session, a password       *)
(* change leaves no session behind, and, where neither OIDC nor deletion   *)
(* writes accounts past validateActiveAdminInvariant, an administrator     *)
(* remains.  At the end, the limiter that local logins pass first.         *)
(***************************************************************************)
EXTENDS Accounts, LoginLimiter, FiniteSetTheorems, TLAPS

\* Requests that go on to write or read a row of users they have seen.
Knowing == {"login", "sync", "write", "code", "password", "end_sessions"}

\* Accounts are never removed: who was seen is still there.
Known == \A c \in Requests : req[c] # Idle /\ req[c].kind \in Knowing => users[req[c].user] # NoUser

Takes(c, k) == req[c] # Idle /\ req[c].kind \in {"exchange", "grant"} /\ req[c].code = k
Has(s, k) == sessions[s] # NoSession /\ sessions[s].code = k

\* CodeSpentOnce without its sets.
CodeOnce ==
    \A k \in Codes :
        /\ codes[k] # NoCode \/ k \notin spent => \A c \in Requests : ~Takes(c, k)
        /\ codes[k] # NoCode \/ k \notin spent => \A s \in SessionIds : ~Has(s, k)
        /\ k \notin spent => codes[k] = NoCode
        /\ \A c \in Requests, s \in SessionIds : ~(Takes(c, k) /\ Has(s, k))
        /\ \A c, d \in Requests : Takes(c, k) /\ Takes(d, k) => c = d
        /\ \A s, t \in SessionIds : Has(s, k) /\ Has(t, k) => s = t

\* The inductive invariant.
IInv == TypeOK /\ Known /\ CodeOnce

\* Where roles do not come from OIDC and nobody is deleted, ...
OnlyAdmins == ClaimRoles = {} /\ "delete" \notin AdminOps

\* ... no request writes past validateActiveAdminInvariant.
Guarded == \A c \in Requests : req[c] # Idle => req[c].kind \notin {"sync", "write", "delete"}

\* What every step does.
StepOK ==
    /\ IInv' /\ SessionsGone
    /\ OnlyAdmins /\ Guarded => Guarded'
    /\ OnlyAdmins /\ Guarded /\ AdminRemains => AdminRemains'

-----------------------------------------------------------------------------
\* The parts of a step.

UsersGrow ==
    /\ users' \in [Users -> User \cup {NoUser}]
    /\ \A u \in Users : users[u] # NoUser => users'[u] # NoUser

PasswordsKept == \A u \in Users : users[u] # NoUser => users'[u].pw = users[u].pw

\* Sessions are as before, but some may have ended.
SameSessions ==
    /\ sessions' \in [SessionIds -> Session \cup {NoSession}]
    /\ \A s \in SessionIds : sessions'[s] # NoSession => sessions[s] # NoSession /\ sessions'[s].code = sessions[s].code

\* A request is served or goes on, and stays what the invariant says.
LEMMA RequestStep ==
    ASSUME IInv, UsersGrow, NEW c \in Requests, NEW new \in Request \cup {Idle},
           req' = [req EXCEPT ![c] = new],
           new # Idle /\ new.kind \in Knowing => users'[new.user] # NoUser,
           OnlyAdmins /\ Guarded /\ new # Idle => new.kind \notin {"sync", "write", "delete"}
    PROVE  /\ req' \in [Requests -> Request \cup {Idle}] /\ Known'
           /\ OnlyAdmins /\ Guarded => Guarded'
           /\ (new # Idle /\ new.kind \in {"exchange", "grant"} => new.code = NoCode \/ Takes(c, new.code)) =>
                  \A d \in Requests, k \in Codes : Takes(d, k)' => Takes(d, k)
<1>1. \A d \in Requests : req'[d] = IF d = c THEN new ELSE req[d]
  BY DEF IInv, TypeOK
<1>2. req' \in [Requests -> Request \cup {Idle}]
  BY DEF IInv, TypeOK
<1>3. \A d \in Requests : req[d] # Idle /\ req[d].kind \in Knowing => req[d].user \in Users
  BY DEF IInv, TypeOK, Knowing, Request, Login, Callback, RoleWrite, Exchange, Grant, AdminUpdate, OnAccount, NewAccount, Revocation
<1>4. Known'
  BY <1>1, <1>3 DEF IInv, Known, UsersGrow
<1>5. OnlyAdmins /\ Guarded => Guarded'
  BY <1>1 DEF Guarded
<1>6. (new # Idle /\ new.kind \in {"exchange", "grant"} => new.code = NoCode \/ Takes(c, new.code)) =>
          \A d \in Requests, k \in Codes : Takes(d, k)' => Takes(d, k)
  BY <1>1, AccountsAssumption DEF Takes
<1>7. QED BY <1>2, <1>4, <1>5, <1>6

\* Codes that only go away, and neither a new taker nor a new grant.
LEMMA CodesQuiet ==
    ASSUME IInv, spent' = spent, \A k \in Codes : codes'[k] \in {codes[k], NoCode},
           \A d \in Requests, k \in Codes : Takes(d, k)' => Takes(d, k),
           \A s \in SessionIds, k \in Codes : Has(s, k)' => Has(s, k)
    PROVE  CodeOnce'
BY DEF IInv, CodeOnce

\* A step that leaves the tables.
LEMMA OnlyRequest ==
    ASSUME IInv, NEW c \in Requests, NEW new \in Request \cup {Idle},
           req' = [req EXCEPT ![c] = new], UNCHANGED <<users, sessions, codes, spent, local_login>>,
           new # Idle /\ new.kind \in {"exchange", "grant"} => new.code = NoCode \/ Takes(c, new.code),
           new # Idle /\ new.kind \in Knowing => users[new.user] # NoUser,
           OnlyAdmins /\ Guarded /\ new # Idle => new.kind \notin {"sync", "write", "delete"}
    PROVE  StepOK
<1>1. UsersGrow
  BY DEF UsersGrow, IInv, TypeOK
<1>2. /\ req' \in [Requests -> Request \cup {Idle}] /\ Known'
      /\ OnlyAdmins /\ Guarded => Guarded'
      /\ \A d \in Requests, k \in Codes : Takes(d, k)' => Takes(d, k)
  BY <1>1, RequestStep
<1>3. CodeOnce'
  BY <1>2, CodesQuiet DEF Has
<1>4. TypeOK'
  BY <1>2 DEF IInv, TypeOK
<1>5. SessionsGone /\ (AdminRemains => AdminRemains')
  BY DEF SessionsGone, AdminRemains, ActiveAdmin, Active
<1>6. QED BY <1>2, <1>3, <1>4, <1>5 DEF StepOK, IInv

\* A step that writes accounts, and may end sessions.
LEMMA AccountStep ==
    ASSUME IInv, UsersGrow, SameSessions, NEW c \in Requests, NEW new \in Request \cup {Idle},
           req' = [req EXCEPT ![c] = new], UNCHANGED <<codes, spent, local_login>>,
           new # Idle /\ new.kind \in {"exchange", "grant"} => new.code = NoCode \/ Takes(c, new.code),
           new # Idle /\ new.kind \in Knowing => users'[new.user] # NoUser,
           OnlyAdmins /\ Guarded /\ new # Idle => new.kind \notin {"sync", "write", "delete"},
           SessionsGone, OnlyAdmins /\ Guarded /\ AdminRemains => AdminRemains'
    PROVE  StepOK
<1>2. /\ req' \in [Requests -> Request \cup {Idle}] /\ Known'
      /\ OnlyAdmins /\ Guarded => Guarded'
      /\ \A d \in Requests, k \in Codes : Takes(d, k)' => Takes(d, k)
  BY RequestStep
<1>3. CodeOnce'
  BY <1>2, CodesQuiet DEF Has, SameSessions
<1>4. TypeOK'
  BY <1>2 DEF IInv, TypeOK, UsersGrow, SameSessions
<1>6. QED BY <1>2, <1>3, <1>4 DEF StepOK, IInv

\* A step on sessions and codes, at accounts that stay.
LEMMA SessionStep ==
    ASSUME IInv, NEW c \in Requests, Answer(c), UNCHANGED <<users, codes, spent, local_login>>,
           SameSessions
    PROVE  StepOK
<1>1. UsersGrow /\ SessionsGone /\ (AdminRemains => AdminRemains')
  BY DEF UsersGrow, IInv, TypeOK, SessionsGone, AdminRemains, ActiveAdmin, Active
<1>2. QED BY <1>1, AccountStep DEF Answer, Continue

-----------------------------------------------------------------------------
\* Requests that arrive.

\* The middleware lets a request in: its session's account is there and active.
LEMMA Arrived ==
    ASSUME IInv, NEW c \in Requests, NEW s \in SessionIds, NEW r, Arrive(c, s, r)
    PROVE  sessions[s].user \in Users /\ users[sessions[s].user] # NoUser /\ req' = [req EXCEPT ![c] = r]
BY DEF Arrive, Usable, Active, IInv, TypeOK, Session

LEMMA AuthenticateStep ==
    ASSUME IInv, NEW c \in Requests, NEW u \in Users, Authenticate(c, u)
    PROVE  StepOK
<1> DEFINE new == [kind |-> "login", user |-> u, role |-> users[u].role]
<1>1. users[u] # NoUser /\ req' = [req EXCEPT ![c] = new] /\ UNCHANGED <<users, sessions, codes, spent, local_login>>
  BY DEF Authenticate, Active, Continue
<1>2. new \in Login
  BY <1>1 DEF IInv, TypeOK, User, Login
<1>3. new \in Request /\ new.kind = "login" /\ new.user = u
  BY <1>2 DEF Request
<1> HIDE DEF new
<1>4. QED BY <1>1, <1>3, OnlyRequest

LEMMA ReadForUpdateStep ==
    ASSUME IInv, NEW c \in Requests, ReadForUpdate(c)
    PROVE  StepOK
<1> DEFINE r == req[c]
           new == [kind |-> "write", user |-> r.user, claim |-> r.claim, active |-> users[r.user].active]
<1>1. r # Idle /\ r.kind = "sync" /\ req' = [req EXCEPT ![c] = new] /\ UNCHANGED <<users, sessions, codes, spent, local_login>>
  BY DEF ReadForUpdate, Serving, Continue
<1>2. r \in Callback
  BY <1>1 DEF IInv, TypeOK, Request, Login, Callback, RoleWrite, Exchange, Grant, AdminUpdate, OnAccount, NewAccount, Revocation
<1>3. users[r.user] \in User
  BY <1>1, <1>2 DEF IInv, TypeOK, Known, Knowing, Callback
<1>4. new \in RoleWrite
  BY <1>2, <1>3 DEF Callback, RoleWrite, User
<1>5. new \in Request /\ new.kind = "write" /\ new.user = r.user
  BY <1>4 DEF Request
<1>6. users[r.user] # NoUser /\ ~Guarded
  BY <1>1 DEF IInv, Known, Knowing, Guarded
<1> HIDE DEF new
<1>7. QED BY <1>1, <1>5, <1>6, OnlyRequest

LEMMA ChangeMyPasswordStep ==
    ASSUME IInv, NEW c \in Requests, NEW s \in SessionIds, ChangeMyPassword(c, s)
    PROVE  StepOK
<1> DEFINE new == [kind |-> "password", user |-> sessions[s].user]
<1>1. /\ users[sessions[s].user] # NoUser /\ req' = [req EXCEPT ![c] = new] /\ sessions[s].user \in Users
      /\ UNCHANGED <<users, sessions, codes, spent, local_login>>
  BY Arrived DEF ChangeMyPassword
<1>2. new \in Request /\ new.kind = "password" /\ new.user = sessions[s].user
  BY <1>1 DEF Request, OnAccount
<1> HIDE DEF new
<1>3. QED BY <1>1, <1>2, OnlyRequest

LEMMA CreateTokenStep ==
    ASSUME IInv, NEW c \in Requests, NEW s \in SessionIds, NEW u \in Users, CreateToken(c, s, u)
    PROVE  StepOK
<1> DEFINE new == [kind |-> "grant", user |-> u, code |-> NoCode]
<1>1. req' = [req EXCEPT ![c] = new] /\ UNCHANGED <<users, sessions, codes, spent, local_login>>
  BY Arrived DEF CreateToken
<1>2. new \in Request /\ new.kind = "grant" /\ new.code = NoCode
  BY DEF Request, Grant
<1> HIDE DEF new
<1>3. QED BY <1>1, <1>2, OnlyRequest DEF Knowing

\* An administrator's request, of a kind that looks at the account itself.
LEMMA AdminArrivesStep ==
    ASSUME IInv, NEW c \in Requests, NEW s \in SessionIds, NEW op, NEW new \in Request,
           AdminArrives(c, s, op, new), new.kind \in {"create", "update", "delete", "revoke"}, new.kind = op
    PROVE  StepOK
<1>1. req' = [req EXCEPT ![c] = new] /\ op \in AdminOps /\ UNCHANGED <<users, sessions, codes, spent, local_login>>
  BY Arrived DEF AdminArrives
<1>2. new.kind \notin Knowing /\ new.kind \notin {"exchange", "grant"} /\ (OnlyAdmins => new.kind \notin {"sync", "write", "delete"})
  BY <1>1 DEF Knowing, OnlyAdmins
<1>3. QED BY <1>1, <1>2, OnlyRequest

LEMMA StartStep ==
    ASSUME IInv, NEW c \in Requests, NEW s \in SessionIds,
           \/ \E u \in Users, role \in Roles : StartCreate(c, s, u, role)
           \/ \E u \in Users, change \in Update : StartUpdate(c, s, u, change)
           \/ \E u \in Users : StartDelete(c, s, u)
           \/ \E t \in SessionIds : StartRevoke(c, s, t)
    PROVE  StepOK
<1>1. ASSUME NEW u \in Users, NEW role \in Roles, StartCreate(c, s, u, role) PROVE StepOK
  <2> DEFINE new == [kind |-> "create", user |-> u, role |-> role]
  <2>1. new \in Request /\ new.kind = "create"
    BY DEF Request, NewAccount
  <2>2. AdminArrives(c, s, "create", new)
    BY <1>1 DEF StartCreate
  <2> HIDE DEF new
  <2>3. QED BY <2>1, <2>2, AdminArrivesStep
<1>2. ASSUME NEW u \in Users, NEW change \in Update, StartUpdate(c, s, u, change) PROVE StepOK
  <2> DEFINE new == [kind |-> "update", user |-> u, change |-> change]
  <2>1. new \in Request /\ new.kind = "update"
    BY DEF Request, AdminUpdate
  <2>2. AdminArrives(c, s, "update", new)
    BY <1>2 DEF StartUpdate
  <2> HIDE DEF new
  <2>3. QED BY <2>1, <2>2, AdminArrivesStep
<1>3. ASSUME NEW u \in Users, StartDelete(c, s, u) PROVE StepOK
  <2> DEFINE new == [kind |-> "delete", user |-> u]
  <2>1. new \in Request /\ new.kind = "delete"
    BY DEF Request, OnAccount
  <2>2. AdminArrives(c, s, "delete", new)
    BY <1>3 DEF StartDelete
  <2> HIDE DEF new
  <2>3. QED BY <2>1, <2>2, AdminArrivesStep
<1>4. ASSUME NEW t \in SessionIds, StartRevoke(c, s, t) PROVE StepOK
  <2> DEFINE new == [kind |-> "revoke", session |-> t]
  <2>1. new \in Request /\ new.kind = "revoke"
    BY DEF Request, Revocation
  <2>2. AdminArrives(c, s, "revoke", new)
    BY <1>4 DEF StartRevoke
  <2> HIDE DEF new
  <2>3. QED BY <2>1, <2>2, AdminArrivesStep
<1>5. QED BY <1>1, <1>2, <1>3, <1>4

LEMMA GiveUpStep ==
    ASSUME IInv, NEW c \in Requests, GiveUp(c)
    PROVE  StepOK
BY OnlyRequest DEF GiveUp, Answer, Continue

-----------------------------------------------------------------------------
\* Sessions.

LEMMA SessionsEndedOf ==
    ASSUME IInv, NEW u \in Users, sessions' = SessionsEnded(u)
    PROVE  SameSessions /\ \A s \in SessionIds : sessions'[s] # NoSession => sessions'[s].user # u \/ sessions'[s].ended
<1>1. \A s \in SessionIds : sessions'[s] = IF sessions[s] # NoSession /\ sessions[s].user = u
                                           THEN [sessions[s] EXCEPT !.ended = TRUE] ELSE sessions[s]
  BY DEF SessionsEnded
<1>2. ASSUME NEW s \in SessionIds
      PROVE  /\ sessions'[s] \in Session \cup {NoSession}
             /\ sessions'[s] # NoSession => /\ sessions[s] # NoSession /\ sessions'[s].code = sessions[s].code
                                            /\ sessions'[s].user # u \/ sessions'[s].ended
  <2>1. sessions[s] \in Session \cup {NoSession}
    BY DEF IInv, TypeOK
  <2>2. CASE sessions[s] # NoSession /\ sessions[s].user = u
    <3> DEFINE old == sessions[s]
               new == [old EXCEPT !.ended = TRUE]
    <3>1. new \in Session /\ new.code = old.code /\ new.ended
      BY <2>1, <2>2, Zenon DEF Session
    <3>2. sessions'[s] = new
      BY <1>1, <2>2, Zenon
    <3> HIDE DEF new
    <3>3. QED BY <2>2, <3>1, <3>2, Zenon
  <2>3. CASE ~(sessions[s] # NoSession /\ sessions[s].user = u)
    <3>1. sessions'[s] = sessions[s]
      BY <1>1, <2>3, Zenon
    <3>2. QED BY <2>1, <2>3, <3>1
  <2>4. QED BY <2>2, <2>3
<1>3. sessions' \in [SessionIds -> Session \cup {NoSession}]
  <2>1. sessions' = [s \in SessionIds |-> sessions'[s]]
    BY DEF SessionsEnded
  <2>2. QED BY <1>2, <2>1
<1>4. QED BY <1>2, <1>3, Zenon DEF SameSessions

LEMMA OneEnded ==
    ASSUME IInv, NEW s \in SessionIds, sessions[s] # NoSession, sessions' = [sessions EXCEPT ![s].ended = TRUE]
    PROVE  SameSessions
<1> DEFINE old == sessions[s]
           new == [old EXCEPT !.ended = TRUE]
<1>1. old \in Session
  BY DEF IInv, TypeOK
<1>2. new \in Session /\ new.code = old.code
  BY <1>1, Zenon DEF Session
<1>3. sessions' = [sessions EXCEPT ![s] = new]
  BY Zenon
<1> HIDE DEF new
<1>4. QED BY <1>2, <1>3 DEF IInv, TypeOK, SameSessions

LEMMA EndSessionStep ==
    ASSUME IInv, NEW s \in SessionIds, EndSession(s)
    PROVE  StepOK
<1>1. SameSessions /\ UNCHANGED <<users, codes, spent, local_login, req>>
  BY OneEnded DEF EndSession
<1>2. CodeOnce'
  BY <1>1, CodesQuiet DEF Has, Takes, SameSessions
<1>3. TypeOK' /\ Known' /\ SessionsGone /\ (Guarded => Guarded') /\ (AdminRemains => AdminRemains')
  BY <1>1 DEF IInv, TypeOK, Known, SameSessions, SessionsGone, Guarded, AdminRemains, ActiveAdmin, Active
<1>4. QED BY <1>2, <1>3 DEF StepOK, IInv

LEMMA RevokeSessionByIDStep ==
    ASSUME IInv, NEW c \in Requests, RevokeSessionByID(c)
    PROVE  StepOK
<1>1. req[c].session \in SessionIds
  BY DEF RevokeSessionByID, Serving, IInv, TypeOK, Request, Login, Callback, RoleWrite, Exchange, Grant,
         AdminUpdate, OnAccount, NewAccount, Revocation
<1>2. /\ sessions[req[c].session] # NoSession /\ sessions' = [sessions EXCEPT ![req[c].session].ended = TRUE]
      /\ Answer(c) /\ UNCHANGED <<users, codes, spent, local_login>>
  BY DEF RevokeSessionByID
<1>3. SameSessions
  BY <1>1, <1>2, OneEnded
<1>4. QED BY <1>2, <1>3, SessionStep

LEMMA EndDeletedSessionsStep ==
    ASSUME IInv, NEW c \in Requests, EndDeletedSessions(c)
    PROVE  StepOK
<1>1. req[c].user \in Users
  BY DEF EndDeletedSessions, Serving, IInv, TypeOK, Request, Login, Callback, RoleWrite, Exchange, Grant,
         AdminUpdate, OnAccount, NewAccount, Revocation
<1>2. SameSessions
  BY <1>1, SessionsEndedOf DEF EndDeletedSessions
<1>3. QED BY <1>2, SessionStep DEF EndDeletedSessions

\* A new session, for a code that its taker gives up, or for none.
LEMMA GrantStep ==
    ASSUME IInv, NEW c \in Requests, NEW u \in Users, NEW code \in Codes \cup {NoCode},
           CreateSession(u, code), Answer(c), code # NoCode => Takes(c, code),
           UNCHANGED <<users, codes, spent, local_login>>
    PROVE  StepOK
<1> DEFINE fresh == FALSE
           new == [user |-> u, ended |-> fresh, code |-> code]
<1>1. PICK s \in SessionIds : sessions[s] = NoSession /\ sessions' = [sessions EXCEPT ![s] = new]
  BY DEF CreateSession
<1>2. new \in Session
  BY Zenon DEF Session
<1>3. new.code = code /\ new.user = u
  BY Zenon
<1> HIDE DEF new
<1>4. \A t \in SessionIds : sessions'[t] = IF t = s THEN new ELSE sessions[t]
  BY <1>1 DEF IInv, TypeOK
<1>5. /\ UsersGrow /\ SessionsGone /\ (AdminRemains => AdminRemains')
      /\ sessions' \in [SessionIds -> Session \cup {NoSession}]
  BY <1>1, <1>2 DEF UsersGrow, IInv, TypeOK, SessionsGone, AdminRemains, ActiveAdmin, Active
<1>6. /\ req' \in [Requests -> Request \cup {Idle}] /\ Known'
      /\ OnlyAdmins /\ Guarded => Guarded'
      /\ \A d \in Requests, k \in Codes : Takes(d, k)' => Takes(d, k)
  BY <1>5, RequestStep DEF Answer, Continue
<1>7. \A k \in Codes, t \in SessionIds : Has(t, k)' => Has(t, k) \/ (t = s /\ k = code)
  BY <1>3, <1>4 DEF Has
<1>8. \A k \in Codes : Takes(c, k)' = FALSE
  BY DEF Takes, Answer, Continue, IInv, TypeOK
<1>9. NoCode \notin Codes
  BY AccountsAssumption
<1>10. CodeOnce'
  <2> SUFFICES ASSUME NEW k \in Codes
               PROVE  /\ codes[k] # NoCode \/ k \notin spent => \A d \in Requests : ~Takes(d, k)'
                      /\ codes[k] # NoCode \/ k \notin spent => \A t \in SessionIds : ~Has(t, k)'
                      /\ k \notin spent => codes[k] = NoCode
                      /\ \A d \in Requests, t \in SessionIds : ~(Takes(d, k)' /\ Has(t, k)')
                      /\ \A d, e \in Requests : Takes(d, k)' /\ Takes(e, k)' => d = e
                      /\ \A t, v \in SessionIds : Has(t, k)' /\ Has(v, k)' => t = v
    BY DEF CodeOnce
  <2>1. CASE k # code
    BY <1>6, <1>7, <2>1 DEF IInv, CodeOnce
  <2>2. CASE k = code
    <3>1. Takes(c, k)
      BY <1>9, <2>2
    <3>2. codes[k] = NoCode /\ k \in spent /\ \A t \in SessionIds : ~Has(t, k)
      BY <3>1 DEF IInv, CodeOnce
    <3>3. \A d \in Requests : Takes(d, k) => d = c
      BY <3>1 DEF IInv, CodeOnce
    <3>4. \A d \in Requests : ~Takes(d, k)'
      BY <1>6, <1>8, <3>3
    <3>5. \A t \in SessionIds : Has(t, k)' => t = s
      BY <1>7, <3>2
    <3>6. QED BY <3>2, <3>4, <3>5
  <2>3. QED BY <2>1, <2>2
<1>11. TypeOK'
  BY <1>5, <1>6 DEF IInv, TypeOK
<1>12. QED BY <1>5, <1>6, <1>10, <1>11 DEF StepOK, IInv

LEMMA GrantSessionStep ==
    ASSUME IInv, NEW c \in Requests, GrantSession(c)
    PROVE  StepOK
<1>1. req[c].user \in Users /\ req[c].code \in Codes \cup {NoCode}
  BY DEF GrantSession, Serving, IInv, TypeOK, Request, Login, Callback, RoleWrite, Exchange, Grant,
         AdminUpdate, OnAccount, NewAccount, Revocation
<1>2. Takes(c, req[c].code)
  BY DEF GrantSession, Serving, Takes
<1>3. QED BY <1>1, <1>2, GrantStep DEF GrantSession

\* What is checked before a session is granted; a code stays with its taker.
LEMMA ChecksStep ==
    ASSUME IInv, NEW c \in Requests, CheckLocalLogin(c) \/ CheckExchange(c)
    PROVE  StepOK
<1> DEFINE code == IF req[c].kind = "exchange" THEN req[c].code ELSE NoCode
           new == [kind |-> "grant", user |-> req[c].user, code |-> code]
<1>1. /\ req[c] # Idle /\ req[c].kind \in {"login", "exchange"} /\ req' = [req EXCEPT ![c] = new]
      /\ UNCHANGED <<users, sessions, codes, spent, local_login>>
  BY DEF CheckLocalLogin, CheckExchange, Serving, Continue
<1>2. req[c].user \in Users /\ code \in Codes \cup {NoCode}
  BY <1>1 DEF IInv, TypeOK, Request, Login, Callback, RoleWrite, Exchange, Grant, AdminUpdate, OnAccount,
              NewAccount, Revocation
<1>3. code = NoCode \/ Takes(c, code)
  BY <1>1 DEF Takes
<1> HIDE DEF code
<1>4. new \in Grant
  BY <1>2 DEF Grant
<1>5. new \in Request /\ new.kind = "grant" /\ new.code = code
  BY <1>4 DEF Request
<1> HIDE DEF new
<1>6. QED BY <1>1, <1>3, <1>5, OnlyRequest DEF Knowing

-----------------------------------------------------------------------------
\* Login codes.

LEMMA CreateOIDCLoginCodeStep ==
    ASSUME IInv, NEW c \in Requests, CreateOIDCLoginCode(c)
    PROVE  StepOK
<1>1. PICK k \in Codes \ spent : codes' = [codes EXCEPT ![k] = req[c].user] /\ spent' = spent \cup {k}
  BY DEF CreateOIDCLoginCode
<1>2. Answer(c) /\ UNCHANGED <<users, sessions, local_login>>
  BY DEF CreateOIDCLoginCode
<1>3. req[c].user \in Users
  BY DEF CreateOIDCLoginCode, Serving, IInv, TypeOK, Request, Login, Callback, RoleWrite, Exchange, Grant,
         AdminUpdate, OnAccount, NewAccount, Revocation
<1>4. UsersGrow /\ SessionsGone /\ (AdminRemains => AdminRemains')
  BY <1>2 DEF UsersGrow, IInv, TypeOK, SessionsGone, AdminRemains, ActiveAdmin, Active
<1>5. /\ req' \in [Requests -> Request \cup {Idle}] /\ Known'
      /\ OnlyAdmins /\ Guarded => Guarded'
      /\ \A d \in Requests, j \in Codes : Takes(d, j)' => Takes(d, j)
  BY <1>2, <1>4, RequestStep DEF Answer, Continue
<1>6. \A j \in Codes, t \in SessionIds : Has(t, j)' <=> Has(t, j)
  BY <1>2 DEF Has
<1>7. \A j \in Codes : codes'[j] = IF j = k THEN req[c].user ELSE codes[j]
  BY <1>1 DEF IInv, TypeOK
<1>8. CodeOnce'
  BY <1>1, <1>5, <1>6, <1>7 DEF IInv, CodeOnce
<1>9. TypeOK'
  BY <1>1, <1>2, <1>3, <1>5 DEF IInv, TypeOK
<1>10. QED BY <1>4, <1>5, <1>8, <1>9 DEF StepOK, IInv

LEMMA ConsumeOIDCLoginCodeStep ==
    ASSUME IInv, NEW c \in Requests, NEW k \in Codes, ConsumeOIDCLoginCode(c, k)
    PROVE  StepOK
<1> DEFINE new == [kind |-> "exchange", user |-> codes[k], code |-> k]
<1>1. /\ req[c] = Idle /\ codes[k] # NoCode /\ codes' = [codes EXCEPT ![k] = NoCode]
      /\ req' = [req EXCEPT ![c] = new] /\ UNCHANGED <<users, sessions, spent, local_login>>
  BY DEF ConsumeOIDCLoginCode, Continue
<1>2. new \in Exchange
  BY <1>1 DEF IInv, TypeOK, Exchange
<1>3. new \in Request /\ new.kind = "exchange" /\ new.code = k
  BY <1>2 DEF Request
<1> HIDE DEF new
<1>4. UsersGrow /\ SessionsGone /\ (AdminRemains => AdminRemains')
  BY <1>1 DEF UsersGrow, IInv, TypeOK, SessionsGone, AdminRemains, ActiveAdmin, Active
<1>5. req' \in [Requests -> Request \cup {Idle}] /\ Known' /\ (OnlyAdmins /\ Guarded => Guarded')
  BY <1>1, <1>3, <1>4, RequestStep DEF Knowing
<1>6. \A d \in Requests, j \in Codes : Takes(d, j)' => Takes(d, j) \/ (d = c /\ j = k)
  BY <1>1, <1>3 DEF IInv, TypeOK, Takes
<1>7. \A j \in Codes, t \in SessionIds : Has(t, j)' <=> Has(t, j)
  BY <1>1 DEF Has
<1>8. \A j \in Codes : codes'[j] = IF j = k THEN NoCode ELSE codes[j]
  BY <1>1 DEF IInv, TypeOK
<1>9. /\ \A d \in Requests : ~Takes(d, k)
      /\ \A t \in SessionIds : ~Has(t, k)
      /\ k \in spent
  BY <1>1 DEF IInv, CodeOnce
<1>10. CodeOnce'
  <2> SUFFICES ASSUME NEW j \in Codes
               PROVE  /\ codes'[j] # NoCode \/ j \notin spent => \A d \in Requests : ~Takes(d, j)'
                      /\ codes'[j] # NoCode \/ j \notin spent => \A t \in SessionIds : ~Has(t, j)'
                      /\ j \notin spent => codes'[j] = NoCode
                      /\ \A d \in Requests, t \in SessionIds : ~(Takes(d, j)' /\ Has(t, j)')
                      /\ \A d, e \in Requests : Takes(d, j)' /\ Takes(e, j)' => d = e
                      /\ \A t, v \in SessionIds : Has(t, j)' /\ Has(v, j)' => t = v
    BY <1>1 DEF CodeOnce
  <2>1. CASE j # k
    BY <1>6, <1>7, <1>8, <2>1 DEF IInv, CodeOnce
  <2>2. CASE j = k
    BY <1>6, <1>7, <1>8, <1>9, <2>2
  <2>3. QED BY <2>1, <2>2
<1>11. TypeOK'
  BY <1>1, <1>5 DEF IInv, TypeOK
<1>12. QED BY <1>4, <1>5, <1>10, <1>11 DEF StepOK, IInv

LEMMA ExpireCodeStep ==
    ASSUME IInv, NEW k \in Codes, ExpireCode(k)
    PROVE  StepOK
<1>1. /\ \A j \in Codes : codes'[j] \in {codes[j], NoCode}
      /\ UNCHANGED <<users, sessions, spent, local_login, req>>
  BY DEF ExpireCode, IInv, TypeOK
<1>2. CodeOnce'
  BY <1>1, CodesQuiet DEF Has, Takes
<1>3. codes' \in [Codes -> Users \cup {NoCode}]
  BY DEF ExpireCode, IInv, TypeOK
<1>4. TypeOK' /\ Known' /\ SessionsGone /\ (Guarded => Guarded') /\ (AdminRemains => AdminRemains')
  BY <1>1, <1>3 DEF IInv, TypeOK, Known, SessionsGone, Guarded, AdminRemains, ActiveAdmin, Active
<1>5. QED BY <1>2, <1>4 DEF StepOK, IInv

-----------------------------------------------------------------------------
\* Accounts.

Pws == 0..MaxPassword
Sources == {"local", "oidc"}

\* The type of an account, its fields' types by name.
LEMMA UserShape == User = [role : Roles, active : BOOLEAN, pw : Pws, source : Sources]
BY DEF User, Pws, Sources

\* One account is written.
LEMMA OneUser ==
    ASSUME IInv, NEW u \in Users, NEW row \in User, users' = [users EXCEPT ![u] = row]
    PROVE  UsersGrow /\ \A v \in Users : users'[v] = IF v = u THEN row ELSE users[v]
BY AccountsAssumption DEF IInv, TypeOK, UsersGrow

\* A written account that keeps its password, where the sessions stay.
LEMMA PasswordKept ==
    ASSUME IInv, NEW u \in Users, NEW row \in User, users' = [users EXCEPT ![u] = row],
           users[u] # NoUser => row.pw = users[u].pw, UNCHANGED sessions
    PROVE  SessionsGone /\ SameSessions
BY OneUser DEF SessionsGone, SameSessions, IInv, TypeOK

LEMMA UpsertOIDCUserStep ==
    ASSUME IInv, NEW c \in Requests, NEW u \in Users, NEW claim \in ClaimRoles, UpsertOIDCUser(c, u, claim)
    PROVE  StepOK
<1> DEFINE yes == TRUE
           made == [role |-> "user", active |-> yes, pw |-> 0, source |-> "oidc"]
           row == IF users[u] = NoUser THEN made ELSE users[u]
           kind == IF claim = row.role THEN "code" ELSE "sync"
           new == [kind |-> kind, user |-> u, claim |-> claim]
<1>1. /\ users' = [users EXCEPT ![u] = row] /\ req' = [req EXCEPT ![c] = new]
      /\ UNCHANGED <<sessions, codes, spent, local_login>>
  BY Zenon DEF UpsertOIDCUser, Continue
<1>2. made \in User
  <2>1. "user" \in Roles /\ 0 \in Pws /\ "oidc" \in Sources
    BY AccountsAssumption DEF Pws, Sources
  <2>2. QED BY <2>1, UserShape, Zenon
<1> HIDE DEF made
<1>3. row \in User /\ (users[u] # NoUser => row = users[u])
  BY <1>2 DEF IInv, TypeOK
<1>4. kind \in {"code", "sync"} /\ claim \in Roles
  BY AccountsAssumption
<1> HIDE DEF row, kind
<1>5. new \in Callback
  BY <1>4, Zenon DEF Callback
<1>6. new \in Request /\ new.kind \in {"code", "sync"} /\ new.user = u
  BY <1>4, <1>5, Zenon DEF Request
<1> HIDE DEF new
<1>7. UsersGrow /\ users'[u] # NoUser
  BY <1>1, <1>3, OneUser, AccountsAssumption
<1>8. SessionsGone /\ SameSessions
  BY <1>1, <1>3, PasswordKept
<1>9. ~OnlyAdmins
  BY DEF OnlyAdmins
<1>10. QED BY <1>1, <1>6, <1>7, <1>8, <1>9, AccountStep

LEMMA UpdateUserStep ==
    ASSUME IInv, NEW c \in Requests, UpdateUser(c)
    PROVE  StepOK
<1> DEFINE r == req[c]
           u == r.user
           old == users[u]
           row == [old EXCEPT !.role = r.claim, !.active = r.active]
           new == [kind |-> "code", user |-> u, claim |-> r.claim]
<1>1. r # Idle /\ r.kind = "write"
  BY Zenon DEF UpdateUser, Serving
<1>2. r \in RoleWrite
  BY <1>1 DEF IInv, TypeOK, Request, Login, Callback, RoleWrite, Exchange, Grant, AdminUpdate, OnAccount, NewAccount, Revocation
<1>3. u \in Users /\ r.claim \in Roles /\ r.active \in BOOLEAN
  BY <1>2 DEF RoleWrite
<1>4. old \in User /\ old # NoUser
  BY <1>1, <1>3 DEF IInv, TypeOK, Known, Knowing
<1>5. users' = [users EXCEPT ![u].role = r.claim, ![u].active = r.active]
  BY Zenon DEF UpdateUser
<1>6. users' = [users EXCEPT ![u] = row]
  BY <1>3, <1>5 DEF IInv, TypeOK
<1>7. req' = [req EXCEPT ![c] = new] /\ UNCHANGED <<sessions, codes, spent, local_login>>
  BY Zenon DEF UpdateUser, Continue
<1>8. row \in User /\ row.pw = old.pw
  BY <1>3, <1>4, UserShape, Zenon
<1> HIDE DEF row
<1>9. new \in Request /\ new.kind = "code" /\ new.user = u
  BY <1>3 DEF Request, Callback
<1> HIDE DEF new
<1>10. UsersGrow /\ users'[u] # NoUser
  <2>1. UsersGrow /\ \A v \in Users : users'[v] = IF v = u THEN row ELSE users[v]
    BY <1>3, <1>6, <1>8, OneUser
  <2>2. QED BY <1>3, <1>8, <2>1, AccountsAssumption
<1>11. SessionsGone /\ SameSessions
  BY <1>3, <1>6, <1>7, <1>8, PasswordKept
<1>12. ~Guarded
  BY <1>1 DEF Guarded
<1>13. QED BY <1>7, <1>9, <1>10, <1>11, <1>12, AccountStep

LEMMA CreateUserStep ==
    ASSUME IInv, NEW c \in Requests, CreateUser(c)
    PROVE  StepOK
<1> DEFINE r == req[c]
           u == r.user
           yes == TRUE
           row == [role |-> r.role, active |-> yes, pw |-> 1, source |-> "local"]
<1>1. r # Idle /\ r.kind = "create" /\ users[u] = NoUser
  BY DEF CreateUser, Serving
<1>2. r \in NewAccount
  BY <1>1 DEF IInv, TypeOK, Request, Login, Callback, RoleWrite, Exchange, Grant, AdminUpdate, OnAccount, NewAccount, Revocation
<1>3. u \in Users /\ r.role \in Roles
  BY <1>2 DEF NewAccount
<1>4. users' = [users EXCEPT ![u] = row] /\ Answer(c) /\ UNCHANGED <<sessions, codes, spent, local_login>>
  BY Zenon DEF CreateUser
<1>5. row \in User
  <2>1. 1 \in Pws /\ "local" \in Sources
    BY AccountsAssumption DEF Pws, Sources
  <2>2. QED BY <1>3, <2>1, UserShape, Zenon
<1> HIDE DEF row
<1>6. UsersGrow /\ \A v \in Users : users'[v] = IF v = u THEN row ELSE users[v]
  BY <1>3, <1>4, <1>5, OneUser
<1>7. SessionsGone /\ SameSessions
  BY <1>1, <1>3, <1>4, <1>5, PasswordKept
<1>8. AdminRemains => AdminRemains'
  BY <1>1, <1>6 DEF AdminRemains, ActiveAdmin, Active
<1>9. QED BY <1>4, <1>6, <1>7, <1>8, AccountStep DEF Answer, Continue

LEMMA DeleteUserStep ==
    ASSUME IInv, NEW c \in Requests, DeleteUser(c)
    PROVE  StepOK
<1> DEFINE r == req[c]
           u == r.user
           old == users[u]
           no == FALSE
           row == [old EXCEPT !.active = no]
           new == [kind |-> "end_sessions", user |-> u]
<1>1. r # Idle /\ r.kind = "delete" /\ old # NoUser
  BY Zenon DEF DeleteUser, Serving
<1>2. u \in Users
  BY <1>1 DEF IInv, TypeOK, Request, Login, Callback, RoleWrite, Exchange, Grant, AdminUpdate, OnAccount, NewAccount, Revocation
<1>3. old \in User
  BY <1>1, <1>2 DEF IInv, TypeOK
<1>4. users' = [users EXCEPT ![u] = row]
  BY Zenon DEF DeleteUser
<1>5. req' = [req EXCEPT ![c] = new] /\ UNCHANGED <<sessions, codes, spent, local_login>>
  BY Zenon DEF DeleteUser, Continue
<1>6. no \in BOOLEAN
  OBVIOUS
<1> HIDE DEF no
<1>7. row \in User /\ row.pw = old.pw
  BY <1>3, <1>6, UserShape, Zenon
<1> HIDE DEF row
<1>8. new \in Request /\ new.kind = "end_sessions" /\ new.user = u
  BY <1>2 DEF Request, OnAccount
<1> HIDE DEF new
<1>9. UsersGrow /\ users'[u] # NoUser
  <2>1. UsersGrow /\ \A v \in Users : users'[v] = IF v = u THEN row ELSE users[v]
    BY <1>2, <1>4, <1>7, OneUser
  <2>2. QED BY <1>2, <1>7, <2>1, AccountsAssumption
<1>10. SessionsGone /\ SameSessions
  BY <1>2, <1>4, <1>5, <1>7, PasswordKept
<1>11. ~Guarded
  BY <1>1 DEF Guarded
<1>12. QED BY <1>5, <1>8, <1>9, <1>10, <1>11, AccountStep

\* The password and the sessions change together.
LEMMA PasswordStep ==
    ASSUME IInv, NEW c \in Requests, NEW u \in Users, NEW row \in User,
           users' = [users EXCEPT ![u] = row], sessions' = SessionsEnded(u), Answer(c),
           OnlyAdmins /\ Guarded /\ AdminRemains => AdminRemains', UNCHANGED <<codes, spent, local_login>>
    PROVE  StepOK
<1>1. UsersGrow /\ \A v \in Users : users'[v] = IF v = u THEN row ELSE users[v]
  BY OneUser
<1>2. SameSessions /\ \A s \in SessionIds : sessions'[s] # NoSession => sessions'[s].user # u \/ sessions'[s].ended
  BY SessionsEndedOf
<1>3. SessionsGone
  BY <1>1, <1>2 DEF SessionsGone
<1>4. QED BY <1>1, <1>2, <1>3, AccountStep DEF Answer, Continue

LEMMA ChangePasswordStep ==
    ASSUME IInv, NEW c \in Requests, ChangePassword(c)
    PROVE  StepOK
<1> DEFINE r == req[c]
           u == r.user
           old == users[u]
           next == old.pw + 1
           row == [old EXCEPT !.pw = next, !.source = "local"]
<1>1. r # Idle /\ r.kind = "password" /\ old.pw \in 1..(MaxPassword - 1)
  BY Zenon DEF ChangePassword, Serving
<1>2. u \in Users
  BY <1>1 DEF IInv, TypeOK, Request, Login, Callback, RoleWrite, Exchange, Grant, AdminUpdate, OnAccount, NewAccount, Revocation
<1>3. old \in User /\ old # NoUser
  BY <1>1, <1>2 DEF IInv, TypeOK, Known, Knowing
<1>4. next \in Pws /\ "local" \in Sources
  BY <1>1, AccountsAssumption DEF Pws, Sources
<1>5. users' = [users EXCEPT ![u].pw = @ + 1, ![u].source = "local"]
  BY Zenon DEF ChangePassword
<1>6. users' = [users EXCEPT ![u] = row]
  BY <1>2, <1>5 DEF IInv, TypeOK
<1>7. sessions' = SessionsEnded(u) /\ Answer(c) /\ UNCHANGED <<codes, spent, local_login>>
  BY Zenon DEF ChangePassword
<1> HIDE DEF next
<1>8. row \in User /\ row.role = old.role /\ row.active = old.active
  BY <1>3, <1>4, UserShape, Zenon
<1> HIDE DEF row
<1>9. AdminRemains => AdminRemains'
  <2>1. \A v \in Users : users'[v] = IF v = u THEN row ELSE users[v]
    BY <1>2, <1>6, <1>8, OneUser
  <2>2. \A v \in Users : ActiveAdmin(v) => ActiveAdmin(v)'
    BY <1>3, <1>8, <2>1, AccountsAssumption DEF ActiveAdmin, Active
  <2>3. QED BY <2>2 DEF AdminRemains
<1>10. QED BY <1>2, <1>6, <1>7, <1>8, <1>9, PasswordStep

LEMMA UpdateUserAsAdminStep ==
    ASSUME IInv, NEW c \in Requests, UpdateUserAsAdmin(c)
    PROVE  StepOK
<1> DEFINE r == req[c]
           u == r.user
           old == users[u]
           role == Merged(r.change.role, old.role)
           active == Merged(r.change.active, old.active)
           pw == IF r.change.reset THEN old.pw + 1 ELSE old.pw
           source == IF r.change.reset THEN "local" ELSE old.source
           row == [role |-> role, active |-> active, pw |-> pw, source |-> source]
<1>1. r # Idle /\ r.kind = "update" /\ old # NoUser /\ AdminInvariantHolds(u, role, active)
  BY DEF UpdateUserAsAdmin, Serving
<1>2. r \in AdminUpdate
  BY <1>1 DEF IInv, TypeOK, Request, Login, Callback, RoleWrite, Exchange, Grant, AdminUpdate, OnAccount, NewAccount, Revocation
<1>3. u \in Users /\ r.change \in Update
  BY <1>2 DEF AdminUpdate
<1>4. old \in User
  BY <1>1, <1>3 DEF IInv, TypeOK
<1>5. role \in Roles /\ active \in BOOLEAN /\ pw \in Pws /\ source \in Sources
  <2>1. r.change.reset => old.pw < MaxPassword
    BY DEF UpdateUserAsAdmin
  <2>2. role \in Roles /\ source \in Sources
    BY <1>3, <1>4 DEF Update, User, Merged, Sources
  <2>3. pw \in Pws
    BY <1>4, <2>1, AccountsAssumption DEF User, Pws
  <2>4. old.active \in BOOLEAN /\ r.change.active \in BOOLEAN \cup {Keep}
    BY <1>3, <1>4 DEF Update, User
  <2>5. active \in BOOLEAN
    BY <2>4, Zenon DEF Merged
  <2>6. QED BY <2>2, <2>3, <2>5
<1>6. /\ users' = [users EXCEPT ![u] = row] /\ Answer(c) /\ UNCHANGED <<codes, spent, local_login>>
      /\ sessions' = IF r.change.reset THEN SessionsEnded(u) ELSE sessions
  BY Zenon DEF UpdateUserAsAdmin
<1>7. ~r.change.reset => pw = old.pw
  OBVIOUS
<1> HIDE DEF role, active, pw, source
<1>8. row \in User
  BY <1>5, UserShape, Zenon
<1>9. row.role = role /\ row.active = active /\ row.pw = pw
  OBVIOUS
<1> HIDE DEF row
<1>10. UsersGrow /\ \A v \in Users : users'[v] = IF v = u THEN row ELSE users[v]
  BY <1>3, <1>6, <1>8, OneUser
<1>11. AdminRemains => AdminRemains'
  <2>1. \A v \in Users \ {u} : ActiveAdmin(v) => ActiveAdmin(v)'
    BY <1>10 DEF ActiveAdmin, Active
  <2>2. row # NoUser
    BY <1>8, AccountsAssumption
  <2>3. CASE role = "admin" /\ active
    <3>1. \A v \in Users : v = u => ActiveAdmin(v)'
      BY <1>3, <1>9, <1>10, <2>2, <2>3 DEF ActiveAdmin, Active
    <3>2. QED BY <1>3, <3>1 DEF AdminRemains
  <2>4. CASE ActiveAdmin(u) /\ (role # "admin" \/ ~active)
    <3>1. PICK a \in Users \ {u} : ActiveAdmin(a)
      BY <1>1, <2>4 DEF AdminInvariantHolds
    <3>2. QED BY <2>1, <3>1 DEF AdminRemains
  <2>5. CASE ~ActiveAdmin(u)
    BY <2>1, <2>5 DEF AdminRemains
  <2>6. QED BY <1>5, <2>3, <2>4, <2>5
<1>12. CASE r.change.reset
  <2>1. sessions' = SessionsEnded(u)
    BY <1>6, <1>12
  <2>2. QED BY <1>3, <1>6, <1>8, <1>11, <2>1, PasswordStep
<1>13. CASE ~r.change.reset
  <2>1. sessions' = sessions
    BY <1>6, <1>13
  <2>2. SessionsGone /\ SameSessions
    BY <1>3, <1>6, <1>7, <1>8, <1>9, <1>13, <2>1, PasswordKept
  <2>3. QED BY <1>6, <1>10, <1>11, <2>2, AccountStep DEF Answer, Continue
<1>14. QED BY <1>12, <1>13

-----------------------------------------------------------------------------
\* The whole.

LEMMA InitInv == Init => IInv
<1> SUFFICES ASSUME Init PROVE IInv
  OBVIOUS
<1>1. TypeOK /\ Known
  BY AccountsAssumption DEF Init, TypeOK, Known
<1>2. CodeOnce
  BY DEF Init, CodeOnce, Takes, Has
<1>3. QED BY <1>1, <1>2 DEF IInv

LEMMA Stutter ==
    ASSUME IInv, UNCHANGED <<users, sessions, codes, spent, req>>, local_login' \in BOOLEAN
    PROVE  StepOK
<1>1. TypeOK' /\ Known' /\ SessionsGone /\ (Guarded => Guarded') /\ (AdminRemains => AdminRemains')
  BY DEF IInv, TypeOK, Known, SessionsGone, Guarded, AdminRemains, ActiveAdmin, Active
<1>2. CodeOnce'
  BY DEF IInv, CodeOnce, Takes, Has
<1>3. QED BY <1>1, <1>2 DEF StepOK, IInv

LEMMA NextOK == IInv /\ [Next]_vars => StepOK
<1> SUFFICES ASSUME IInv, [Next]_vars PROVE StepOK
  OBVIOUS
<1>1. ASSUME NEW c \in Requests, Accept(c) PROVE StepOK
  BY <1>1, AuthenticateStep, UpsertOIDCUserStep, ConsumeOIDCLoginCodeStep, ChangeMyPasswordStep,
     CreateTokenStep, StartStep, Zenon DEF Accept
<1>2. ASSUME NEW c \in Requests, Serve(c) PROVE StepOK
  BY <1>2, GrantSessionStep, ChecksStep, ReadForUpdateStep, UpdateUserStep, CreateOIDCLoginCodeStep, ChangePasswordStep,
     CreateUserStep, UpdateUserAsAdminStep, DeleteUserStep, EndDeletedSessionsStep, RevokeSessionByIDStep,
     GiveUpStep, Zenon DEF Serve
<1>3. CASE SetLocalLogin
  BY <1>3, Stutter DEF SetLocalLogin, IInv, TypeOK
<1>4. CASE UNCHANGED vars
  BY <1>4, Stutter DEF vars, IInv, TypeOK
<1>5. QED BY <1>1, <1>2, <1>3, <1>4, EndSessionStep, ExpireCodeStep, Zenon DEF Next

\* The tables keep their types, requests refer to accounts that exist, and
\* codes are spent once, under every interleaving of logins, administration
\* and OIDC callbacks, for any number of each.
THEOREM AccountsInvariance == Spec => []IInv
<1>1. IInv /\ [Next]_vars => IInv'
  BY NextOK DEF StepOK
<1>2. QED BY InitInv, <1>1, PTL DEF Spec

\* Every variable has its type (the columns of users and sessions, and what a
\* request carries between its statements).
THEOREM AccountsTyped == Spec => []TypeOK
<1>1. IInv => TypeOK
  BY DEF IInv
<1>2. QED BY <1>1, AccountsInvariance, PTL

\* One OIDC login code grants at most one session, however its exchanges race
\* (oidcExchange: DELETE ... RETURNING, then CreateSession).
THEOREM CodeAlwaysSpentOnce == Spec => []CodeSpentOnce
<1>1. IInv => CodeSpentOnce
  BY DEF IInv, CodeOnce, CodeSpentOnce, Takes, Has, Serving
<1>2. QED BY <1>1, AccountsInvariance, PTL

\* A password change, by its owner or by an administrator, ends every session
\* of the account in the same transaction (ChangePassword, UpdateUserAsAdmin).
THEOREM PasswordChangeAlwaysEndsSessions == Spec => PasswordChangeEndsSessions
<1>1. IInv /\ [Next]_vars => [SessionsGone]_vars
  BY NextOK DEF StepOK
<1>2. QED BY <1>1, AccountsInvariance, PTL DEF Spec, PasswordChangeEndsSessions

\* Administrators who update each other at the same time leave one of them:
\* with roles that do not come from OIDC and without deleteUser, which writes
\* past validateActiveAdminInvariant, an active administrator remains.
THEOREM AdminAlwaysRemains ==
    ASSUME OnlyAdmins, \E u \in Users : InitUsers[u] # NoUser /\ InitUsers[u].active /\ InitUsers[u].role = "admin"
    PROVE  Spec => []AdminRemains
<1>1. Init => Guarded /\ AdminRemains
  BY DEF Init, Guarded, AdminRemains, ActiveAdmin, Active
<1>2. IInv /\ Guarded /\ AdminRemains /\ [Next]_vars => (Guarded /\ AdminRemains)'
  BY NextOK DEF StepOK
<1>3. QED BY <1>1, <1>2, AccountsInvariance, PTL DEF Spec

-----------------------------------------------------------------------------
\* The limiter in front of local logins, for any number of keys and of logins
\* in flight.

\* The inductive invariant: in any state, what the table holds fits into it,
\* and what may still be counted for a key fits under the limit.
LimiterInv == LimiterTypeOK /\ WithinCapacity /\ GuessesBounded

LEMMA LimiterNumbers ==
    /\ Limit \in Nat \ {0} /\ Window \in Nat \ {0} /\ Capacity \in Nat \ {0}
    /\ NoEntry \notin Entry /\ NoLogin \notin Keys
    /\ IsFiniteSet(Keys) /\ IsFiniteSet(Logins) /\ Cardinality(Logins) \in Nat
BY LimiterAssumption, FS_CardinalityType

\* Sets of keys and of logins are finite, and counted by naturals.
LEMMA LimiterSets ==
    /\ \A S \in SUBSET Keys : IsFiniteSet(S) /\ Cardinality(S) \in Nat
    /\ \A S \in SUBSET Logins : IsFiniteSet(S) /\ Cardinality(S) \in Nat
    /\ \A S \in SUBSET Logins : Cardinality(S) <= Cardinality(Logins)
    /\ \A S \in SUBSET Keys : \A T \in SUBSET S : Cardinality(T) <= Cardinality(S)
    /\ \A S \in SUBSET Logins : \A T \in SUBSET S : Cardinality(T) <= Cardinality(S)
<1>1. IsFiniteSet(Keys) /\ IsFiniteSet(Logins)
  BY LimiterNumbers
<1>2. ASSUME NEW W, IsFiniteSet(W), NEW S \in SUBSET W
      PROVE  IsFiniteSet(S) /\ Cardinality(S) \in Nat /\ Cardinality(S) <= Cardinality(W)
  BY <1>2, FS_Subset, FS_CardinalityType
<1>3. \A S \in SUBSET Keys : IsFiniteSet(S) /\ Cardinality(S) \in Nat
  BY <1>1, <1>2
<1>4. \A S \in SUBSET Logins : IsFiniteSet(S) /\ Cardinality(S) \in Nat /\ Cardinality(S) <= Cardinality(Logins)
  BY <1>1, <1>2
<1>5. QED BY <1>2, <1>3, <1>4

\* The keys in the table, and the room that is left for guesses.
Held == Recorded(failures)
Room == Limit - 1 + Cardinality(Logins)

\* The two bounds, in these terms.
LEMMA LimiterBounds ==
    /\ WithinCapacity <=> Cardinality(Held) <= Capacity
    /\ GuessesBounded <=>
          \A k \in Keys : Live(failures, k) => failures[k].count + Cardinality(Passed(k)) <= Room
BY DEF WithinCapacity, GuessesBounded, Held, Room

LEMMA LimiterBoundsNext ==
    /\ WithinCapacity' <=> Cardinality(Held') <= Capacity
    /\ GuessesBounded' <=>
          \A k \in Keys : Live(failures, k)' => failures'[k].count + Cardinality(Passed(k)') <= Room
BY DEF WithinCapacity, GuessesBounded, Held, Room

\* A step that only drops entries and ends logins keeps the invariant.
LEMMA LimiterShrinks ==
    ASSUME LimiterInv, LimiterTypeOK', now' >= now,
           \A k \in Keys : failures'[k] \in {failures[k], NoEntry},
           \A c \in Logins : login'[c] \in {login[c], NoLogin}
    PROVE  LimiterInv'
<1>1. Held' \subseteq Held /\ Held \subseteq Keys
  BY DEF Held, Recorded
<1>2. WithinCapacity'
  <2>1. Cardinality(Held') <= Cardinality(Held) /\ Cardinality(Held') \in Nat /\ Cardinality(Held) \in Nat
    BY <1>1, LimiterSets
  <2>2. Cardinality(Held) <= Capacity /\ Capacity \in Nat
    BY LimiterBounds, LimiterNumbers DEF LimiterInv
  <2>3. QED BY <2>1, <2>2, LimiterBoundsNext
<1>3. GuessesBounded'
  <2> SUFFICES ASSUME NEW k \in Keys, Live(failures, k)'
               PROVE  failures'[k].count + Cardinality(Passed(k)') <= Room
    BY LimiterBoundsNext
  <2>1. failures'[k] = failures[k] /\ failures[k] \in Entry /\ now \in Nat /\ now' \in Nat
    BY DEF Live, LimiterInv, LimiterTypeOK
  <2>2. Live(failures, k)
    BY <2>1 DEF Live, Entry
  <2>3. failures[k].count + Cardinality(Passed(k)) <= Room
    BY <2>2, LimiterBounds DEF LimiterInv
  <2>4. Passed(k)' \subseteq Passed(k) /\ Passed(k) \subseteq Logins
    BY LimiterNumbers DEF Passed
  <2>5. Cardinality(Passed(k)') <= Cardinality(Passed(k)) /\ Cardinality(Passed(k)') \in Nat /\ Cardinality(Passed(k)) \in Nat
    BY <2>4, LimiterSets
  <2>6. failures[k].count \in Nat /\ Room \in Int
    BY <2>1, LimiterNumbers DEF Entry, Room
  <2>7. QED BY <2>1, <2>3, <2>5, <2>6
<1>4. QED BY <1>2, <1>3 DEF LimiterInv

\* blocked: a key passes only below the limit, and then the logins in flight
\* are all that can be counted beyond it.
LEMMA BlockedStep ==
    ASSUME LimiterInv, NEW c \in Logins, NEW k \in Keys, Blocked(c, k)
    PROVE  LimiterInv'
<1>1. LimiterTypeOK'
  BY DEF Blocked, LimiterInv, LimiterTypeOK
<1>2. /\ now' = now /\ now \in Nat
      /\ \A j \in Keys : failures'[j] = IF j = k /\ ~Live(failures, k) THEN NoEntry ELSE failures[j]
  BY DEF Blocked, LimiterInv, LimiterTypeOK
<1>3. CASE Locked(failures, k)
  <2>1. login' = login
    BY <1>3 DEF Blocked
  <2>2. QED BY <1>1, <1>2, <2>1, LimiterShrinks
<1>4. CASE ~Locked(failures, k)
  <2>1. \A d \in Logins : login'[d] = IF d = c THEN k ELSE login[d]
    BY <1>4 DEF Blocked, LimiterInv, LimiterTypeOK
  <2>2. login[c] = NoLogin /\ NoLogin \notin Keys
    BY LimiterNumbers DEF Blocked
  <2>3. WithinCapacity'
    <3>1. Held' \subseteq Held /\ Held \subseteq Keys
      BY <1>2 DEF Held, Recorded
    <3>2. Cardinality(Held') <= Cardinality(Held) /\ Cardinality(Held') \in Nat /\ Cardinality(Held) \in Nat
      BY <3>1, LimiterSets
    <3>3. Cardinality(Held) <= Capacity /\ Capacity \in Nat
      BY LimiterBounds, LimiterNumbers DEF LimiterInv
    <3>4. QED BY <3>2, <3>3, LimiterBoundsNext
  <2>4. GuessesBounded'
    <3> SUFFICES ASSUME NEW j \in Keys, Live(failures, j)'
                 PROVE  failures'[j].count + Cardinality(Passed(j)') <= Room
      BY LimiterBoundsNext
    <3>1. failures'[j] = failures[j] /\ failures[j] \in Entry
      BY <1>2 DEF Live, LimiterInv, LimiterTypeOK
    <3>2. Live(failures, j)
      BY <1>2, <3>1 DEF Live
    <3>3. failures[j].count \in Nat /\ Limit \in Nat /\ Cardinality(Logins) \in Nat
      BY <3>1, LimiterNumbers DEF Entry
    <3>4. CASE j = k
      <4>1. failures[j].count < Limit
        BY <1>4, <3>2, <3>3, <3>4 DEF Locked
      <4>2. Passed(j)' \subseteq Logins
        BY DEF Passed
      <4>3. Cardinality(Passed(j)') <= Cardinality(Logins) /\ Cardinality(Passed(j)') \in Nat
        BY <4>2, LimiterSets
      <4>4. QED BY <3>1, <3>3, <4>1, <4>3 DEF Room
    <3>5. CASE j # k
      <4>1. Passed(j)' = Passed(j)
        BY <2>1, <2>2, <3>5 DEF Passed
      <4>2. QED BY <3>1, <3>2, <4>1, LimiterBounds DEF LimiterInv
    <3>6. QED BY <3>4, <3>5
  <2>5. QED BY <1>1, <2>3, <2>4 DEF LimiterInv
<1>5. QED BY <1>3, <1>4

\* One more failure of a key: an entry that counts, is live and is new.
LEMMA CountedIs ==
    ASSUME LimiterInv, NEW k \in Keys
    PROVE  LET e == Counted(k) IN
           /\ e \in Entry /\ e # NoEntry /\ e # failures[k] /\ e.expiresAt > now
           /\ e.count = IF Live(failures, k) THEN failures[k].count + 1 ELSE 1
<1>1. now \in Nat /\ Window \in Nat \ {0} /\ NoEntry \notin Entry
  BY LimiterNumbers DEF LimiterInv, LimiterTypeOK
<1>2. CASE Live(failures, k)
  <2> DEFINE old == failures[k]
             e == [old EXCEPT !.count = old.count + 1]
  <2>1. old \in Entry /\ old.count \in Nat \ {0} /\ old.expiresAt \in Nat /\ old.expiresAt > now
    <3>1. old \in Entry /\ old.expiresAt > now
      BY <1>2 DEF Live, LimiterInv, LimiterTypeOK
    <3>2. QED BY <3>1 DEF Entry
  <2>2. Counted(k) = e
    BY <1>2 DEF Counted
  <2>3. e \in Entry /\ e.count = old.count + 1 /\ e.expiresAt = old.expiresAt
    BY <2>1 DEF Entry
  <2> HIDE DEF e
  <2>4. e # old
    BY <2>1, <2>3
  <2>5. QED BY <1>1, <1>2, <2>1, <2>2, <2>3, <2>4
<1>3. CASE ~Live(failures, k)
  <2> DEFINE e == [count |-> 1, expiresAt |-> now + Window]
  <2>1. Counted(k) = e
    BY <1>3 DEF Counted
  <2>2. e \in Entry /\ e.count = 1 /\ e.expiresAt = now + Window /\ e.expiresAt > now
    BY <1>1 DEF Entry
  <2> HIDE DEF e
  <2>3. e # failures[k] /\ e # NoEntry
    BY <1>1, <1>3, <2>2 DEF Live
  <2>4. QED BY <1>3, <2>1, <2>2, <2>3
<1>4. QED BY <1>2, <1>3

\* failed: what is left after the count, and after evict when the table is full.
Kept(k, V) ==
    \A j \in Keys : failures'[j] = IF j = k THEN Counted(k)
                                   ELSE IF Live(failures, j) /\ j \notin V THEN failures[j] ELSE NoEntry

LEMMA FailedEffect ==
    ASSUME LimiterInv, NEW c \in Logins, Failed(c)
    PROVE  LET k == login[c] IN
           /\ k \in Keys /\ failures'[k] = Counted(k) /\ now' = now
           /\ \A j \in Keys : j # k => failures'[j] \in {failures[j], NoEntry}
           /\ \A d \in Logins : login'[d] = IF d = c THEN NoLogin ELSE login[d]
           /\ LimiterTypeOK' /\ Cardinality(Held') <= Capacity
           /\ \/ \A j \in Keys : j # k => failures'[j] = failures[j]
              \/ \E V \in SUBSET Keys :
                    /\ Kept(k, V) /\ k \notin V /\ (V # {} => Cardinality(Held') = Capacity)
                    /\ \A a \in V : Locked(failures, a) =>
                          \A b \in Held' \ {k} :
                             Locked(failures, b) /\ failures[a].expiresAt <= failures[b].expiresAt
<1> DEFINE k == login[c]
           f == [failures EXCEPT ![k] = Counted(k)]
<1>1. k \in Keys /\ now' = now /\ now \in Nat /\ Capacity \in Nat
  BY LimiterNumbers DEF Failed, LimiterInv, LimiterTypeOK
<1>2. login' \in [Logins -> Keys \cup {NoLogin}] /\ \A d \in Logins : login'[d] = IF d = c THEN NoLogin ELSE login[d]
  BY DEF Failed, LimiterInv, LimiterTypeOK
<1>3. \/ ~(Cardinality(Recorded(f)) > Capacity) /\ failures' = f
      \/ \E V \in Victims(f, k) :
            failures' = [j \in Keys |-> IF Live(f, j) /\ j \notin V THEN f[j] ELSE NoEntry]
  BY DEF Failed
<1>4. /\ f \in [Keys -> Entry \cup {NoEntry}]
      /\ \A j \in Keys : f[j] = IF j = k THEN Counted(k) ELSE failures[j]
  BY <1>1, CountedIs DEF LimiterInv, LimiterTypeOK
<1>5. /\ Live(f, k)
      /\ \A j \in Keys : j # k => /\ Live(f, j) <=> Live(failures, j)
                                  /\ Locked(f, j) <=> Locked(failures, j)
  <2>1. f[k] = Counted(k)
    BY <1>1, <1>4
  <2>2. f[k] # NoEntry /\ f[k].expiresAt > now
    BY <1>1, <2>1, CountedIs
  <2>3. \A j \in Keys : j # k => f[j] = failures[j]
    BY <1>4
  <2> HIDE DEF f
  <2>4. QED BY <2>2, <2>3 DEF Live, Locked
<1> HIDE DEF f
<1>6. CASE ~(Cardinality(Recorded(f)) > Capacity) /\ failures' = f
  <2>1. Held' = Recorded(f) /\ Held' \subseteq Keys
    BY <1>6 DEF Held, Recorded
  <2>2. Cardinality(Held') \in Nat /\ Cardinality(Held') = Cardinality(Recorded(f))
    BY <2>1, LimiterSets
  <2>3. Cardinality(Held') <= Capacity
    BY <1>1, <1>6, <2>2
  <2>4. LimiterTypeOK'
    BY <1>1, <1>2, <1>4, <1>6 DEF LimiterTypeOK
  <2>5. failures'[k] = Counted(k) /\ \A j \in Keys : j # k => failures'[j] = failures[j]
    BY <1>1, <1>4, <1>6
  <2>6. QED BY <1>1, <1>2, <2>3, <2>4, <2>5
<1>7. ASSUME NEW V \in Victims(f, k),
             failures' = [j \in Keys |-> IF Live(f, j) /\ j \notin V THEN f[j] ELSE NoEntry]
      PROVE  /\ LimiterTypeOK' /\ Cardinality(Held') <= Capacity
             /\ Kept(k, V) /\ V \in SUBSET Keys /\ k \notin V /\ (V # {} => Cardinality(Held') = Capacity)
             /\ \A a \in V : Locked(failures, a) =>
                   \A b \in Held' \ {k} :
                      Locked(failures, b) /\ failures[a].expiresAt <= failures[b].expiresAt
  <2> DEFINE live == {j \in Keys : Live(f, j)}
             over == Cardinality(live) - Capacity
             weak == {j \in live \ {k} : ~Locked(f, j)}
  <2>1. /\ V \subseteq live \ {k}
        /\ Cardinality(V) = IF over > 0 THEN over ELSE 0
        /\ V \subseteq weak \/ weak \subseteq V
        /\ \A a \in V \ weak, b \in (live \ {k}) \ V : f[a].expiresAt <= f[b].expiresAt
    BY DEF Victims
  <2>2. live \subseteq Keys /\ V \subseteq Keys /\ k \notin V
    BY <2>1
  <2>3. LimiterTypeOK'
    BY <1>1, <1>2, <1>4, <1>7 DEF LimiterTypeOK
  <2>4. \A j \in Keys : failures'[j] = IF Live(f, j) /\ j \notin V THEN f[j] ELSE NoEntry
    BY <1>7
  <2>5. Held' = live \ V
    <3>1. \A j \in Keys : Live(f, j) => f[j] # NoEntry
      BY DEF Live
    <3>2. \A j : j \in Held' <=> j \in Keys /\ failures'[j] # NoEntry
      BY DEF Held, Recorded
    <3>3. QED BY <2>4, <3>1, <3>2
  <2>6. Kept(k, V)
    BY <1>1, <1>4, <1>5, <2>2, <2>4 DEF Kept
  <2>7. IsFiniteSet(live) /\ Cardinality(live) \in Nat /\ Cardinality(V) \in Nat
    BY <2>2, LimiterSets
  <2>8. Cardinality(live \ V) = Cardinality(live) - Cardinality(V)
    <3>1. live \cap V = V
      BY <2>1
    <3> HIDE DEF live
    <3>2. QED BY <2>7, <3>1, FS_Difference
  <2>9. V # {} => Cardinality(V) # 0
    BY <2>2, LimiterSets, FS_EmptySet
  <2> HIDE DEF live, weak
  <2>10. Cardinality(Held') <= Capacity /\ (V # {} => Cardinality(Held') = Capacity)
    BY <1>1, <2>1, <2>5, <2>7, <2>8, <2>9
  <2>11. ASSUME NEW a \in V, Locked(failures, a), NEW b \in Held' \ {k}
         PROVE  Locked(failures, b) /\ failures[a].expiresAt <= failures[b].expiresAt
    <3>1. a \in Keys /\ a # k /\ b \in live /\ b \notin V /\ b # k /\ b \in Keys
      BY <2>1, <2>2, <2>5, <2>11
    <3>2. Locked(f, a) /\ a \notin weak
      BY <1>5, <2>11, <3>1 DEF weak
    <3>3. weak \subseteq V
      BY <2>1, <3>2
    <3>4. Locked(f, b)
      BY <3>1, <3>3 DEF weak
    <3>5. f[a].expiresAt <= f[b].expiresAt
      BY <2>1, <3>1, <3>2
    <3>6. QED BY <1>4, <1>5, <3>1, <3>4, <3>5
  <2>12. QED BY <2>2, <2>3, <2>6, <2>10, <2>11
<1>8. CASE \E V \in Victims(f, k) :
              failures' = [j \in Keys |-> IF Live(f, j) /\ j \notin V THEN f[j] ELSE NoEntry]
  <2>1. PICK V \in Victims(f, k) :
              failures' = [j \in Keys |-> IF Live(f, j) /\ j \notin V THEN f[j] ELSE NoEntry]
    BY <1>8
  <2>2. /\ LimiterTypeOK' /\ Cardinality(Held') <= Capacity
        /\ Kept(k, V) /\ V \in SUBSET Keys /\ k \notin V /\ (V # {} => Cardinality(Held') = Capacity)
        /\ \A a \in V : Locked(failures, a) =>
              \A b \in Held' \ {k} :
                 Locked(failures, b) /\ failures[a].expiresAt <= failures[b].expiresAt
    BY <1>7, <2>1
  <2>3. failures'[k] = Counted(k) /\ \A j \in Keys : j # k => failures'[j] \in {failures[j], NoEntry}
    BY <1>1, <2>2 DEF Kept
  <2>4. QED BY <1>1, <1>2, <2>2, <2>3
<1>9. QED BY <1>3, <1>6, <1>8

\* A failure that is counted was that of a login in flight.
LEMMA FailedStep ==
    ASSUME LimiterInv, NEW c \in Logins, Failed(c)
    PROVE  LimiterInv'
<1> DEFINE k == login[c]
<1>1. /\ k \in Keys /\ failures'[k] = Counted(k) /\ now' = now
      /\ \A j \in Keys : j # k => failures'[j] \in {failures[j], NoEntry}
      /\ \A d \in Logins : login'[d] = IF d = c THEN NoLogin ELSE login[d]
      /\ LimiterTypeOK' /\ Cardinality(Held') <= Capacity
  BY FailedEffect
<1>2. WithinCapacity'
  BY <1>1, LimiterBoundsNext
<1>3. GuessesBounded'
  <2> SUFFICES ASSUME NEW j \in Keys, Live(failures, j)'
               PROVE  failures'[j].count + Cardinality(Passed(j)') <= Room
    BY LimiterBoundsNext
  <2>1. Limit \in Nat \ {0} /\ Cardinality(Logins) \in Nat /\ NoLogin \notin Keys /\ IsFiniteSet(Logins)
    BY LimiterNumbers
  <2>2. /\ Passed(j) \subseteq Logins /\ Cardinality(Passed(j)) \in Nat /\ IsFiniteSet(Passed(j))
        /\ Cardinality(Passed(j)) <= Cardinality(Logins)
    <3>1. Passed(j) \subseteq Logins
      BY DEF Passed
    <3>2. QED BY <3>1, LimiterSets
  <2>3. CASE j = k
    <3>1. c \in Passed(j) /\ Passed(j)' = Passed(j) \ {c}
      BY <1>1, <2>1, <2>3 DEF Passed
    <3>2. Cardinality(Passed(j)') = Cardinality(Passed(j)) - 1
      BY <2>2, <3>1, FS_RemoveElement
    <3>3. failures'[j].count = IF Live(failures, j) THEN failures[j].count + 1 ELSE 1
      BY <1>1, <2>3, CountedIs
    <3>4. CASE Live(failures, j)
      <4>1. failures[j].count + Cardinality(Passed(j)) <= Room /\ failures[j].count \in Nat
        BY <3>4, LimiterBounds DEF LimiterInv, LimiterTypeOK, Live, Entry
      <4>2. Room \in Int
        BY <2>1 DEF Room
      <4>3. QED BY <2>2, <3>2, <3>3, <3>4, <4>1, <4>2
    <3>5. CASE ~Live(failures, j)
      BY <2>1, <2>2, <3>2, <3>3, <3>5 DEF Room
    <3>6. QED BY <3>4, <3>5
  <2>4. CASE j # k
    <3>1. failures'[j] = failures[j] /\ Live(failures, j)
      BY <1>1, <2>4 DEF Live
    <3>2. Passed(j)' = Passed(j)
      BY <1>1, <2>1, <2>4 DEF Passed
    <3>3. QED BY <3>1, <3>2, LimiterBounds DEF LimiterInv
  <2>5. QED BY <2>3, <2>4
<1>4. QED BY <1>1, <1>2, <1>3 DEF LimiterInv

LEMMA LimiterInitOK ==
    ASSUME LimiterInit PROVE LimiterInv
<1>1. LimiterTypeOK
  BY DEF LimiterInit, LimiterTypeOK
<1>2. Held = {}
  BY DEF LimiterInit, Held, Recorded
<1>3. WithinCapacity
  BY <1>2, FS_EmptySet, LimiterNumbers, LimiterBounds
<1>4. GuessesBounded
  BY LimiterBounds DEF LimiterInit, Live
<1>5. QED BY <1>1, <1>3, <1>4 DEF LimiterInv

LEMMA LimiterStep ==
    ASSUME LimiterInv, [LimiterNext]_limiterVars PROVE LimiterInv'
<1>1. now \in Nat
  BY DEF LimiterInv, LimiterTypeOK
<1>2. CASE UNCHANGED limiterVars
  <2>1. LimiterTypeOK' /\ now' >= now
    BY <1>1, <1>2 DEF LimiterInv, LimiterTypeOK, limiterVars
  <2>2. QED BY <1>2, <2>1, LimiterShrinks DEF limiterVars
<1>3. CASE Tick
  <2>1. LimiterTypeOK' /\ now' >= now
    BY <1>1, <1>3 DEF LimiterInv, LimiterTypeOK, Tick
  <2>2. QED BY <1>3, <2>1, LimiterShrinks DEF Tick
<1>4. ASSUME NEW c \in Logins, Succeeded(c) \/ Undecided(c) PROVE LimiterInv'
  <2>1. LimiterTypeOK' /\ now' >= now
    BY <1>1, <1>4 DEF LimiterInv, LimiterTypeOK, Succeeded, Undecided
  <2>2. \A k \in Keys : failures'[k] \in {failures[k], NoEntry}
    BY <1>4 DEF LimiterInv, LimiterTypeOK, Succeeded, Undecided
  <2>3. \A d \in Logins : login'[d] \in {login[d], NoLogin}
    BY <1>4 DEF LimiterInv, LimiterTypeOK, Succeeded, Undecided
  <2>4. QED BY <2>1, <2>2, <2>3, LimiterShrinks
<1>5. QED BY <1>2, <1>3, <1>4, BlockedStep, FailedStep DEF LimiterNext

\* Only a granted login, or a table full of longer lockouts, ends a lockout
\* before its time.
LEMMA LockoutStep ==
    ASSUME LimiterInv, [LimiterNext]_limiterVars
    PROVE  [LockoutExcused]_limiterVars
<1> SUFFICES ASSUME NEW k \in Keys, Locked(failures, k), failures'[k] = NoEntry, LimiterNext
             PROVE  \/ \E c \in Passed(k) : Succeeded(c)
                    \/ \E last \in Keys :
                          /\ failures'[last] # failures[last] /\ failures'[last] # NoEntry
                          /\ Cardinality(Recorded(failures')) = Capacity
                          /\ \A j \in Recorded(failures') \ {last} :
                                Locked(failures', j) /\ failures'[j].expiresAt >= failures[k].expiresAt
  BY DEF LockoutExcused
<1>1. failures[k] # NoEntry /\ Live(failures, k) /\ failures'[k] # failures[k]
  BY DEF Locked, Live
<1>2. CASE Tick
  BY <1>1, <1>2 DEF Tick
<1>3. ASSUME NEW c \in Logins, NEW j \in Keys, Blocked(c, j) PROVE FALSE
  BY <1>1, <1>3 DEF Blocked, LimiterInv, LimiterTypeOK
<1>4. ASSUME NEW c \in Logins, Undecided(c) PROVE FALSE
  BY <1>1, <1>4 DEF Undecided
<1>5. ASSUME NEW c \in Logins, Succeeded(c) PROVE c \in Passed(k)
  BY <1>1, <1>5 DEF Succeeded, Passed, LimiterInv, LimiterTypeOK
<1>6. ASSUME NEW c \in Logins, Failed(c)
      PROVE  LET last == login[c] IN
             /\ last \in Keys /\ failures'[last] # failures[last] /\ failures'[last] # NoEntry
             /\ Cardinality(Recorded(failures')) = Capacity
             /\ \A j \in Recorded(failures') \ {last} :
                   Locked(failures', j) /\ failures'[j].expiresAt >= failures[k].expiresAt
  <2> DEFINE last == login[c]
  <2>1. last \in Keys /\ failures'[last] = Counted(last) /\ failures'[last] # failures[last] /\ failures'[last] # NoEntry
    <3>1. last \in Keys /\ failures'[last] = Counted(last)
      BY <1>6, FailedEffect
    <3>2. QED BY <3>1, CountedIs
  <2>2. k # last
    BY <2>1
  <2>3. PICK V \in SUBSET Keys :
          /\ Kept(last, V) /\ (V # {} => Cardinality(Held') = Capacity)
          /\ \A a \in V : Locked(failures, a) =>
                \A b \in Held' \ {last} :
                   Locked(failures, b) /\ failures[a].expiresAt <= failures[b].expiresAt
    BY <1>1, <1>6, <2>2, FailedEffect
  <2>4. k \in V
    BY <1>1, <2>2, <2>3 DEF Kept
  <2>5. Held' = Recorded(failures') /\ Cardinality(Held') = Capacity
    BY <2>3, <2>4 DEF Held, Recorded
  <2>6. Cardinality(Recorded(failures')) = Capacity
    BY <2>5
  <2>7. ASSUME NEW j \in Recorded(failures') \ {last}
        PROVE  Locked(failures', j) /\ failures'[j].expiresAt >= failures[k].expiresAt
    <3>1. j \in Keys /\ failures'[j] # NoEntry /\ j # last
      BY DEF Recorded
    <3>2. failures'[j] = failures[j]
      BY <2>3, <3>1 DEF Kept
    <3>3. Locked(failures, j) /\ failures[k].expiresAt <= failures[j].expiresAt
      BY <2>3, <2>4, <2>5, <2>7
    <3>4. failures[j] \in Entry /\ failures[k] \in Entry
      BY <1>1, <3>1, <3>2 DEF LimiterInv, LimiterTypeOK
    <3>5. Locked(failures', j)
      BY <3>2, <3>3 DEF Locked, Live
    <3>6. QED BY <3>2, <3>3, <3>4, <3>5 DEF Entry
  <2>8. QED BY <2>1, <2>6, <2>7
<1>7. CASE \E c \in Logins : Failed(c)
  BY <1>6, <1>7
<1>8. CASE \E c \in Logins : Succeeded(c)
  BY <1>5, <1>8
<1>9. QED BY <1>2, <1>3, <1>4, <1>7, <1>8 DEF LimiterNext

\* The inductive invariant of the limiter holds of every behaviour, whatever
\* the order in which logins ask, fail, succeed and windows run out.
THEOREM LimiterInvariance ==
    LimiterSpec => []LimiterInv
<1>1. LimiterInit => LimiterInv
  BY LimiterInitOK
<1>2. LimiterInv /\ [LimiterNext]_limiterVars => LimiterInv'
  BY LimiterStep
<1>3. QED BY <1>1, <1>2, PTL DEF LimiterSpec

\* The table of failed logins never outgrows loginFailureCapacity.
THEOREM CapacityAlwaysKept ==
    LimiterSpec => []WithinCapacity
<1>1. LimiterInv => WithinCapacity
  BY DEF LimiterInv
<1>2. QED BY <1>1, LimiterInvariance, PTL

\* In one window a key gets at most loginFailureLimit failures plus those of
\* logins that passed the check at the same time, for any number of them.
THEOREM GuessesAlwaysBounded ==
    LimiterSpec => []GuessesBounded
<1>1. LimiterInv => GuessesBounded
  BY DEF LimiterInv
<1>2. QED BY <1>1, LimiterInvariance, PTL

\* evict gives up a lockout only when nothing less can go.
THEOREM LockoutsAlwaysKept ==
    LimiterSpec => LockoutKept
<1>1. LimiterInv /\ [LimiterNext]_limiterVars => [LockoutExcused]_limiterVars
  BY LockoutStep
<1>2. QED BY <1>1, LimiterInvariance, PTL DEF LimiterSpec, LockoutKept
=============================================================================
