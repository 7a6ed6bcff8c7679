----------------------------- MODULE Disclosure -----------------------------
(***************************************************************************)
(* Requests that read a secret: KV data and metadata of /v1, the detail,   *)
(* the reveal and the versions of the Admin API, and the MCP tool          *)
(* secrets.metadata.  Each is a sequence of statements without a           *)
(* transaction (authorisation, secrets row, versions, value, audit row),   *)
(* while other requests write, delete, destroy, purge and write again, and *)
(* while policies change.                                                  *)
(*                                                                         *)
(* A write appears as its commit; how it comes to commit is OpenBaoKV.     *)
(***************************************************************************)
EXTENDS Policies

CONSTANTS
    Calls,          \* request goroutines that read
    NoCall, NoValue, NoLog

AdminOps == {"get", "reveal", "versions"}
BaoOps == {"bao_read", "bao_metadata"}
ReadOps == AdminOps \cup BaoOps \cup {"mcp_metadata"}

States == {"none", "live", "deleted", "destroyed"}

\* version: the one asked for, 0 for the current one; row, states: what the
\* call has read of the metadata; value: the decrypted version; purged: the
\* secret was purged since the call began.
Value == [id : Ids, version : Versions, data : Data]
Call == [op : ReadOps, pc : {"authorize", "row", "versions", "value", "audit", "answer"}, user : Users,
         path : Paths, version : 0..MaxVersion, row : SecretRow \cup {NoSecret},
         states : [Versions -> States], value : Value \cup {NoValue}, purged : BOOLEAN]
Log == [user : Users, path : Paths, version : 0..MaxVersion]

ASSUME CallAssumption == NoCall \notin Call /\ NoValue \notin Value /\ NoLog \notin Log

VARIABLES
    call,           \* goroutine -> its call
    logged          \* goroutine -> the disclosure row with its request id

vars == <<tables, policyVars, call, logged>>

\* Every variable has the type of its table or request, and stored policies
\* only have rules PutPolicy accepts.
TypeOK ==
    /\ TablesTypeOK
    /\ PoliciesTypeOK
    /\ call \in [Calls -> Call \cup {NoCall}]
    /\ logged \in [Calls -> Log \cup {NoLog}]

Init ==
    /\ TablesInit /\ PoliciesInit
    /\ call = [c \in Calls |-> NoCall]
    /\ logged = [c \in Calls |-> NoLog]

At(c, pc) == call[c] # NoCall /\ call[c].pc = pc
Refuse(c) == call' = [call EXCEPT ![c] = NoCall]

-----------------------------------------------------------------------------
\* The Admin API names a secret by its id and looks its path up first.
Arrive(c, op, u, p, v) ==
    /\ call[c] = NoCall
    /\ u \in ActiveUsers
    /\ op \in AdminOps => SecretExists(p)
    /\ op \in {"bao_metadata", "mcp_metadata", "versions"} => v = 0
    /\ call' = [call EXCEPT ![c] =
                  [op |-> op, pc |-> "authorize", user |-> u, path |-> p, version |-> v, row |-> NoSecret,
                   states |-> [w \in Versions |-> "none"], value |-> NoValue, purged |-> FALSE]]
    /\ logged' = [logged EXCEPT ![c] = NoLog]
    /\ UNCHANGED <<tables, policyVars>>

Authorize(c) ==
    /\ At(c, "authorize")
    /\ IF CanAccess(call[c].user, Text[call[c].path], "read")
       THEN call' = [call EXCEPT ![c].pc = CASE call[c].op = "versions" -> "versions"
                                             [] call[c].op \in {"get", "reveal"} -> "value"
                                             [] OTHER -> "row"]
       ELSE Refuse(c)
    /\ UNCHANGED <<tables, policyVars, logged>>

\* First statement of OpenBaoKVMetadata, and ListSecrets of secrets.metadata.
ReadRow(c) ==
    /\ At(c, "row")
    /\ IF SecretExists(call[c].path)
       THEN call' = [call EXCEPT ![c].pc = "versions", ![c].row = secrets[call[c].path]]
       ELSE Refuse(c)
    /\ UNCHANGED <<tables, policyVars, logged>>

StateOf(row) ==
    CASE row = NoVersion -> "none"
      [] row # NoVersion /\ row.destroyed -> "destroyed"
      [] row # NoVersion /\ ~row.destroyed /\ row.deletion -> "deleted"
      [] OTHER -> "live"

\* The versions of an id, and SecretVersions, which takes a path.
StatesById(i) == [v \in Versions |-> StateOf(secret_versions[i][v])]
StatesByPath(p) ==
    IF secrets[p] = NoSecret THEN [v \in Versions |-> "none"] ELSE StatesById(secrets[p].id)

\* Mutant: the second statement joins on the path as well.
VersionsByPath(c) == StatesByPath(call[c].path)

VersionsRead(c) ==
    IF call[c].op \in BaoOps THEN StatesById(call[c].row.id) ELSE StatesByPath(call[c].path)

\* Second statement of the metadata.  A data read goes on to the value only for
\* a version that is neither deleted nor destroyed.
ReadVersions(c) ==
    /\ At(c, "versions")
    /\ LET states == VersionsRead(c)
           v == IF call[c].version = 0 THEN call[c].row.current ELSE call[c].version
           found == [call[c] EXCEPT !.states = states, !.version = v]
       IN  IF call[c].op \in BaoOps /\ \A w \in Versions : states[w] = "none" THEN Refuse(c)
           ELSE IF call[c].op # "bao_read"
           THEN call' = [call EXCEPT ![c].pc = "answer", ![c].states = states]
           ELSE IF states[v] = "none" THEN Refuse(c)
           ELSE call' = [call EXCEPT ![c] = [found EXCEPT !.pc = IF states[v] = "live" THEN "value" ELSE "answer"]]
    /\ UNCHANGED <<tables, policyVars, logged>>

\* Mutant: the row of the version that the secret has by now.
LatestVersion(c) == secrets[call[c].path].current

ReadVersion(c) == IF call[c].version = 0 THEN secrets[call[c].path].current ELSE call[c].version

\* GetSecret, by path.  The detail page drops the value again.
GetSecret(c) ==
    /\ At(c, "value")
    /\ LET p == call[c].path
           i == secrets[p].id
           v == ReadVersion(c)
           value == [id |-> i, version |-> v, data |-> secret_versions[i][v].data]
       IN  IF SecretExists(p) /\ Visible(i, v) /\ Decrypts(i, v)
           THEN call' = [call EXCEPT ![c].pc = IF call[c].op = "get" THEN "answer" ELSE "audit",
                                     ![c].value = IF call[c].op = "get" THEN NoValue ELSE value]
           ELSE Refuse(c)
    /\ UNCHANGED <<tables, policyVars, logged>>

\* Mutant: an audit row that cannot be stored is only reported.
RecordLoosely(c) ==
    /\ At(c, "audit")
    /\ \/ logged' = [logged EXCEPT ![c] = [user |-> call[c].user, path |-> call[c].path,
                                           version |-> call[c].value.version]]
       \/ UNCHANGED logged
    /\ call' = [call EXCEPT ![c].pc = "answer"]
    /\ UNCHANGED <<tables, policyVars>>

\* recordSensitiveDisclosure logs the version that was asked for, revealSecret
\* the one that was read.  A row that cannot be stored withholds the value
\* (StatementFails).
RecordAudit(c) ==
    /\ At(c, "audit")
    /\ logged' = [logged EXCEPT ![c] =
                    [user |-> call[c].user, path |-> call[c].path,
                     version |-> IF call[c].op = "reveal" THEN call[c].value.version ELSE call[c].version]]
    /\ call' = [call EXCEPT ![c].pc = "answer"]
    /\ UNCHANGED <<tables, policyVars>>

StatementFails(c) ==
    /\ call[c] # NoCall /\ call[c].pc # "answer"
    /\ Refuse(c)
    /\ UNCHANGED <<tables, policyVars, logged>>

Answer(c) ==
    /\ At(c, "answer")
    /\ Refuse(c)
    /\ UNCHANGED <<tables, policyVars, logged>>

-----------------------------------------------------------------------------
\* Transactions of other requests.
CommitPut ==
    /\ \E p \in Paths, u \in ActiveUsers, d \in Data : CanSeal(u, 1) /\ PutOpenBaoSecretTx(p, u, 1, d)
    /\ UNCHANGED <<user_keys, personal_key_version, policyVars, call, logged>>

CommitMutation ==
    /\ \E p \in Paths, v \in Versions, op \in {"delete", "undelete", "destroy"} :
          SecretExists(p) /\ MutateVersions(p, {v}, op)
    /\ UNCHANGED <<secrets, user_keys, personal_key_version, issued, policyVars, call, logged>>

CommitDelete ==
    /\ \E p \in Paths : SoftDelete(p)
    /\ UNCHANGED <<secret_versions, user_keys, personal_key_version, issued, policyVars, call, logged>>

CommitPurge ==
    /\ \E p \in Paths :
          /\ PurgeSecret(p)
          /\ call' = [c \in Calls |-> IF call[c] # NoCall /\ call[c].path = p
                                      THEN [call[c] EXCEPT !.purged = TRUE] ELSE call[c]]
    /\ UNCHANGED <<user_keys, personal_key_version, issued, policyVars, logged>>

Next ==
    \/ \E c \in Calls :
          \/ \E op \in ReadOps, u \in Users, p \in Paths, v \in 0..MaxVersion : Arrive(c, op, u, p, v)
          \/ Authorize(c) \/ ReadRow(c) \/ ReadVersions(c) \/ GetSecret(c)
          \/ RecordAudit(c) \/ StatementFails(c) \/ Answer(c)
    \/ CommitPut \/ CommitMutation \/ CommitDelete \/ CommitPurge
    \/ PoliciesNext /\ UNCHANGED <<tables, call, logged>>

Spec == Init /\ [][Next]_vars

-----------------------------------------------------------------------------
\* A value leaves the server only after a row with its reader, its path and the
\* version it is really of was stored under the same request: the version is
\* resolved in one statement, read in another and logged in a third, and a
\* detail page reads the value too and must not send it.
ValueAudited ==
    \A c \in Calls : At(c, "answer") /\ call[c].value # NoValue =>
        /\ call[c].op \in {"bao_read", "reveal"}
        /\ logged[c] = [user |-> call[c].user, path |-> call[c].path, version |-> call[c].value.version]

\* The metadata of an answer is whole although it is read in two statements:
\* every version up to the current one is in it, whatever was written or purged
\* between the two.  secrets.metadata reads the versions by path, and promises
\* it only while the secret is not purged.
MetadataWhole ==
    \A c \in Calls :
        At(c, "answer") /\ call[c].row # NoSecret /\ (call[c].op \in BaoOps \/ ~call[c].purged)
            => \A v \in 1..call[c].row.current : call[c].states[v] # "none"

\* The value of a data read and the metadata sent with it are of one version of
\* one secret, and that version was live when the metadata was read, unless the
\* secret was purged meanwhile (baoKVRead reads the two separately).
AnswerCoherent ==
    \A c \in Calls : At(c, "answer") /\ call[c].op = "bao_read" /\ call[c].value # NoValue =>
        /\ call[c].value.version = call[c].version
        /\ call[c].states[call[c].version] = "live"
        /\ ~call[c].purged => call[c].value.id = call[c].row.id
=============================================================================
