----------------------------- MODULE OpenBaoKV ------------------------------
(***************************************************************************)
(* Secrets under concurrent requests: the KV v2 handlers of /v1 and the    *)
(* writes and deletes of the Admin API, with the approval workflow off.    *)
(*                                                                         *)
(* A write is three steps of its request, and any other request may run    *)
(* between them: the handler authorises it from a first read of the        *)
(* secrets table, its transaction takes a snapshot (the SELECT ... FOR     *)
(* UPDATE), and the transaction commits or aborts.  PostgreSQL serializable*)
(* isolation commits only when the secrets row is still the one of the     *)
(* snapshot; otherwise, and now and then without a visible reason, it      *)
(* fails with 40001 (or 23505 when two inserts of a path meet).            *)
(***************************************************************************)
EXTENDS SecretTables

CONSTANTS
    Requests,       \* request goroutines of the server
    Grants,         \* <<user, path, capability>> that CanAccess allows
    PermissionSets, \* permission sets a client asks for on a personal key
    CasValues,      \* values of options.cas a client sends
    NoCas,          \* options.cas omitted
    Idle,           \* a goroutine without a request
    PutAttempts     \* transactions PutOpenBaoSecret tries (5 in the code)

VARIABLE req        \* goroutine -> the request it serves

vars == <<tables, req>>

VersionOps == {"delete", "undelete", "destroy"}
PutOps == {"bao_put", "admin_put"}
Ops == PutOps \cup VersionOps \cup {"delete_latest"}

Request ==
    [pc : {"begin", "tx"}, op : Ops, user : Users, path : Paths,
     cas : CasValues \cup {NoCas}, data : Data, label : Labels, meta : Labels,
     vs : SUBSET Versions, attempt : 0..PutAttempts,
     snap : SecretRow \cup {NoSecret}, keyv : KeyVersions]

ASSUME RequestAssumption ==
    /\ PutAttempts \in Nat \ {0}
    /\ CasValues \subseteq Int
    /\ NoCas \notin CasValues
    /\ Idle \notin Request

\* Every variable has the type of its table or of its request record.
TypeOK ==
    /\ TablesTypeOK
    /\ req \in [Requests -> Request \cup {Idle}]

Init ==
    /\ TablesInit
    /\ req = [c \in Requests |-> Idle]

Serving(c, op, pc) == req[c] # Idle /\ req[c].op \in op /\ req[c].pc = pc

\* The request of goroutine c ends: an answer was sent, whatever it says.
Answer(c) == req' = [req EXCEPT ![c] = Idle]

Allowed(u, p, cap) == <<u, p, cap>> \in Grants

-----------------------------------------------------------------------------
(* Authorisation: what the handler reads before its transaction *)

\* A write request enters with the capability its handler checked.  label and
\* meta are the descriptive columns and the version metadata it sends; those of
\* a /v1 write are never used: it keeps the ones of the row.
StartPut(c, op, u, p, cap, cas, d, label, meta) ==
    /\ req[c] = Idle
    /\ Allowed(u, p, cap)
    /\ req' = [req EXCEPT ![c] =
           [pc |-> "begin", op |-> op, user |-> u, path |-> p, cas |-> cas,
            data |-> d, label |-> label, meta |-> meta, vs |-> {}, attempt |-> 0,
            snap |-> NoSecret, keyv |-> 1]]
    /\ UNCHANGED tables

\* baoKVWrite: "update" for an existing key, "create" for a new one.
BaoKVWrite(c, u, p, cas, d) ==
    StartPut(c, "bao_put", u, p, IF SecretExists(p) THEN "update" ELSE "create",
             cas, d, Blank, Blank)

\* createSecret asks for "create" whether or not the path exists.  Its clients
\* send one label as description and as metadata.
CreateSecret(c, u, p, d, label) == StartPut(c, "admin_put", u, p, "create", NoCas, d, label, label)

\* updateSecret resolves the id or path to an existing secret first.
UpdateSecret(c, u, p, d, label) ==
    /\ SecretExists(p)
    /\ StartPut(c, "admin_put", u, p, "update", NoCas, d, label, label)

\* rotateSecret reads the current version and writes its descriptive columns
\* and metadata back with the new payload (the reason it adds is left out).
RotateSecret(c, u, p, d) ==
    /\ SecretExists(p)
    /\ Visible(secrets[p].id, secrets[p].current)
    /\ Decrypts(secrets[p].id, secrets[p].current)
    /\ StartPut(c, "admin_put", u, p, "rotate", NoCas, d, secrets[p].attrs, CurrentMeta(p))

\* baoKVMutateVersions and baoKVDeleteLatest.
StartMutation(c, op, u, p, cap, vs) ==
    /\ req[c] = Idle
    /\ Allowed(u, p, cap)
    /\ req' = [req EXCEPT ![c] =
           [pc |-> "begin", op |-> op, user |-> u, path |-> p, cas |-> NoCas,
            data |-> CHOOSE d \in Data : TRUE, label |-> Blank, meta |-> Blank,
            vs |-> vs, attempt |-> 0,
            snap |-> NoSecret, keyv |-> 1]]
    /\ UNCHANGED tables

BaoKVMutateVersions(c, op, u, p, vs) == vs # {} /\ StartMutation(c, op, u, p, "update", vs)

BaoKVDeleteLatest(c, u, p) == StartMutation(c, "delete_latest", u, p, "delete", {})

-----------------------------------------------------------------------------
(* Transactions *)

\* The SELECT ... FOR UPDATE of a write: snapshot of the secrets row and of the
\* actor's key.  A failed CAS, or a key without permissions, answers an error.
BeginPut(c) ==
    /\ Serving(c, PutOps, "begin")
    /\ LET r == req[c]
           k == personal_key_version[r.user]
       IN  IF (r.cas # NoCas /\ ~CASHolds(r.path, r.cas)) \/ ~CanSeal(r.user, k)
           THEN Answer(c)
           ELSE req' = [req EXCEPT ![c].pc = "tx", ![c].snap = secrets[r.path], ![c].keyv = k]
    /\ UNCHANGED tables

\* Mutant: lockOpenBaoSecret finds soft-deleted rows too.
BeginMutationAnyRow(c) ==
    /\ Serving(c, VersionOps \cup {"delete_latest"}, "begin")
    /\ LET p == req[c].path IN
       IF secrets[p] # NoSecret
       THEN req' = [req EXCEPT ![c].pc = "tx", ![c].snap = secrets[p]]
       ELSE Answer(c)
    /\ UNCHANGED tables

\* lockOpenBaoSecret: a soft-deleted or missing row answers ErrNotFound.
BeginMutation(c) ==
    /\ Serving(c, VersionOps \cup {"delete_latest"}, "begin")
    /\ LET p == req[c].path IN
       IF SecretExists(p)
       THEN req' = [req EXCEPT ![c].pc = "tx", ![c].snap = secrets[p]]
       ELSE Answer(c)
    /\ UNCHANGED tables

\* First updater wins: a commit needs the row its snapshot saw.
Unchanged(c) == secrets[req[c].path] = req[c].snap

CommitPut(c) ==
    /\ Serving(c, PutOps, "tx")
    /\ Unchanged(c)
    /\ LET r == req[c] IN
       IF r.op = "bao_put"
       THEN PutOpenBaoSecretTx(r.path, r.user, r.keyv, r.data)
       ELSE PutSecretTx(r.path, r.user, r.keyv, r.data, r.label, r.meta)
    /\ Answer(c)
    /\ UNCHANGED <<user_keys, personal_key_version>>

CommitMutation(c) ==
    /\ Serving(c, VersionOps \cup {"delete_latest"}, "tx")
    /\ Unchanged(c)
    /\ LET r == req[c] IN
       IF r.op = "delete_latest"
       THEN MutateVersions(r.path, {r.snap.current}, "delete")
       ELSE MutateVersions(r.path, r.vs, r.op)
    /\ Answer(c)
    /\ UNCHANGED <<secrets, user_keys, personal_key_version, issued>>

\* Mutant: the attempts are not counted.
AbortUncounted(c) ==
    /\ req[c] # Idle
    /\ req[c].pc = "tx"
    /\ IF req[c].op = "bao_put" /\ req[c].cas = NoCas
       THEN req' = [req EXCEPT ![c].pc = "begin", ![c].snap = NoSecret]
       ELSE Answer(c)
    /\ UNCHANGED tables

\* A serialization or unique violation.  Only a /v1 write without CAS tries
\* again, at most PutAttempts transactions in all.
Abort(c) ==
    /\ req[c] # Idle
    /\ req[c].pc = "tx"
    /\ IF req[c].op = "bao_put" /\ req[c].cas = NoCas /\ req[c].attempt + 1 < PutAttempts
       THEN req' = [req EXCEPT ![c].pc = "begin", ![c].attempt = @ + 1, ![c].snap = NoSecret]
       ELSE Answer(c)
    /\ UNCHANGED tables

\* The client leaves or the database fails: the transaction rolls back.
GiveUp(c) ==
    /\ req[c] # Idle
    /\ Answer(c)
    /\ UNCHANGED tables

-----------------------------------------------------------------------------
(* Statements that are a transaction of their own *)

\* deleteSecret of the Admin API.
DeleteSecret(u, p) ==
    /\ Allowed(u, p, "delete")
    /\ SoftDelete(p)
    /\ UNCHANGED <<secret_versions, user_keys, personal_key_version, issued, req>>

\* baoKVMetadataDelete.
BaoKVMetadataDelete(u, p) ==
    /\ Allowed(u, p, "delete")
    /\ PurgeSecret(p)
    /\ UNCHANGED <<user_keys, personal_key_version, issued, req>>

\* rotateKey, by the owner or by an administrator.
RotateKey(u, k, manageAll) ==
    /\ RotateUserKey(u, k, manageAll)
    /\ UNCHANGED <<secrets, secret_versions, issued, req>>

\* updateKeyPermissions.
ChangeKeyPermissions(u, k, perms) ==
    /\ UpdateKeyPermissions(u, k, perms)
    /\ UNCHANGED <<secrets, secret_versions, personal_key_version, issued, req>>

-----------------------------------------------------------------------------

Accept(c) ==
    \E u \in Users, p \in Paths :
        \/ \E cas \in CasValues \cup {NoCas}, d \in Data : BaoKVWrite(c, u, p, cas, d)
        \/ \E d \in Data, label \in Labels : CreateSecret(c, u, p, d, label)
        \/ \E d \in Data, label \in Labels : UpdateSecret(c, u, p, d, label)
        \/ \E d \in Data : RotateSecret(c, u, p, d)
        \/ \E op \in VersionOps, vs \in SUBSET Versions : BaoKVMutateVersions(c, op, u, p, vs)
        \/ BaoKVDeleteLatest(c, u, p)

Serve(c) ==
    \/ BeginPut(c)
    \/ BeginMutation(c)
    \/ CommitPut(c)
    \/ CommitMutation(c)
    \/ Abort(c)

Statement ==
    \/ \E u \in Users, p \in Paths : DeleteSecret(u, p)
    \/ \E u \in Users, p \in Paths : BaoKVMetadataDelete(u, p)
    \/ \E u \in Users, k \in KeyVersions, manageAll \in BOOLEAN : RotateKey(u, k, manageAll)
    \/ \E u \in Users, k \in KeyVersions, perms \in PermissionSets :
           ChangeKeyPermissions(u, k, perms)

Next ==
    \/ \E c \in Requests : Accept(c) \/ Serve(c) \/ GiveUp(c)
    \/ Statement

Spec == Init /\ [][Next]_vars

-----------------------------------------------------------------------------
(* Properties *)

\* What a step may do to the versions that are there.
OnlyMarked ==
    \A i \in Ids, v \in Versions :
        LET old == secret_versions[i][v]
            new == secret_versions'[i][v]
        IN  (old # NoVersion /\ new # old) =>
                \/ \A w \in Versions : secret_versions'[i][w] = NoVersion
                \/ ~old.destroyed /\ new = [old EXCEPT !.deletion = ~@]
                \/ ~old.destroyed /\ new = MutatedVersion(old, "destroy")

\* A version is written once: afterwards it only gains or loses a deletion
\* mark, or is destroyed for good, or disappears with its whole secret.
HistoryImmutable == [][OnlyMarked]_vars

NextAfterCAS ==
    \A c \in Requests : (req[c] # Idle /\ CommitPut(c) /\ req[c].cas # NoCas) =>
        LET p == req[c].path IN
        /\ secrets'[p].current = req[c].cas + 1
        /\ req[c].cas = 0 => secrets[p] = NoSecret

\* A committed check-and-set write with cas = n produced version n + 1 of the
\* path, and with cas = 0 the first version of a key that did not exist: the
\* check made on the snapshot still holds when the version is inserted.
CASExact == [][NextAfterCAS]_vars

LabelsCopied ==
    \A c \in Requests :
        (req[c] # Idle /\ req[c].op = "bao_put" /\ CommitPut(c) /\ secrets[req[c].path] # NoSecret) =>
        LET p == req[c].path IN
        /\ secrets'[p].attrs = secrets[p].attrs
        /\ secret_versions'[secrets'[p].id][secrets'[p].current].meta
             = secret_versions[secrets[p].id][secrets[p].current].meta

\* A write through /v1 keeps the owner, application, description and tags of
\* the secret and the metadata of its current version.
LabelsKept == [][LabelsCopied]_vars

DeletedUntouched ==
    \A p \in Paths :
        (secrets[p] # NoSecret /\ secrets[p].deleted /\ secrets'[p] = secrets[p]) =>
            secret_versions'[secrets[p].id] = secret_versions[secrets[p].id]

\* While a secret is soft-deleted its versions are frozen: a delete, undelete
\* or destroy that started before the deletion does not change them after it.
FrozenWhileDeleted == [][DeletedUntouched]_vars

\* The log of a path as its clients see it: a version's value is what it
\* decrypts to.
Shown(i, v) ==
    LET row == secret_versions[i][v] IN
    [value  |-> IF row.destroyed \/ ~Decrypts(i, v) THEN Wiped ELSE row.data,
     status |-> IF row.destroyed THEN "destroyed" ELSE IF row.deletion THEN "deleted" ELSE "live"]

ShownStore ==
    [p \in Paths |->
        IF secrets[p] = NoSecret THEN NoSecret
        ELSE [hidden |-> secrets[p].deleted, length |-> secrets[p].current,
              log |-> [v \in 1..secrets[p].current |-> Shown(secrets[p].id, v)]]]

\* NoSecret, which also stands for an absent log, is not a log.
ShownLogs ==
    [hidden : BOOLEAN, length : 0..MaxVersion,
     log : UNION {[1..n -> [value : Data \cup {Wiped}, status : {"live", "deleted", "destroyed"}]] : n \in 0..MaxVersion}]

ASSUME ShownAssumption == NoSecret \notin ShownLogs

Promise == INSTANCE VersionedKV WITH store <- ShownStore, Absent <- NoSecret, Gone <- Wiped

\* The tables, transactions and retries together implement the append-only
\* versioned log of VersionedKV.
ImplementsVersionedKV == Promise!Spec

\* What a transaction in flight may rely on at its commit: its key version
\* exists, and a version mutation saw a secret that was not deleted.
SnapshotsValid ==
    \A c \in Requests : (req[c] # Idle /\ req[c].pc = "tx") =>
        IF req[c].op \in PutOps
        THEN req[c].keyv <= personal_key_version[req[c].user]
        ELSE req[c].snap # NoSecret /\ ~req[c].snap.deleted

\* The inductive invariant behind HistoryComplete and LiveReadable.
IInv == TypeOK /\ TablesInv /\ SnapshotsValid

\* Fairness: a goroutine that serves a request keeps running it.
FairSpec == Spec /\ \A c \in Requests : WF_vars(Serve(c))

\* Every request is answered: conflicts are retried a bounded number of times.
RequestsEnd == \A c \in Requests : req[c] # Idle ~> req[c] = Idle

=============================================================================
