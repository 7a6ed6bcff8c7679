---------------------------- MODULE SecretTables ----------------------------
(***************************************************************************)
(* The PostgreSQL tables behind every secret of jikim, and the SQL each    *)
(* store method runs on them: secrets, secret_versions, user_keys and the  *)
(* personal_key_version column of users.  The modules that model request   *)
(* handlers extend this one and decide when the statements run.            *)
(*                                                                         *)
(* Ciphertext is modelled by its plaintext together with what AES-GCM      *)
(* authenticates: the wrapping key (owner, keyv) and the additional data   *)
(* "secret:<id>:<version>".  Decryption fails unless all of them agree.    *)
(***************************************************************************)
EXTENDS Integers

CONSTANTS
    Users,          \* accounts; every one has a personal key
    Paths,          \* normalised secret paths
    Ids,            \* UUIDs given to rows of secrets
    Data,           \* payloads of a secret version
    Labels,         \* values of the descriptive columns and of version metadata
    Blank,          \* the label of a secret that /v1 created
    Wiped,          \* the empty ciphertext of a destroyed version
    NoSecret, NoVersion, NoKey,   \* "no such row"
    MaxVersion,     \* bound on secrets.current_version
    MaxKeyVersion   \* bound on users.personal_key_version

VARIABLES
    secrets,                \* path -> row of secrets
    secret_versions,        \* id -> version -> row of secret_versions
    user_keys,              \* user -> version -> row of user_keys
    personal_key_version,   \* user -> version of the key new data is sealed with
    issued                  \* UUIDs drawn so far; ids.UUID never repeats one

tables == <<secrets, secret_versions, user_keys, personal_key_version, issued>>

Versions == 1..MaxVersion
KeyVersions == 1..MaxKeyVersion

SecretRow == [id : Ids, current : 0..MaxVersion, deleted : BOOLEAN, attrs : Labels]

VersionRow ==
    [data : Data \cup {Wiped}, aad : Ids \X Versions, owner : Users,
     keyv : KeyVersions, meta : Labels, deletion : BOOLEAN, destroyed : BOOLEAN]

KeyRow == [active : BOOLEAN, encrypt : BOOLEAN, decrypt : BOOLEAN, rotate : BOOLEAN]

ASSUME BoundsAssumption == MaxVersion \in Nat \ {0} /\ MaxKeyVersion \in Nat \ {0}

ASSUME ValuesAssumption == Blank \in Labels /\ Data # {}

ASSUME NullAssumption ==
    /\ Wiped \notin Data
    /\ NoSecret \notin SecretRow
    /\ NoVersion \notin VersionRow
    /\ NoKey \notin KeyRow

TablesTypeOK ==
    /\ secrets \in [Paths -> SecretRow \cup {NoSecret}]
    /\ secret_versions \in [Ids -> [Versions -> VersionRow \cup {NoVersion}]]
    /\ user_keys \in [Users -> [KeyVersions -> KeyRow \cup {NoKey}]]
    /\ personal_key_version \in [Users -> KeyVersions]
    /\ issued \subseteq Ids

\* A new row of user_keys takes the column defaults of the schema.
NewUserKey == [active |-> TRUE, encrypt |-> TRUE, decrypt |-> TRUE, rotate |-> TRUE]

\* Accounts are created with version 1 of their key; no secret exists yet.
TablesInit ==
    /\ secrets = [p \in Paths |-> NoSecret]
    /\ secret_versions = [i \in Ids |-> [v \in Versions |-> NoVersion]]
    /\ user_keys = [u \in Users |-> [k \in KeyVersions |-> IF k = 1 THEN NewUserKey ELSE NoKey]]
    /\ personal_key_version = [u \in Users |-> 1]
    /\ issued = {}

-----------------------------------------------------------------------------
(* Reads *)

\* SecretExistsByPath: a soft-deleted row does not count.
SecretExists(p) == secrets[p] # NoSecret /\ ~secrets[p].deleted

\* The JOIN on user_keys and the two AES-GCM decryptions of getSecretRow.
Decrypts(i, v) ==
    LET row == secret_versions[i][v]
        key == user_keys[row.owner][row.keyv]
    IN  /\ key # NoKey
        /\ key.decrypt
        /\ row.aad = <<i, v>>
        /\ row.data \in Data

\* The WHERE clause of getSecretRow on the version itself.
Visible(i, v) ==
    /\ secret_versions[i][v] # NoVersion
    /\ ~secret_versions[i][v].destroyed
    /\ ~secret_versions[i][v].deletion

\* A transaction that seals a version needs the encrypt permission of the
\* actor's key (userDataKeyTx) and its decrypt permission (the getSecretTx that
\* ends insertSecretVersionTx).
CanSeal(u, k) ==
    /\ user_keys[u][k] # NoKey
    /\ user_keys[u][k].encrypt
    /\ user_keys[u][k].decrypt

\* The metadata a write through /v1 copies from the current version.
CurrentMeta(p) ==
    IF secrets[p] = NoSecret \/ secrets[p].current = 0 THEN Blank
    ELSE secret_versions[secrets[p].id][secrets[p].current].meta

-----------------------------------------------------------------------------
(* Statements that change the tables *)

\* Mutant: the UPDATE of current_version is missing.
InsertVersionOnly(p, row, u, k, d, m) ==
    LET v == row.current + 1 IN
    /\ v \in Versions
    /\ secret_versions' = [secret_versions EXCEPT ![row.id][v] =
           [data |-> d, aad |-> <<row.id, v>>, owner |-> u, keyv |-> k,
            meta |-> m, deletion |-> FALSE, destroyed |-> FALSE]]
    /\ secrets' = [secrets EXCEPT ![p] = row]

\* Mutant: a write to an existing secret replaces its current version.
OverwriteVersion(p, row, u, k, d, m) ==
    LET v == IF row.current = 0 THEN 1 ELSE row.current IN
    /\ secret_versions' = [secret_versions EXCEPT ![row.id][v] =
           [data |-> d, aad |-> <<row.id, v>>, owner |-> u, keyv |-> k,
            meta |-> m, deletion |-> FALSE, destroyed |-> FALSE]]
    /\ secrets' = [secrets EXCEPT ![p] = [row EXCEPT !.current = v]]

\* insertSecretVersionTx: seal the payload, insert the version after the
\* current one and move current_version to it.  The row passed in already has
\* the descriptive columns and deleted_at of the caller's INSERT or UPDATE; k is
\* a key version for which CanSeal held in the transaction's snapshot.
InsertSecretVersion(p, row, u, k, d, m) ==
    LET v == row.current + 1 IN
    /\ v \in Versions                     \* bound MaxVersion
    /\ secret_versions' = [secret_versions EXCEPT ![row.id][v] =
           [data |-> d, aad |-> <<row.id, v>>, owner |-> u, keyv |-> k,
            meta |-> m, deletion |-> FALSE, destroyed |-> FALSE]]
    /\ secrets' = [secrets EXCEPT ![p] = [row EXCEPT !.current = v]]

\* Mutant: a write to a soft-deleted secret leaves deleted_at set.
PutRowStillDeleted(p, i, attrs) ==
    IF secrets[p] = NoSecret
    THEN [id |-> i, current |-> 0, deleted |-> FALSE, attrs |-> attrs]
    ELSE [secrets[p] EXCEPT !.attrs = attrs]

\* The secrets row a write continues with: a fresh one, or the existing one
\* with deleted_at reset.  Both put paths share it; they differ in the labels.
PutRow(p, i, attrs) ==
    IF secrets[p] = NoSecret
    THEN [id |-> i, current |-> 0, deleted |-> FALSE, attrs |-> attrs]
    ELSE [secrets[p] EXCEPT !.deleted = FALSE, !.attrs = attrs]

\* A UUID that was never drawn, needed only when the row does not exist.
DrawId(p, i) ==
    /\ secrets[p] = NoSecret => i \notin issued
    /\ issued' = IF secrets[p] = NoSecret THEN issued \cup {i} ELSE issued

\* putSecretTx: the Admin API and an approved request replace the descriptive
\* columns and the version metadata.
PutSecretTx(p, u, k, d, attrs, meta) ==
    \E i \in Ids :
        /\ DrawId(p, i)
        /\ InsertSecretVersion(p, PutRow(p, i, attrs), u, k, d, meta)

\* Mutant: a write through /v1 replaces the labels like one of the Admin API.
PutOpenBaoAsAdmin(p, u, k, d) == PutSecretTx(p, u, k, d, Blank, Blank)

\* putOpenBaoSecretOnce after the CAS test: the labels of jikim are kept.
PutOpenBaoSecretTx(p, u, k, d) ==
    \E i \in Ids :
        /\ DrawId(p, i)
        /\ InsertSecretVersion(p,
               PutRow(p, i, IF secrets[p] = NoSecret THEN Blank ELSE secrets[p].attrs),
               u, k, d, CurrentMeta(p))

\* Mutant: a missing secret passes every check-and-set.
CASIgnoresMissing(p, cas) == secrets[p] = NoSecret \/ cas = secrets[p].current

\* validateOpenBaoCAS.
CASHolds(p, cas) ==
    \/ secrets[p] = NoSecret /\ cas = 0
    \/ secrets[p] # NoSecret /\ cas = secrets[p].current

\* One UPDATE of mutateOpenBaoVersions: op applies to the versions vs that
\* exist and are not destroyed.
MutatedVersion(row, op) ==
    CASE op = "delete"   -> [row EXCEPT !.deletion = TRUE]
      [] op = "undelete" -> [row EXCEPT !.deletion = FALSE]
      [] op = "destroy"  -> [row EXCEPT !.destroyed = TRUE, !.deletion = FALSE, !.data = Wiped]

MutateVersions(p, vs, op) ==
    LET i == secrets[p].id IN
    secret_versions' = [secret_versions EXCEPT ![i] =
        [v \in Versions |->
            LET row == secret_versions[i][v] IN
            IF v \in vs /\ row # NoVersion
            THEN IF row.destroyed THEN row ELSE MutatedVersion(row, op)
            ELSE row]]

\* DeleteSecret, and the UPDATE of an approved secret.delete.
SoftDelete(p) ==
    /\ SecretExists(p)
    /\ secrets' = [secrets EXCEPT ![p].deleted = TRUE]

\* DeleteOpenBaoMetadata: the row goes, its versions cascade, deleted or not.
PurgeSecret(p) ==
    /\ secrets[p] # NoSecret
    /\ secrets' = [secrets EXCEPT ![p] = NoSecret]
    /\ secret_versions' = [secret_versions EXCEPT ![secrets[p].id] = [v \in Versions |-> NoVersion]]

\* RotateUserKey of key version k: every older key is deactivated, a key with
\* default permissions becomes the personal key.  An administrator may rotate
\* through any key of the user, the owner only through an active one.
RotateUserKey(u, k, manageAll) ==
    LET next == personal_key_version[u] + 1 IN
    /\ user_keys[u][k] # NoKey
    /\ manageAll \/ (user_keys[u][k].active /\ user_keys[u][k].rotate)
    /\ next \in KeyVersions               \* bound MaxKeyVersion
    /\ personal_key_version' = [personal_key_version EXCEPT ![u] = next]
    /\ user_keys' = [user_keys EXCEPT ![u] =
           [j \in KeyVersions |->
               IF j = next /\ user_keys[u][j] = NoKey THEN NewUserKey
               ELSE IF user_keys[u][j] = NoKey THEN NoKey
               ELSE [user_keys[u][j] EXCEPT !.active = FALSE]]]

\* Mutant: any set of permissions is accepted.
AnyPermissions(perms) == TRUE

\* cleanUserKeyPermissions: a permission set without decrypt is refused.
CleanUserKeyPermissions(perms) == "decrypt" \in perms

\* UpdateKeyPermissions: an active key, a complete replacement of its permissions.
UpdateKeyPermissions(u, k, perms) ==
    /\ CleanUserKeyPermissions(perms)
    /\ user_keys[u][k] # NoKey
    /\ user_keys[u][k].active
    /\ user_keys' = [user_keys EXCEPT ![u][k] =
           [active |-> TRUE, encrypt |-> "encrypt" \in perms,
            decrypt |-> "decrypt" \in perms, rotate |-> "rotate" \in perms]]

-----------------------------------------------------------------------------
(* What the tables guarantee, whoever writes them *)

\* A path whose row exists has exactly the versions 1..current_version: no
\* abort, retry, CAS race or purge between two writes leaves a gap or a version
\* beyond the current one (getSecretRow finds "the latest" by that number).
HistoryComplete ==
    \A p \in Paths : secrets[p] # NoSecret =>
        /\ secrets[p].current > 0
        /\ \A v \in Versions :
               secret_versions[secrets[p].id][v] # NoVersion <=> v <= secrets[p].current

\* Every version that is not destroyed can still be decrypted, whatever key
\* rotations and permission changes came after, and whatever the key was when
\* its transaction started ("Historical secret versions depend on their
\* wrapping key remaining decryptable", cleanUserKeyPermissions).
LiveReadable ==
    \A p \in Paths, v \in Versions :
        (/\ secrets[p] # NoSecret
         /\ v <= secrets[p].current
         /\ ~secret_versions[secrets[p].id][v].destroyed) => Decrypts(secrets[p].id, v)

\* A user's keys are versions 1..personal_key_version, and none of them ever
\* loses the decrypt permission.
KeysKept ==
    \A u \in Users, k \in KeyVersions :
        /\ user_keys[u][k] # NoKey <=> k <= personal_key_version[u]
        /\ user_keys[u][k] # NoKey => user_keys[u][k].decrypt

\* A stored version is bound to its place, and to a key its author had.
Sealed ==
    \A p \in Paths, v \in Versions : (secrets[p] # NoSecret /\ v <= secrets[p].current) =>
        LET row == secret_versions[secrets[p].id][v] IN
        /\ row.keyv <= personal_key_version[row.owner]
        /\ row.aad = <<secrets[p].id, v>>
        /\ ~row.destroyed => row.data \in Data

\* Ids in use were drawn, belong to one path, and an id that was not drawn has
\* no versions.
IdsDrawn ==
    /\ \A p \in Paths : secrets[p] # NoSecret => secrets[p].id \in issued
    /\ \A p, q \in Paths :
           (p # q /\ secrets[p] # NoSecret /\ secrets[q] # NoSecret) => secrets[p].id # secrets[q].id
    /\ \A i \in Ids \ issued, v \in Versions : secret_versions[i][v] = NoVersion

TablesInv == TablesTypeOK /\ KeysKept /\ HistoryComplete /\ Sealed /\ IdsDrawn

=============================================================================
