-------------------------- MODULE OpenBaoKVProofs ---------------------------
(***************************************************************************)
(* Proofs about OpenBaoKV for any number of requests, accounts, paths and  *)
(* versions, on top of the lemmas about the tables.                        *)
(***************************************************************************)
EXTENDS OpenBaoKV, SecretTablesProofs

\* Accepting a request fills an idle slot with a well-formed request that has
\* not begun its transaction, and leaves the tables alone.
LEMMA AcceptStep ==
    ASSUME TypeOK, TablesInv, NEW c \in Requests, Accept(c)
    PROVE  /\ UNCHANGED tables
           /\ \E r \in Request : r.pc = "begin" /\ req' = [req EXCEPT ![c] = r]
<1> DEFINE Goal == /\ UNCHANGED tables
                   /\ \E r \in Request : r.pc = "begin" /\ req' = [req EXCEPT ![c] = r]
<1>1. PICK u \in Users, p \in Paths :
        \/ \E cas \in CasValues \cup {NoCas}, d \in Data : BaoKVWrite(c, u, p, cas, d)
        \/ \E d \in Data, label \in Labels : CreateSecret(c, u, p, d, label)
        \/ \E d \in Data, label \in Labels : UpdateSecret(c, u, p, d, label)
        \/ \E d \in Data : RotateSecret(c, u, p, d)
        \/ \E op \in VersionOps, vs \in SUBSET Versions : BaoKVMutateVersions(c, op, u, p, vs)
        \/ BaoKVDeleteLatest(c, u, p)
  BY DEF Accept
<1>2. ASSUME NEW op \in PutOps, NEW cap, NEW cas \in CasValues \cup {NoCas}, NEW d \in Data,
             NEW label \in Labels, NEW meta \in Labels,
             StartPut(c, op, u, p, cap, cas, d, label, meta)
      PROVE  Goal
  <2> DEFINE r == [pc |-> "begin", op |-> op, user |-> u, path |-> p, cas |-> cas,
                   data |-> d, label |-> label, meta |-> meta, vs |-> {}, attempt |-> 0,
                   snap |-> NoSecret, keyv |-> 1]
  <2>1. r \in Request /\ r.pc = "begin"
    BY BoundsAssumption, RequestAssumption DEF Request, Ops, KeyVersions
  <2>2. req' = [req EXCEPT ![c] = r] /\ UNCHANGED tables
    BY <1>2 DEF StartPut
  <2> HIDE DEF r
  <2>3. QED
    BY <2>1, <2>2
<1>3. ASSUME NEW op \in VersionOps \cup {"delete_latest"}, NEW cap, NEW vs \in SUBSET Versions,
             StartMutation(c, op, u, p, cap, vs)
      PROVE  Goal
  <2> DEFINE r == [pc |-> "begin", op |-> op, user |-> u, path |-> p, cas |-> NoCas,
                   data |-> CHOOSE d \in Data : TRUE, label |-> Blank, meta |-> Blank,
                   vs |-> vs, attempt |-> 0,
                   snap |-> NoSecret, keyv |-> 1]
  <2>1. (CHOOSE d \in Data : TRUE) \in Data
    BY ValuesAssumption
  <2>2. r \in Request /\ r.pc = "begin"
    BY <2>1, BoundsAssumption, RequestAssumption, ValuesAssumption DEF Request, Ops, KeyVersions
  <2>3. req' = [req EXCEPT ![c] = r] /\ UNCHANGED tables
    BY <1>3 DEF StartMutation
  <2> HIDE DEF r
  <2>4. QED
    BY <2>2, <2>3
<1> SUFFICES Goal
  OBVIOUS
<1> HIDE DEF Goal
<1>4. CASE \E cas \in CasValues \cup {NoCas}, d \in Data : BaoKVWrite(c, u, p, cas, d)
  BY <1>2, <1>4, ValuesAssumption DEF BaoKVWrite, PutOps
<1>5. CASE \E d \in Data, label \in Labels : CreateSecret(c, u, p, d, label)
  BY <1>2, <1>5 DEF CreateSecret, PutOps
<1>6. CASE \E d \in Data, label \in Labels : UpdateSecret(c, u, p, d, label)
  BY <1>2, <1>6 DEF UpdateSecret, PutOps
<1>7. CASE \E d \in Data : RotateSecret(c, u, p, d)
  <2>1. PICK d \in Data : RotateSecret(c, u, p, d)
    BY <1>7
  <2>2. secrets[p].attrs \in Labels
    BY <2>1 DEF RotateSecret, SecretExists, TypeOK, TablesTypeOK, SecretRow
  <2>3. CurrentMeta(p) \in Labels
    BY CurrentMetaTyped
  <2>4. QED
    BY <1>2, <2>1, <2>2, <2>3 DEF RotateSecret, PutOps
<1>8. CASE \E op \in VersionOps, vs \in SUBSET Versions : BaoKVMutateVersions(c, op, u, p, vs)
  BY <1>3, <1>8 DEF BaoKVMutateVersions
<1>9. CASE BaoKVDeleteLatest(c, u, p)
  BY <1>3, <1>9 DEF BaoKVDeleteLatest
<1>10. QED
  BY <1>1, <1>4, <1>5, <1>6, <1>7, <1>8, <1>9

\* Answering a request empties its slot, which leaves every other snapshot as
\* valid as it was while personal keys only move forward.
LEMMA AnswerStep ==
    ASSUME IInv, NEW c \in Requests, Answer(c),
           \A w \in Users : personal_key_version[w] <= personal_key_version'[w],
           personal_key_version' \in [Users -> KeyVersions]
    PROVE  req' \in [Requests -> Request \cup {Idle}] /\ SnapshotsValid'
<1>1. \A b \in Requests : req'[b] = IF b = c THEN Idle ELSE req[b]
  BY DEF Answer, IInv, TypeOK
<1>2. req' \in [Requests -> Request \cup {Idle}]
  BY DEF Answer, IInv, TypeOK
<1>3. SnapshotsValid'
  <2> SUFFICES ASSUME NEW b \in Requests, req'[b] # Idle, req'[b].pc = "tx"
               PROVE  IF req'[b].op \in PutOps
                      THEN req'[b].keyv <= personal_key_version'[req'[b].user]
                      ELSE req'[b].snap # NoSecret /\ ~req'[b].snap.deleted
    BY DEF SnapshotsValid
  <2>1. req'[b] = req[b] /\ req[b] \in Request
    BY <1>1 DEF IInv, TypeOK
  <2>2. req[b].user \in Users /\ req[b].keyv \in KeyVersions
    BY <2>1 DEF Request
  <2>3. IF req[b].op \in PutOps
        THEN req[b].keyv <= personal_key_version[req[b].user]
        ELSE req[b].snap # NoSecret /\ ~req[b].snap.deleted
    BY <2>1 DEF IInv, SnapshotsValid
  <2>4. personal_key_version[req[b].user] \in KeyVersions /\ personal_key_version'[req[b].user] \in KeyVersions
    BY <2>2 DEF IInv, TypeOK, TablesTypeOK
  <2>5. req[b].keyv <= personal_key_version[req[b].user] => req[b].keyv <= personal_key_version'[req[b].user]
    BY <2>2, <2>4 DEF KeyVersions
  <2>6. QED
    BY <2>1, <2>3, <2>5
<1>4. QED
  BY <1>2, <1>3

\* A step that keeps the requests keeps their snapshots valid while personal
\* keys only move forward.
LEMMA SameRequests ==
    ASSUME IInv, UNCHANGED req,
           \A w \in Users : personal_key_version[w] <= personal_key_version'[w],
           personal_key_version' \in [Users -> KeyVersions]
    PROVE  req' \in [Requests -> Request \cup {Idle}] /\ SnapshotsValid'
<1>1. ASSUME NEW b \in Requests, req[b] # Idle, req[b].pc = "tx"
      PROVE  IF req[b].op \in PutOps
             THEN req[b].keyv <= personal_key_version'[req[b].user]
             ELSE req[b].snap # NoSecret /\ ~req[b].snap.deleted
  <2>1. req[b] \in Request
    BY <1>1 DEF IInv, TypeOK
  <2>2. req[b].user \in Users /\ req[b].keyv \in KeyVersions
    BY <2>1 DEF Request
  <2>3. personal_key_version[req[b].user] \in KeyVersions /\ personal_key_version'[req[b].user] \in KeyVersions
    BY <2>2 DEF IInv, TypeOK, TablesTypeOK
  <2>4. req[b].keyv <= personal_key_version[req[b].user] => req[b].keyv <= personal_key_version'[req[b].user]
    BY <2>2, <2>3 DEF KeyVersions
  <2>5. QED
    BY <1>1, <2>4 DEF IInv, SnapshotsValid
<1>2. QED
  BY <1>1 DEF IInv, TypeOK, SnapshotsValid

\* The request records change only as the next three lemmas say: a begun
\* request, a transaction that took its snapshot, or an answered one.
LEMMA RequestBegins ==
    ASSUME IInv, NEW c \in Requests, NEW r \in Request, UNCHANGED tables,
           req' = [req EXCEPT ![c] = r],
           r.pc = "tx" => IF r.op \in PutOps
                          THEN r.keyv <= personal_key_version[r.user]
                          ELSE r.snap # NoSecret /\ ~r.snap.deleted
    PROVE  req' \in [Requests -> Request \cup {Idle}] /\ SnapshotsValid'
<1>1. \A b \in Requests : req'[b] = IF b = c THEN r ELSE req[b]
  BY DEF IInv, TypeOK
<1>2. req' \in [Requests -> Request \cup {Idle}]
  BY DEF IInv, TypeOK
<1>3. SnapshotsValid'
  <2> SUFFICES ASSUME NEW b \in Requests, req'[b] # Idle, req'[b].pc = "tx"
               PROVE  IF req'[b].op \in PutOps
                      THEN req'[b].keyv <= personal_key_version[req'[b].user]
                      ELSE req'[b].snap # NoSecret /\ ~req'[b].snap.deleted
    BY DEF SnapshotsValid, tables
  <2>1. CASE b = c
    BY <2>1, <1>1
  <2>2. CASE b # c
    BY <2>2, <1>1 DEF IInv, SnapshotsValid
  <2>3. QED BY <2>1, <2>2
<1>4. QED
  BY <1>2, <1>3

-----------------------------------------------------------------------------

\* The initial state satisfies the inductive invariant.
LEMMA InvInit ==
    ASSUME Init PROVE IInv
<1>1. TablesInv
  BY TablesInvInit DEF Init
<1>2. TypeOK
  BY <1>1 DEF Init, TypeOK, TablesInv
<1>3. SnapshotsValid
  BY DEF Init, SnapshotsValid
<1>4. QED
  BY <1>1, <1>2, <1>3 DEF IInv

\* Every step preserves the inductive invariant.
LEMMA InvStep ==
    ASSUME IInv, [Next]_vars
    PROVE  IInv'
<1> DEFINE KeepsRequests == req' \in [Requests -> Request \cup {Idle}] /\ SnapshotsValid'
<1>0. ASSUME TablesInv', KeepsRequests PROVE IInv'
  BY <1>0 DEF IInv, TypeOK, TablesInv
<1>a. /\ TablesTypeOK /\ TablesInv
      /\ req \in [Requests -> Request \cup {Idle}]
      /\ personal_key_version \in [Users -> KeyVersions]
      /\ \A w \in Users : personal_key_version[w] <= personal_key_version[w]
  BY DEF IInv, TypeOK, TablesTypeOK, KeyVersions
<1>b. ASSUME UNCHANGED tables PROVE TablesInv'
  BY <1>a, <1>b DEF tables, TablesInv, TablesTypeOK, KeysKept, HistoryComplete, Sealed, IdsDrawn
<1>c. ASSUME NEW c \in Requests, Answer(c), personal_key_version' = personal_key_version
      PROVE  KeepsRequests
  BY <1>a, <1>c, AnswerStep
<1>1. CASE UNCHANGED vars
  BY <1>0, <1>1, <1>a, <1>b, SameRequests DEF vars, tables
<1>2. ASSUME NEW c \in Requests, Accept(c) PROVE IInv'
  <2>1. UNCHANGED tables /\ \E r \in Request : r.pc = "begin" /\ req' = [req EXCEPT ![c] = r]
    BY <1>2, AcceptStep DEF IInv
  <2>2. KeepsRequests
    BY <2>1, RequestBegins
  <2>3. QED BY <1>0, <1>b, <2>1, <2>2
<1>3. ASSUME NEW c \in Requests, BeginPut(c) PROVE IInv'
  <2> DEFINE r == req[c]
             k == personal_key_version[r.user]
             out == [r EXCEPT !.pc = "tx", !.snap = secrets[r.path], !.keyv = k]
  <2>1. UNCHANGED tables /\ r \in Request /\ r.op \in PutOps
    BY <1>3, <1>a DEF BeginPut, Serving
  <2>2. CASE Answer(c)
    BY <1>0, <1>b, <1>c, <2>1, <2>2 DEF tables
  <2>3. CASE ~Answer(c)
    <3>1. req' = [req EXCEPT ![c] = out]
      BY <1>3, <1>a, <2>3 DEF BeginPut
    <3>2. r.user \in Users /\ r.path \in Paths
      BY <2>1 DEF Request
    <3>3. k \in KeyVersions /\ secrets[r.path] \in SecretRow \cup {NoSecret}
      BY <3>2, <1>a DEF TablesTypeOK
    <3>4. out \in Request /\ out.op = r.op /\ out.user = r.user /\ out.keyv = k
      BY <2>1, <3>3 DEF Request
    <3>5. out.keyv <= personal_key_version[out.user]
      BY <3>3, <3>4 DEF KeyVersions
    <3> HIDE DEF out
    <3>6. KeepsRequests
      BY <2>1, <3>1, <3>4, <3>5, RequestBegins
    <3>7. QED BY <1>0, <1>b, <2>1, <3>6
  <2>4. QED BY <2>2, <2>3
<1>4. ASSUME NEW c \in Requests, BeginMutation(c) PROVE IInv'
  <2> DEFINE r == req[c]
             out == [r EXCEPT !.pc = "tx", !.snap = secrets[r.path]]
  <2>1. UNCHANGED tables /\ r \in Request /\ r.op \notin PutOps
    BY <1>4, <1>a DEF BeginMutation, Serving, VersionOps, PutOps
  <2>2. CASE ~SecretExists(r.path)
    BY <1>0, <1>b, <1>c, <1>4, <2>1, <2>2 DEF tables, BeginMutation
  <2>3. CASE SecretExists(r.path)
    <3>1. req' = [req EXCEPT ![c] = out]
      BY <1>4, <1>a, <2>3 DEF BeginMutation
    <3>2. r.path \in Paths
      BY <2>1 DEF Request
    <3>3. secrets[r.path] \in SecretRow /\ secrets[r.path] # NoSecret /\ ~secrets[r.path].deleted
      BY <2>3, <3>2, <1>a DEF TablesTypeOK, SecretExists
    <3>4. out \in Request /\ out.op = r.op /\ out.snap = secrets[r.path]
      BY <2>1, <3>3 DEF Request
    <3> HIDE DEF out
    <3>5. KeepsRequests
      BY <2>1, <3>1, <3>3, <3>4, RequestBegins
    <3>6. QED BY <1>0, <1>b, <2>1, <3>5
  <2>4. QED BY <2>2, <2>3
<1>5. ASSUME NEW c \in Requests, CommitPut(c) PROVE IInv'
  <2> DEFINE r == req[c]
  <2>1. /\ r \in Request /\ r.op \in PutOps /\ Answer(c)
        /\ UNCHANGED <<user_keys, personal_key_version>>
        /\ r.keyv <= personal_key_version[r.user]
    BY <1>5, <1>a DEF CommitPut, Serving, IInv, SnapshotsValid
  <2>2. /\ r.path \in Paths /\ r.user \in Users /\ r.keyv \in KeyVersions
        /\ r.data \in Data /\ r.label \in Labels /\ r.meta \in Labels
    BY <2>1 DEF Request
  <2>3. TablesInv'
    <3>1. CASE r.op = "bao_put"
      <4> DEFINE attrs == IF secrets[r.path] = NoSecret THEN Blank ELSE secrets[r.path].attrs
                 m == CurrentMeta(r.path)
      <4>1. PICK i \in Ids : DrawId(r.path, i) /\ InsertSecretVersion(r.path, PutRow(r.path, i, attrs),
                                                     r.user, r.keyv, r.data, m)
        BY <1>5, <3>1 DEF CommitPut, PutOpenBaoSecretTx
      <4>2. attrs \in Labels
        BY <2>2, <1>a, ValuesAssumption DEF TablesTypeOK, SecretRow
      <4>3. m \in Labels
        BY <1>a, <2>2, CurrentMetaTyped
      <4> HIDE DEF attrs, m
      <4>4. QED BY <1>a, <2>1, <2>2, <4>1, <4>2, <4>3, PutKeepsTables
    <3>2. CASE r.op # "bao_put"
      <4>1. PICK i \in Ids : DrawId(r.path, i) /\ InsertSecretVersion(r.path, PutRow(r.path, i, r.label),
                                                     r.user, r.keyv, r.data, r.meta)
        BY <1>5, <3>2 DEF CommitPut, PutSecretTx
      <4>2. QED BY <1>a, <2>1, <2>2, <4>1, PutKeepsTables
    <3>3. QED BY <3>1, <3>2
  <2>4. QED BY <1>0, <1>c, <2>1, <2>3
<1>6. ASSUME NEW c \in Requests, CommitMutation(c) PROVE IInv'
  <2> DEFINE r == req[c]
  <2>1. /\ r \in Request /\ r.op \in VersionOps \cup {"delete_latest"} /\ Answer(c)
        /\ UNCHANGED <<secrets, user_keys, personal_key_version, issued>>
        /\ secrets[r.path] = r.snap /\ r.pc = "tx"
    BY <1>6, <1>a DEF CommitMutation, Serving, Unchanged
  <2>2. r.path \in Paths
    BY <2>1 DEF Request
  <2>3. secrets[r.path] # NoSecret
    <3>1. r # Idle /\ r.op \notin PutOps
      BY <2>1, RequestAssumption DEF VersionOps, PutOps
    <3>2. QED BY <2>1, <3>1 DEF IInv, SnapshotsValid
  <2>4. ASSUME NEW vs, NEW op \in {"delete", "undelete", "destroy"}, MutateVersions(r.path, vs, op)
        PROVE  TablesInv'
    BY <1>a, <2>1, <2>2, <2>3, <2>4, MutateKeepsTables
  <2>5. TablesInv'
    <3>1. CASE r.op = "delete_latest"
      <4>1. MutateVersions(r.path, {r.snap.current}, "delete")
        BY <1>6, <3>1 DEF CommitMutation
      <4>2. QED BY <2>4, <4>1
    <3>2. CASE r.op # "delete_latest"
      <4>1. MutateVersions(r.path, r.vs, r.op) /\ r.op \in {"delete", "undelete", "destroy"}
        BY <1>6, <2>1, <3>2 DEF CommitMutation, VersionOps
      <4>2. QED BY <2>4, <4>1
    <3>3. QED BY <3>1, <3>2
  <2>6. QED BY <1>0, <1>c, <2>1, <2>5
<1>7. ASSUME NEW c \in Requests, Abort(c) PROVE IInv'
  <2> DEFINE r == req[c]
             out == [r EXCEPT !.pc = "begin", !.attempt = @ + 1, !.snap = NoSecret]
  <2>1. UNCHANGED tables /\ r \in Request
    BY <1>7, <1>a DEF Abort
  <2>2. CASE Answer(c)
    BY <1>0, <1>b, <1>c, <2>1, <2>2 DEF tables
  <2>3. CASE ~Answer(c)
    <3>1. req' = [req EXCEPT ![c] = out] /\ r.attempt + 1 < PutAttempts
      BY <1>7, <1>a, <2>3 DEF Abort
    <3>2. r.attempt \in 0..PutAttempts
      BY <2>1 DEF Request
    <3>3. out \in Request /\ out.pc = "begin"
      <4>1. r.attempt + 1 \in 0..PutAttempts
        BY <3>1, <3>2, RequestAssumption
      <4>2. QED BY <2>1, <4>1 DEF Request
    <3> HIDE DEF out
    <3>4. KeepsRequests
      BY <2>1, <3>1, <3>3, RequestBegins
    <3>5. QED BY <1>0, <1>b, <2>1, <3>4
  <2>4. QED BY <2>2, <2>3
<1>8. ASSUME NEW c \in Requests, GiveUp(c) PROVE IInv'
  BY <1>0, <1>b, <1>c, <1>8 DEF GiveUp, tables
<1>9. ASSUME NEW u \in Users, NEW p \in Paths, DeleteSecret(u, p) PROVE IInv'
  BY <1>0, <1>9, <1>a, SoftDeleteKeepsTables, SameRequests DEF DeleteSecret
<1>10. ASSUME NEW u \in Users, NEW p \in Paths, BaoKVMetadataDelete(u, p) PROVE IInv'
  BY <1>0, <1>10, <1>a, PurgeKeepsTables, SameRequests DEF BaoKVMetadataDelete
<1>11. ASSUME NEW u \in Users, NEW k \in KeyVersions, NEW all \in BOOLEAN, RotateKey(u, k, all) PROVE IInv'
  <2>1. TablesInv' /\ \A w \in Users : personal_key_version[w] <= personal_key_version'[w]
    BY <1>11, <1>a, RotateKeepsTables DEF RotateKey
  <2>2. KeepsRequests
    BY <1>11, <2>1, SameRequests DEF RotateKey, TablesInv, TablesTypeOK
  <2>3. QED BY <1>0, <2>1, <2>2
<1>12. ASSUME NEW u \in Users, NEW k \in KeyVersions, NEW perms, ChangeKeyPermissions(u, k, perms) PROVE IInv'
  BY <1>0, <1>12, <1>a, PermissionsKeepTables, SameRequests DEF ChangeKeyPermissions
<1>13. QED
  BY <1>1, <1>2, <1>3, <1>4, <1>5, <1>6, <1>7, <1>8, <1>9, <1>10, <1>11, <1>12
     DEF Next, Serve, Statement

\* The inductive invariant holds in every reachable state.
THEOREM Invariance == Spec => []IInv
<1>1. Init => IInv
  BY InvInit
<1>2. IInv /\ [Next]_vars => IInv'
  BY InvStep
<1>3. QED
  BY <1>1, <1>2, PTL DEF Spec

\* Every reachable state is well typed: in particular a /v1 write never copies
\* metadata from a version that is not there.
THEOREM TypeCorrect == Spec => []TypeOK
<1>1. IInv => TypeOK
  BY DEF IInv
<1>2. QED
  BY <1>1, Invariance, PTL

\* A secret always has exactly the versions 1..current_version.
THEOREM HistoryIsComplete == Spec => []HistoryComplete
<1>1. IInv => HistoryComplete
  BY DEF IInv, TablesInv
<1>2. QED
  BY <1>1, Invariance, PTL

\* Every version that is not destroyed can be decrypted, whatever key rotations
\* and permission changes happened since, or while it was written.
THEOREM LiveVersionsReadable == Spec => []LiveReadable
<1>1. IInv => LiveReadable
  BY TablesReadable DEF IInv
<1>2. QED
  BY <1>1, Invariance, PTL

-----------------------------------------------------------------------------
\* What a step may do.

\* The ways a step changes the secrets and their versions.
Put(p, d) == \E u, k, attrs, m : PutDone(p, u, k, d, attrs, m)
Marks(p, vs, op) == SecretExists(p) /\ MutateDone(p, vs, op) /\ UNCHANGED secrets
Hides(p) == SoftDeleteDone(p) /\ UNCHANGED secret_versions

\* What the commit of a write does.
LEMMA CommitPutDone ==
    ASSUME IInv, NEW c \in Requests, CommitPut(c)
    PROVE  LET r == req[c]
               attrs == IF r.op = "bao_put"
                        THEN IF secrets[r.path] = NoSecret THEN Blank ELSE secrets[r.path].attrs
                        ELSE r.label
               m == IF r.op = "bao_put" THEN CurrentMeta(r.path) ELSE r.meta
           IN  r.path \in Paths /\ r.data \in Data /\ PutDone(r.path, r.user, r.keyv, r.data, attrs, m)
<1> DEFINE r == req[c]
<1>1. /\ r # Idle /\ r \in Request /\ r.op \in PutOps /\ r.pc = "tx"
      /\ UNCHANGED <<user_keys, personal_key_version>>
  BY DEF CommitPut, Serving, IInv, TypeOK
<1>2. /\ r.path \in Paths /\ r.user \in Users /\ r.keyv \in KeyVersions
      /\ r.data \in Data /\ r.label \in Labels /\ r.meta \in Labels
      /\ r.keyv <= personal_key_version[r.user]
  BY <1>1 DEF Request, IInv, SnapshotsValid
<1>3. CASE r.op = "bao_put"
  <2>1. PutOpenBaoSecretTx(r.path, r.user, r.keyv, r.data)
    BY <1>3 DEF CommitPut
  <2>2. QED BY <1>1, <1>2, <1>3, <2>1, PutOpenBaoKeeps DEF IInv
<1>4. CASE r.op # "bao_put"
  <2>1. PICK i \in Ids : DrawId(r.path, i) /\ InsertSecretVersion(r.path, PutRow(r.path, i, r.label),
                                                 r.user, r.keyv, r.data, r.meta)
    BY <1>4 DEF CommitPut, PutSecretTx
  <2>2. PutDone(r.path, r.user, r.keyv, r.data, r.label, r.meta)
    BY <1>1, <1>2, <2>1, PutKeepsTables DEF IInv
  <2>3. QED BY <1>2, <1>4, <2>2
<1>5. QED BY <1>3, <1>4

LEMMA TablesStep ==
    ASSUME IInv, Next
    PROVE  \/ UNCHANGED <<secrets, secret_versions>>
           \/ \E p \in Paths, d \in Data : Put(p, d)
           \/ \E p \in Paths, vs \in SUBSET Versions, op \in VersionOps : Marks(p, vs, op)
           \/ \E p \in Paths : Hides(p) \/ PurgeDone(p)
<1> DEFINE Goal == \/ UNCHANGED <<secrets, secret_versions>>
                   \/ \E p \in Paths, d \in Data : Put(p, d)
                   \/ \E p \in Paths, vs \in SUBSET Versions, op \in VersionOps : Marks(p, vs, op)
                   \/ \E p \in Paths : Hides(p) \/ PurgeDone(p)
<1> SUFFICES Goal
  OBVIOUS
<1>1. CASE UNCHANGED <<secrets, secret_versions>>
  BY <1>1
<1>2. ASSUME NEW c \in Requests, CommitPut(c) PROVE Goal
  BY <1>2, CommitPutDone DEF Put
<1>3. ASSUME NEW c \in Requests, CommitMutation(c) PROVE Goal
  <2> DEFINE r == req[c]
  <2>1. /\ r # Idle /\ r \in Request /\ r.op \in VersionOps \cup {"delete_latest"} /\ r.pc = "tx"
        /\ UNCHANGED secrets /\ secrets[r.path] = r.snap
    BY <1>3 DEF CommitMutation, Serving, Unchanged, IInv, TypeOK
  <2>2. r.path \in Paths /\ r.vs \in SUBSET Versions
    BY <2>1 DEF Request
  <2>3. r.op \notin PutOps
    BY <2>1 DEF VersionOps, PutOps
  <2>4. SecretExists(r.path) /\ secrets[r.path] # NoSecret
    BY <2>1, <2>3 DEF SecretExists, IInv, SnapshotsValid
  <2>5. CASE r.op = "delete_latest"
    <3>1. MutateVersions(r.path, {r.snap.current}, "delete")
      BY <1>3, <2>5 DEF CommitMutation
    <3>2. {r.snap.current} \in SUBSET Versions
      BY <2>1, <2>2, <2>4 DEF IInv, TablesInv, TablesTypeOK, SecretRow, HistoryComplete, Versions
    <3>3. Marks(r.path, {r.snap.current}, "delete")
      BY <2>1, <2>2, <2>4, <3>1, MutateEffect DEF Marks, IInv
    <3>4. QED BY <2>2, <3>2, <3>3 DEF VersionOps
  <2>6. CASE r.op # "delete_latest"
    <3>1. MutateVersions(r.path, r.vs, r.op) /\ r.op \in VersionOps
      BY <1>3, <2>1, <2>6 DEF CommitMutation
    <3>2. Marks(r.path, r.vs, r.op)
      BY <2>1, <2>2, <2>4, <3>1, MutateEffect DEF Marks, IInv
    <3>3. QED BY <2>2, <3>1, <3>2
  <2>7. QED BY <2>5, <2>6
<1>4. ASSUME NEW u \in Users, NEW p \in Paths, DeleteSecret(u, p) PROVE Goal
  <2>1. SoftDeleteDone(p) /\ UNCHANGED secret_versions
    BY <1>4, SoftDeleteKeepsTables DEF DeleteSecret, IInv
  <2>2. QED BY <2>1 DEF Hides
<1>5. ASSUME NEW u \in Users, NEW p \in Paths, BaoKVMetadataDelete(u, p) PROVE Goal
  BY <1>5, PurgeEffect DEF BaoKVMetadataDelete, IInv
<1>6. ASSUME NEW c \in Requests, Accept(c) PROVE UNCHANGED <<secrets, secret_versions>>
  BY <1>6, AcceptStep DEF IInv, tables
<1>7. ASSUME NEW c \in Requests, BeginPut(c) \/ BeginMutation(c) \/ Abort(c) \/ GiveUp(c)
      PROVE  UNCHANGED <<secrets, secret_versions>>
  BY <1>7, Zenon DEF BeginPut, BeginMutation, Abort, GiveUp, tables
<1>8. ASSUME NEW u, NEW k, NEW x, RotateKey(u, k, x) \/ ChangeKeyPermissions(u, k, x)
      PROVE  UNCHANGED <<secrets, secret_versions>>
  BY <1>8, Zenon DEF RotateKey, ChangeKeyPermissions
<1> HIDE DEF Goal
<1>9. QED BY <1>1, <1>2, <1>3, <1>4, <1>5, <1>6, <1>7, <1>8, Zenon DEF Next, Serve, Statement

\* A put leaves every version alone that was there.
LEMMA PutAppends ==
    ASSUME NEW p \in Paths, NEW d, Put(p, d)
    PROVE  /\ secrets'[p] \in SecretRow
           /\ secrets'[p].current = Written(p) + 1 /\ secrets'[p].current \in Versions /\ secrets'[p].deleted = FALSE
           /\ secrets[p] # NoSecret => secrets'[p].id = secrets[p].id
           /\ \A q \in Paths : q # p => secrets'[q] = secrets[q] /\ (secrets[q] # NoSecret => secrets[q].id # secrets'[p].id)
           /\ secret_versions[secrets'[p].id][secrets'[p].current] = NoVersion
           /\ \A j \in Ids, w \in Versions :
                 j # secrets'[p].id \/ w # secrets'[p].current => secret_versions'[j][w] = secret_versions[j][w]
           /\ secrets'[p].id \in Ids
           /\ LET new == secret_versions'[secrets'[p].id][secrets'[p].current]
              IN  new.data = d /\ new.deletion = FALSE /\ new.destroyed = FALSE
<1>1. PICK u, k, attrs, m : PutDone(p, u, k, d, attrs, m)
  BY DEF Put
<1> DEFINE s == secrets'[p]
           new == [data |-> d, aad |-> <<s.id, s.current>>, owner |-> u, keyv |-> k,
                   meta |-> m, deletion |-> FALSE, destroyed |-> FALSE]
<1>2. \A j \in Ids, w \in Versions :
         secret_versions'[j][w] = IF j = s.id /\ w = s.current THEN new ELSE secret_versions[j][w]
  BY <1>1 DEF PutDone
<1>3. new.data = d /\ new.deletion = FALSE /\ new.destroyed = FALSE
  OBVIOUS
<1>4. /\ s \in SecretRow
      /\ s.current = Written(p) + 1 /\ s.current \in Versions /\ s.deleted = FALSE
      /\ secrets[p] # NoSecret => s.id = secrets[p].id
      /\ \A q \in Paths : q # p => secrets'[q] = secrets[q] /\ (secrets[q] # NoSecret => secrets[q].id # s.id)
      /\ secret_versions[s.id][s.current] = NoVersion
  BY <1>1 DEF PutDone
<1>5. s.id \in Ids
  BY <1>4 DEF SecretRow
<1> HIDE DEF new
<1>6. QED BY <1>2, <1>3, <1>4, <1>5

\* Marking a version sets or clears its deletion mark, or destroys it.
LEMMA MarkedHow ==
    ASSUME NEW row \in VersionRow, NEW op \in VersionOps, MutatedVersion(row, op) # row
    PROVE  \/ MutatedVersion(row, op) = [row EXCEPT !.deletion = ~@]
           \/ MutatedVersion(row, op) = MutatedVersion(row, "destroy")
<1>1. CASE op = "destroy"
  BY <1>1
<1>2. CASE op = "delete"
  <2>1. MutatedVersion(row, op) = [row EXCEPT !.deletion = TRUE]
    BY <1>2 DEF MutatedVersion
  <2>2. row.deletion = TRUE => [row EXCEPT !.deletion = TRUE] = row
    BY DEF VersionRow
  <2>3. row.deletion \in BOOLEAN
    BY DEF VersionRow
  <2>4. QED BY <2>1, <2>2, <2>3
<1>3. CASE op = "undelete"
  <2>1. MutatedVersion(row, op) = [row EXCEPT !.deletion = FALSE]
    BY <1>3 DEF MutatedVersion
  <2>2. row.deletion = FALSE => [row EXCEPT !.deletion = FALSE] = row
    BY DEF VersionRow
  <2>3. row.deletion \in BOOLEAN
    BY DEF VersionRow
  <2>4. QED BY <2>1, <2>2, <2>3
<1>4. QED BY <1>1, <1>2, <1>3 DEF VersionOps

LEMMA OnlyMarkedNext ==
    ASSUME IInv, Next
    PROVE  OnlyMarked
<1> SUFFICES ASSUME NEW i \in Ids, NEW v \in Versions, secret_versions[i][v] # NoVersion,
                    secret_versions'[i][v] # secret_versions[i][v]
             PROVE  \/ \A w \in Versions : secret_versions'[i][w] = NoVersion
                    \/ ~secret_versions[i][v].destroyed /\
                          secret_versions'[i][v] = [secret_versions[i][v] EXCEPT !.deletion = ~@]
                    \/ ~secret_versions[i][v].destroyed /\
                          secret_versions'[i][v] = MutatedVersion(secret_versions[i][v], "destroy")
  BY DEF OnlyMarked
<1> DEFINE old == secret_versions[i][v]
<1>1. old \in VersionRow
  BY DEF IInv, TypeOK, TablesTypeOK
<1>2. ASSUME NEW p \in Paths, NEW d \in Data, Put(p, d) PROVE FALSE
  <2>1. CASE i = secrets'[p].id /\ v = secrets'[p].current
    <3>1. secret_versions[secrets'[p].id][secrets'[p].current] = NoVersion
      BY <1>2, PutAppends
    <3>2. QED BY <2>1, <3>1
  <2>2. CASE i # secrets'[p].id \/ v # secrets'[p].current
    <3>1. \A j \in Ids, w \in Versions :
             j # secrets'[p].id \/ w # secrets'[p].current => secret_versions'[j][w] = secret_versions[j][w]
      BY <1>2, PutAppends
    <3>2. QED BY <2>2, <3>1
  <2>3. QED BY <2>1, <2>2
<1>3. ASSUME NEW p \in Paths, NEW vs \in SUBSET Versions, NEW op \in VersionOps, Marks(p, vs, op)
      PROVE  ~old.destroyed /\ (\/ secret_versions'[i][v] = [old EXCEPT !.deletion = ~@]
                                \/ secret_versions'[i][v] = MutatedVersion(old, "destroy"))
  <2>1. ~old.destroyed /\ secret_versions'[i][v] = MutatedVersion(old, op)
    BY <1>3 DEF Marks, MutateDone
  <2>2. QED BY <1>1, <2>1, MarkedHow
<1>4. ASSUME NEW p \in Paths, PurgeDone(p) PROVE \A w \in Versions : secret_versions'[i][w] = NoVersion
  BY <1>4 DEF PurgeDone
<1>5. QED BY <1>2, <1>3, <1>4, TablesStep DEF Hides

\* A version is written once, whatever writes, retries and mutations overlap:
\* afterwards it only gains or loses a deletion mark, is destroyed for good, or
\* disappears with its whole secret.
THEOREM VersionsImmutable == Spec => HistoryImmutable
<1>1. IInv /\ [Next]_vars => [OnlyMarked]_vars
  BY OnlyMarkedNext
<1>2. QED BY <1>1, Invariance, PTL DEF Spec, HistoryImmutable

LEMMA DeletedUntouchedNext ==
    ASSUME IInv, Next
    PROVE  DeletedUntouched
<1> SUFFICES ASSUME NEW p \in Paths, secrets[p] # NoSecret, secrets[p].deleted, secrets'[p] = secrets[p]
             PROVE  secret_versions'[secrets[p].id] = secret_versions[secrets[p].id]
  BY DEF DeletedUntouched
<1> DEFINE i == secrets[p].id
<1>1. i \in Ids
  BY DEF IInv, TypeOK, TablesTypeOK, SecretRow
<1>2. secret_versions[i] \in [Versions -> VersionRow \cup {NoVersion}]
        /\ secret_versions'[i] \in [Versions -> VersionRow \cup {NoVersion}]
  BY <1>1, InvStep DEF IInv, TypeOK, TablesTypeOK
<1>3. \A q \in Paths : q # p /\ secrets[q] # NoSecret => secrets[q].id # i
  BY DEF IInv, TablesInv, IdsDrawn
<1>4. ASSUME NEW q \in Paths, NEW d, Put(q, d), NEW w \in Versions
      PROVE  secret_versions'[i][w] = secret_versions[i][w]
  <2>1. q # p
    <3>1. secrets'[q].current = Written(q) + 1
      BY <1>4, PutAppends
    <3>2. secrets[p].current \in Nat
      BY DEF IInv, TypeOK, TablesTypeOK, SecretRow
    <3>3. QED BY <3>1, <3>2 DEF Written
  <2>2. secrets[p].id # secrets'[q].id
    BY <1>4, <2>1, PutAppends
  <2>3. \A j \in Ids, z \in Versions :
           j # secrets'[q].id \/ z # secrets'[q].current => secret_versions'[j][z] = secret_versions[j][z]
    BY <1>4, PutAppends
  <2>4. QED BY <1>1, <1>4, <2>2, <2>3
<1>5. ASSUME NEW q \in Paths, NEW vs, NEW op, Marks(q, vs, op), NEW w \in Versions
      PROVE  secret_versions'[i][w] = secret_versions[i][w]
  BY <1>1, <1>3, <1>5 DEF Marks, MutateDone, SecretExists
<1>6. ASSUME NEW q \in Paths, PurgeDone(q), NEW w \in Versions
      PROVE  secret_versions'[i][w] = secret_versions[i][w]
  BY <1>1, <1>3, <1>6 DEF PurgeDone
<1>7. \A w \in Versions : secret_versions'[i][w] = secret_versions[i][w]
  BY <1>4, <1>5, <1>6, TablesStep DEF Hides
<1> HIDE DEF i
<1>8. secret_versions'[i] = secret_versions[i]
  BY <1>2, <1>7
<1>9. QED BY <1>8 DEF i

\* While a secret is soft-deleted its versions are frozen: a mutation whose
\* snapshot was taken before the deletion does not commit after it.
THEOREM DeletedFrozen == Spec => FrozenWhileDeleted
<1>1. IInv /\ [Next]_vars => [DeletedUntouched]_vars
  BY DeletedUntouchedNext
<1>2. QED BY <1>1, Invariance, PTL DEF Spec, FrozenWhileDeleted

LEMMA LabelsCopiedNext ==
    ASSUME IInv
    PROVE  LabelsCopied
<1> SUFFICES ASSUME NEW c \in Requests, req[c].op = "bao_put", CommitPut(c), secrets[req[c].path] # NoSecret
             PROVE  LET p == req[c].path IN
                    /\ secrets'[p].attrs = secrets[p].attrs
                    /\ secret_versions'[secrets'[p].id][secrets'[p].current].meta
                         = secret_versions[secrets[p].id][secrets[p].current].meta
  BY DEF LabelsCopied
<1> DEFINE r == req[c]
           p == r.path
           s == secrets'[p]
           m == CurrentMeta(p)
           new == [data |-> r.data, aad |-> <<s.id, s.current>>, owner |-> r.user, keyv |-> r.keyv,
                   meta |-> m, deletion |-> FALSE, destroyed |-> FALSE]
<1>1. p \in Paths /\ PutDone(p, r.user, r.keyv, r.data, secrets[p].attrs, m)
  BY CommitPutDone
<1>2. m = secret_versions[secrets[p].id][secrets[p].current].meta
  <2>1. secrets[p].current > 0
    BY <1>1 DEF IInv, TablesInv, HistoryComplete
  <2>2. QED BY <2>1 DEF CurrentMeta
<1>3. new.meta = m
  OBVIOUS
<1>4. /\ s \in SecretRow /\ s.current \in Versions /\ s.attrs = secrets[p].attrs
      /\ \A j \in Ids, w \in Versions :
            secret_versions'[j][w] = IF j = s.id /\ w = s.current THEN new ELSE secret_versions[j][w]
  BY <1>1 DEF PutDone
<1> HIDE DEF new, m
<1>5. secret_versions'[s.id][s.current] = new
  BY <1>4 DEF SecretRow
<1>6. QED BY <1>2, <1>3, <1>4, <1>5

\* A write through /v1 keeps the labels of the secret and the metadata of its
\* current version, although both are read in an earlier statement.
THEOREM LabelsAlwaysKept == Spec => LabelsKept
<1>1. IInv => LabelsCopied
  BY LabelsCopiedNext
<1>2. QED BY <1>1, Invariance, PTL DEF LabelsKept

-----------------------------------------------------------------------------
\* Check-and-set.

\* A snapshot passes the check-and-set of its request.
Checked(snap, cas) == (snap = NoSecret /\ cas = 0) \/ (snap # NoSecret /\ cas = snap.current)

\* What a transaction with a check-and-set relies on until it commits.
CASChecked ==
    \A c \in Requests : Serving(c, PutOps, "tx") /\ req[c].cas # NoCas => Checked(req[c].snap, req[c].cas)

LEMMA CheckedStep ==
    ASSUME IInv, CASChecked, Next
    PROVE  CASChecked'
<1> DEFINE Sound(r) == r = Idle \/ r.op \notin PutOps \/ r.pc # "tx" \/ r.cas = NoCas \/ Checked(r.snap, r.cas)
<1>0. \A b \in Requests : Sound(req[b])
  BY DEF CASChecked, Serving
<1>1. ASSUME NEW c \in Requests, NEW r, req' = [req EXCEPT ![c] = r], Sound(r) PROVE CASChecked'
  <2>1. \A b \in Requests : req'[b] = IF b = c THEN r ELSE req[b]
    BY <1>1 DEF IInv, TypeOK
  <2>2. \A b \in Requests : Sound(req'[b])
    BY <1>0, <1>1, <2>1
  <2>3. QED BY <2>2 DEF CASChecked, Serving
<1>2. ASSUME NEW c \in Requests, Answer(c) PROVE CASChecked'
  <2>1. req' = [req EXCEPT ![c] = Idle] /\ Sound(Idle)
    BY <1>2 DEF Answer
  <2>2. QED BY <1>1, <2>1
<1>3. ASSUME UNCHANGED req PROVE CASChecked'
  BY <1>3 DEF CASChecked, Serving
<1>4. ASSUME NEW c \in Requests, Accept(c) PROVE CASChecked'
  <2>1. PICK r \in Request : r.pc = "begin" /\ req' = [req EXCEPT ![c] = r]
    BY <1>4, AcceptStep DEF IInv
  <2>2. QED BY <1>1, <2>1
<1>5. ASSUME NEW c \in Requests, BeginPut(c) PROVE CASChecked'
  <2> DEFINE r == req[c]
             k == personal_key_version[r.user]
             out == [r EXCEPT !.pc = "tx", !.snap = secrets[r.path], !.keyv = k]
  <2>1. r \in Request
    BY <1>5 DEF BeginPut, Serving, IInv, TypeOK
  <2>2. CASE ~Answer(c)
    <3>1. req' = [req EXCEPT ![c] = out] /\ (r.cas = NoCas \/ CASHolds(r.path, r.cas))
      BY <1>5, <2>2 DEF BeginPut, IInv, TypeOK
    <3>2. r.path \in Paths /\ r.user \in Users
      BY <2>1 DEF Request
    <3>3. k \in KeyVersions /\ secrets[r.path] \in SecretRow \cup {NoSecret}
      BY <3>2 DEF IInv, TypeOK, TablesTypeOK
    <3>4. out.cas = r.cas /\ out.snap = secrets[r.path]
      BY <2>1, <3>3 DEF Request
    <3> HIDE DEF out
    <3>5. Sound(out)
      BY <3>1, <3>4 DEF CASHolds, Checked
    <3>6. QED BY <1>1, <3>1, <3>5
  <2>3. QED BY <1>2, <2>2
<1>6. ASSUME NEW c \in Requests, BeginMutation(c) PROVE CASChecked'
  <2> DEFINE r == req[c]
             out == [r EXCEPT !.pc = "tx", !.snap = secrets[r.path]]
  <2>1. r \in Request /\ r.op \notin PutOps
    BY <1>6 DEF BeginMutation, Serving, IInv, TypeOK, VersionOps, PutOps
  <2>2. CASE ~Answer(c)
    <3>1. req' = [req EXCEPT ![c] = out]
      BY <1>6, <2>2 DEF BeginMutation, IInv, TypeOK
    <3>2. out.op = r.op
      BY <2>1 DEF Request
    <3> HIDE DEF out
    <3>3. QED BY <1>1, <2>1, <3>1, <3>2
  <2>3. QED BY <1>2, <2>2
<1>7. ASSUME NEW c \in Requests, Abort(c) PROVE CASChecked'
  <2> DEFINE r == req[c]
             out == [r EXCEPT !.pc = "begin", !.attempt = @ + 1, !.snap = NoSecret]
  <2>1. r \in Request
    BY <1>7 DEF Abort, IInv, TypeOK
  <2>2. CASE ~Answer(c)
    <3>1. req' = [req EXCEPT ![c] = out]
      BY <1>7, <2>2 DEF Abort, IInv, TypeOK
    <3>2. out.pc = "begin"
      BY <2>1 DEF Request
    <3> HIDE DEF out
    <3>3. QED BY <1>1, <3>1, <3>2
  <2>3. QED BY <1>2, <2>2
<1>8. ASSUME NEW c \in Requests, CommitPut(c) \/ CommitMutation(c) \/ GiveUp(c) PROVE Answer(c)
  BY <1>8, Zenon DEF CommitPut, CommitMutation, GiveUp
<1>9. ASSUME Statement PROVE UNCHANGED req
  BY <1>9, Zenon DEF Statement, DeleteSecret, BaoKVMetadataDelete, RotateKey, ChangeKeyPermissions
<1>10. QED BY <1>2, <1>3, <1>4, <1>5, <1>6, <1>7, <1>8, <1>9, Zenon DEF Next, Serve

LEMMA NextAfterCASNext ==
    ASSUME IInv, CASChecked
    PROVE  NextAfterCAS
<1> SUFFICES ASSUME NEW c \in Requests, CommitPut(c), req[c].cas # NoCas
             PROVE  LET p == req[c].path IN
                    /\ secrets'[p].current = req[c].cas + 1
                    /\ req[c].cas = 0 => secrets[p] = NoSecret
  BY DEF NextAfterCAS
<1> DEFINE r == req[c]
           p == r.path
<1>1. Checked(r.snap, r.cas) /\ secrets[p] = r.snap
  BY DEF CASChecked, CommitPut, Unchanged
<1>2. p \in Paths /\ secrets'[p].current = Written(p) + 1
  BY CommitPutDone DEF PutDone
<1>3. Written(p) = r.cas
  BY <1>1 DEF Checked, Written
<1>4. secrets[p] # NoSecret => secrets[p].current > 0
  BY <1>2 DEF IInv, TablesInv, HistoryComplete
<1>5. QED BY <1>1, <1>2, <1>3, <1>4 DEF Checked

\* A committed check-and-set write with cas = n produced version n + 1, and with
\* cas = 0 the first version of a key that did not exist: what was checked on
\* the snapshot (validateOpenBaoCAS) still holds when the version is inserted.
THEOREM CASAlwaysExact == Spec => CASExact
<1>1. Init => CASChecked
  BY DEF Init, CASChecked, Serving
<1>2. IInv /\ CASChecked /\ [Next]_vars => CASChecked'
  BY CheckedStep DEF vars, CASChecked, Serving
<1>3. IInv /\ CASChecked => NextAfterCAS
  BY NextAfterCASNext
<1>4. QED BY <1>1, <1>2, <1>3, Invariance, PTL DEF Spec, CASExact

-----------------------------------------------------------------------------
\* The tables implement VersionedKV.

\* What a client sees of a version, and of a secret, as long as live versions
\* decrypt: the keys have no part in it.
Plain(row) ==
    [value  |-> IF row.destroyed THEN Wiped ELSE row.data,
     status |-> IF row.destroyed THEN "destroyed" ELSE IF row.deletion THEN "deleted" ELSE "live"]

PlainLog(s, rows) ==
    IF s = NoSecret THEN NoSecret
    ELSE [hidden |-> s.deleted, length |-> s.current, log |-> [v \in 1..s.current |-> Plain(rows[v])]]

Seen(p) == PlainLog(secrets[p], secret_versions[secrets[p].id])

LEMMA StoreSeen == IInv => ShownStore = [p \in Paths |-> Seen(p)]
<1> SUFFICES ASSUME IInv PROVE ShownStore = [p \in Paths |-> Seen(p)]
  OBVIOUS
<1>1. ASSUME NEW p \in Paths, secrets[p] # NoSecret, NEW v \in 1..secrets[p].current
      PROVE  Shown(secrets[p].id, v) = Plain(secret_versions[secrets[p].id][v])
  <2>1. v \in Versions /\ v <= secrets[p].current
    <3>1. secrets[p].current \in 0..MaxVersion
      BY <1>1 DEF IInv, TypeOK, TablesTypeOK, SecretRow
    <3>2. QED BY <3>1, BoundsAssumption DEF Versions
  <2>2. secret_versions[secrets[p].id][v].destroyed \/ Decrypts(secrets[p].id, v)
    BY <1>1, <2>1, TablesReadable DEF IInv, LiveReadable
  <2>3. QED BY <2>2 DEF Shown, Plain
<1>2. ASSUME NEW p \in Paths
      PROVE  Seen(p) = IF secrets[p] = NoSecret THEN NoSecret
                       ELSE [hidden |-> secrets[p].deleted, length |-> secrets[p].current,
                             log |-> [v \in 1..secrets[p].current |-> Shown(secrets[p].id, v)]]
  <2>1. CASE secrets[p] # NoSecret
    <3>1. [v \in 1..secrets[p].current |-> Shown(secrets[p].id, v)]
            = [v \in 1..secrets[p].current |-> Plain(secret_versions[secrets[p].id][v])]
      BY <1>1, <2>1
    <3>2. QED BY <2>1, <3>1 DEF Seen, PlainLog
  <2>2. QED BY <2>1 DEF Seen, PlainLog
<1>3. QED BY <1>2 DEF ShownStore

LEMMA StoreSeenNext == (IInv => ShownStore = [p \in Paths |-> Seen(p)])'
BY StoreSeen, PTL

\* The fields of what a client sees of a secret.
LEMMA SeenFields ==
    ASSUME NEW s \in SecretRow, NEW rows, \A v \in 1..s.current : rows[v] \in VersionRow
    PROVE  LET seen == PlainLog(s, rows)
           IN  /\ seen # NoSecret
               /\ seen.hidden = s.deleted /\ seen.length = s.current
               /\ seen.log = [v \in 1..s.current |-> Plain(rows[v])]
               /\ seen = [hidden |-> s.deleted, length |-> s.current, log |-> [v \in 1..s.current |-> Plain(rows[v])]]
<1> DEFINE E == [value : Data \cup {Wiped}, status : {"live", "deleted", "destroyed"}]
           log == [v \in 1..s.current |-> Plain(rows[v])]
           L == UNION {[1..n -> E] : n \in 0..MaxVersion}
<1>1. \A row \in VersionRow : Plain(row) \in E
  BY DEF Plain, VersionRow
<1>2. s.current \in 0..MaxVersion /\ s.deleted \in BOOLEAN /\ s # NoSecret
  BY NullAssumption DEF SecretRow
<1>3. PlainLog(s, rows) = [hidden |-> s.deleted, length |-> s.current, log |-> log]
  BY <1>2 DEF PlainLog
<1>4. log \in [1..s.current -> E]
  <2> HIDE DEF E
  <2>1. QED BY <1>1
<1> HIDE DEF log, E
<1>5. log \in L
  BY <1>2, <1>4
<1>6. ShownLogs = [hidden : BOOLEAN, length : 0..MaxVersion, log : L]
  BY DEF ShownLogs, L, E
<1> HIDE DEF L
<1>7. PlainLog(s, rows) \in ShownLogs
  BY <1>2, <1>3, <1>5, <1>6
<1>8. PlainLog(s, rows) # NoSecret
  BY <1>7, ShownAssumption
<1>9. QED BY <1>3, <1>8 DEF log

\* One path changes.
LEMMA StoreStep ==
    ASSUME IInv, IInv', NEW p \in Paths, \A q \in Paths : q # p => SecretSame(q)
    PROVE  ShownStore' = [ShownStore EXCEPT ![p] = Seen(p)']
<1>1. ASSUME NEW q \in Paths, q # p PROVE Seen(q)' = Seen(q)
  <2>1. CASE secrets[q] = NoSecret
    BY <1>1, <2>1 DEF SecretSame, Seen, PlainLog
  <2>2. CASE secrets[q] # NoSecret
    <3> DEFINE s == secrets[q]
    <3>1. s.current \in 0..MaxVersion
      BY <2>2 DEF IInv, TypeOK, TablesTypeOK, SecretRow
    <3>2. \A v \in 1..s.current : v \in Versions
      BY <3>1, BoundsAssumption DEF Versions
    <3>3. \A v \in 1..s.current : secret_versions'[s.id][v] = secret_versions[s.id][v]
      BY <1>1, <2>2, <3>2 DEF SecretSame
    <3>4. [v \in 1..s.current |-> Plain(secret_versions'[s.id][v])] = [v \in 1..s.current |-> Plain(secret_versions[s.id][v])]
      BY <3>3
    <3>5. secrets'[q] = s
      BY <1>1 DEF SecretSame
    <3>6. QED BY <3>4, <3>5 DEF Seen, PlainLog
  <2>3. QED BY <2>1, <2>2
<1>2. QED BY <1>1, StoreSeen, StoreSeenNext

\* The versions of a secret are there.
RowsThere ==
    \A p \in Paths : secrets[p] # NoSecret =>
        /\ secrets[p] \in SecretRow /\ secrets[p].id \in Ids /\ secrets[p].current \in Nat
        /\ \A v \in 1..secrets[p].current : v \in Versions /\ secret_versions[secrets[p].id][v] \in VersionRow

LEMMA RowsAreThere == IInv => RowsThere
<1> SUFFICES ASSUME IInv, NEW p \in Paths, secrets[p] # NoSecret
             PROVE  /\ secrets[p] \in SecretRow /\ secrets[p].id \in Ids /\ secrets[p].current \in Nat
                    /\ \A v \in 1..secrets[p].current : v \in Versions /\ secret_versions[secrets[p].id][v] \in VersionRow
  BY DEF RowsThere
<1>1. secrets[p] \in SecretRow
  BY DEF IInv, TypeOK, TablesTypeOK
<1>2. secrets[p].id \in Ids /\ secrets[p].current \in 0..MaxVersion
  BY <1>1 DEF SecretRow
<1>3. \A v \in 1..secrets[p].current : v \in Versions /\ v <= secrets[p].current
  BY <1>2, BoundsAssumption DEF Versions
<1>4. \A v \in 1..secrets[p].current : secret_versions[secrets[p].id][v] \in VersionRow
  BY <1>2, <1>3 DEF IInv, TypeOK, TablesTypeOK, TablesInv, HistoryComplete
<1>5. QED BY <1>1, <1>2, <1>3, <1>4

LEMMA RowsAreThereNext == (IInv => RowsThere)'
BY RowsAreThere, PTL

\* The store at one path.
LEMMA StoreAt ==
    ASSUME IInv, NEW p \in Paths
    PROVE  /\ ShownStore[p] = Seen(p)
           /\ Promise!Length(p) = Written(p)
           /\ secrets[p] = NoSecret <=> ShownStore[p] = NoSecret
           /\ secrets[p] # NoSecret =>
                 /\ ShownStore[p].hidden = secrets[p].deleted
                 /\ ShownStore[p].length = secrets[p].current
                 /\ ShownStore[p].log = [v \in 1..secrets[p].current |-> Plain(secret_versions[secrets[p].id][v])]
                 /\ Promise!Log(p) = ShownStore[p].log
<1>1. ShownStore[p] = Seen(p)
  BY StoreSeen
<1>2. CASE secrets[p] = NoSecret
  BY <1>1, <1>2 DEF Seen, PlainLog, Promise!Length, Written
<1>3. CASE secrets[p] # NoSecret
  <2> DEFINE s == secrets[p]
             rows == secret_versions[s.id]
  <2>1. s \in SecretRow /\ \A v \in 1..s.current : rows[v] \in VersionRow
    BY <1>3, RowsAreThere DEF RowsThere
  <2>2. /\ Seen(p) # NoSecret
        /\ Seen(p).hidden = s.deleted /\ Seen(p).length = s.current
        /\ Seen(p).log = [v \in 1..s.current |-> Plain(rows[v])]
    BY <2>1, SeenFields DEF Seen
  <2>3. QED BY <1>1, <1>3, <2>2 DEF Promise!Length, Promise!Log, Written
<1>4. QED BY <1>2, <1>3

LEMMA PutWrites ==
    ASSUME IInv, IInv', NEW p \in Paths, NEW d \in Data, Put(p, d)
    PROVE  Promise!Write(p, d)
<1> DEFINE s == secrets'[p]
           n == Written(p)
           rows == secret_versions'[s.id]
           log == [v \in 1..(n + 1) |-> IF v <= n THEN Promise!Log(p)[v] ELSE [value |-> d, status |-> "live"]]
<1>1. /\ s \in SecretRow /\ s.current = n + 1 /\ s.deleted = FALSE /\ s.id \in Ids /\ s.current \in Versions
      /\ secrets[p] # NoSecret => s.id = secrets[p].id
      /\ rows[s.current].data = d /\ rows[s.current].deletion = FALSE /\ rows[s.current].destroyed = FALSE
  BY PutAppends
<1>2. s # NoSecret /\ n \in Nat
  BY <1>1, NullAssumption DEF Written, IInv, TypeOK, TablesTypeOK, SecretRow
<1>3. \A v \in 1..s.current : v \in Versions /\ rows[v] \in VersionRow
  BY <1>2, RowsAreThereNext DEF RowsThere
<1>4. Seen(p)' = [hidden |-> FALSE, length |-> n + 1, log |-> [v \in 1..(n + 1) |-> Plain(rows[v])]]
  <2>1. Seen(p)' = PlainLog(s, rows)
    BY <1>2 DEF Seen
  <2> HIDE DEF s, n, rows
  <2>2. PlainLog(s, rows) = [hidden |-> s.deleted, length |-> s.current, log |-> [v \in 1..s.current |-> Plain(rows[v])]]
    BY <1>1, <1>3, SeenFields
  <2>3. QED BY <1>1, <2>1, <2>2
<1>5. \A w \in Versions : w # s.current => rows[w] = secret_versions[s.id][w]
  <2>1. \A j \in Ids, w \in Versions :
           j # secrets'[p].id \/ w # secrets'[p].current => secret_versions'[j][w] = secret_versions[j][w]
    BY PutAppends
  <2>2. QED BY <1>1, <2>1
<1>6. ASSUME NEW v \in 1..(n + 1)
      PROVE  Plain(rows[v]) = IF v <= n THEN Promise!Log(p)[v] ELSE [value |-> d, status |-> "live"]
  <2>1. CASE v <= n
    <3>1. secrets[p] # NoSecret /\ n = secrets[p].current
      BY <1>2, <2>1 DEF Written
    <3>2. v \in 1..secrets[p].current
      BY <1>2, <2>1, <3>1
    <3>3. Promise!Log(p)[v] = Plain(secret_versions[secrets[p].id][v])
      <4>1. Promise!Log(p) = [w \in 1..secrets[p].current |-> Plain(secret_versions[secrets[p].id][w])]
        BY <3>1, StoreAt
      <4>2. QED BY <3>2, <4>1
    <3>4. rows[v] = secret_versions[s.id][v]
      <4>1. v \in 1..s.current /\ v # s.current
        BY <1>1, <1>2, <2>1
      <4> HIDE DEF rows, s
      <4>2. QED BY <1>3, <1>5, <4>1 DEF rows
    <3>5. QED BY <1>1, <2>1, <3>1, <3>3, <3>4
  <2>2. CASE ~(v <= n)
    <3>1. v = s.current
      BY <1>1, <1>2, <2>2
    <3>2. QED BY <1>1, <2>2, <3>1 DEF Plain
  <2>3. QED BY <2>1, <2>2
<1>7. [v \in 1..(n + 1) |-> Plain(rows[v])] = log
  BY <1>6
<1>8. \A q \in Paths : q # p => SecretSame(q)
  BY OthersSame DEF Put, IInv
<1>9. ShownStore' = [ShownStore EXCEPT ![p] = Seen(p)']
  BY <1>8, StoreStep
<1>10. Promise!Length(p) = n
  BY StoreAt
<1>11. Seen(p)' = [hidden |-> FALSE, length |-> n + 1, log |-> log]
  BY <1>4, <1>7
<1>12. QED BY <1>9, <1>10, <1>11 DEF Promise!Write

\* Marking a row and marking what is seen of it agree.
LEMMA MarkedSeen ==
    ASSUME NEW row \in VersionRow, NEW op \in VersionOps
    PROVE  Promise!Marked(Plain(row), op) = Plain(IF row.destroyed THEN row ELSE MutatedVersion(row, op))
<1> DEFINE e == Plain(row)
           new == MutatedVersion(row, op)
<1>1. CASE row.destroyed
  BY <1>1 DEF Plain, Promise!Marked
<1>2. CASE ~row.destroyed
  <2>1. row.deletion \in BOOLEAN /\ row.destroyed = FALSE /\ e.status # "destroyed"
    BY <1>2 DEF VersionRow, Plain
  <2>2. e.value = row.data
    BY <2>1 DEF Plain
  <2>3. CASE op = "delete"
    <3>1. new = [row EXCEPT !.deletion = TRUE]
      BY <2>3 DEF MutatedVersion
    <3>2. new.data = row.data /\ new.destroyed = FALSE /\ new.deletion = TRUE
      BY <2>1, <3>1 DEF VersionRow
    <3> HIDE DEF new
    <3>3. Plain(new) = [value |-> row.data, status |-> "deleted"]
      BY <3>2 DEF Plain
    <3>4. Promise!Marked(e, op) = [e EXCEPT !.status = "deleted"]
      BY <2>1, <2>3 DEF Promise!Marked
    <3>5. [e EXCEPT !.status = "deleted"] = [value |-> row.data, status |-> "deleted"]
      BY <2>1 DEF Plain
    <3>6. QED BY <1>2, <3>3, <3>4, <3>5 DEF new
  <2>4. CASE op = "undelete"
    <3>1. new = [row EXCEPT !.deletion = FALSE]
      BY <2>4 DEF MutatedVersion
    <3>2. new.data = row.data /\ new.destroyed = FALSE /\ new.deletion = FALSE
      BY <2>1, <3>1 DEF VersionRow
    <3> HIDE DEF new
    <3>3. Plain(new) = [value |-> row.data, status |-> "live"]
      BY <3>2 DEF Plain
    <3>4. Promise!Marked(e, op) = [e EXCEPT !.status = "live"]
      BY <2>1, <2>4 DEF Promise!Marked
    <3>5. [e EXCEPT !.status = "live"] = [value |-> row.data, status |-> "live"]
      BY <2>1 DEF Plain
    <3>6. QED BY <1>2, <3>3, <3>4, <3>5 DEF new
  <2>5. CASE op = "destroy"
    <3>1. new = [row EXCEPT !.destroyed = TRUE, !.deletion = FALSE, !.data = Wiped]
      BY <2>5 DEF MutatedVersion
    <3>2. new.destroyed = TRUE
      BY <3>1, Zenon DEF VersionRow
    <3> HIDE DEF new
    <3>3. Plain(new) = [value |-> Wiped, status |-> "destroyed"]
      BY <3>2 DEF Plain
    <3>4. Promise!Marked(e, op) = [value |-> Wiped, status |-> "destroyed"]
      BY <2>1, <2>5 DEF Promise!Marked
    <3>5. QED BY <1>2, <3>3, <3>4 DEF new
  <2>6. QED BY <2>3, <2>4, <2>5 DEF VersionOps
<1>3. QED BY <1>1, <1>2

\* Changing one field of what is seen.
LEMMA LogChanged ==
    ASSUME NEW h, NEW n, NEW l, NEW x
    PROVE  LET seen == [hidden |-> h, length |-> n, log |-> l]
           IN  /\ [seen EXCEPT !.log = x] = [hidden |-> h, length |-> n, log |-> x]
               /\ [seen EXCEPT !.hidden = x] = [hidden |-> x, length |-> n, log |-> l]
OBVIOUS

LEMMA MarksMark ==
    ASSUME IInv, IInv', NEW p \in Paths, NEW vs, NEW op \in VersionOps, Marks(p, vs, op)
    PROVE  Promise!Mark(p, vs \cap 1..Promise!Length(p), op)
<1> DEFINE s == secrets[p]
           n == s.current
           rows == secret_versions[s.id]
           rows2 == secret_versions'[s.id]
           U == vs \cap 1..n
           log == [v \in 1..n |-> Plain(rows[v])]
           log2 == [v \in 1..n |-> IF v \in U THEN Promise!Marked(log[v], op) ELSE log[v]]
<1>1. s # NoSecret /\ ~s.deleted /\ UNCHANGED secrets /\ MutateDone(p, vs, op)
  BY DEF Marks, SecretExists
<1>2. /\ s \in SecretRow /\ s.id \in Ids /\ n \in Nat
      /\ \A v \in 1..n : v \in Versions /\ rows[v] \in VersionRow
  BY <1>1, RowsAreThere DEF RowsThere
<1>3. \A v \in 1..n : rows2[v] \in VersionRow
  BY <1>1, RowsAreThereNext DEF RowsThere
<1>4. ASSUME NEW v \in 1..n PROVE Plain(rows2[v]) = IF v \in U THEN Promise!Marked(log[v], op) ELSE log[v]
  <2>1. rows[v] \in VersionRow /\ rows[v] # NoVersion /\ v \in Versions
    BY <1>2, NullAssumption
  <2>2. rows2[v] = IF v \in vs THEN (IF rows[v].destroyed THEN rows[v] ELSE MutatedVersion(rows[v], op)) ELSE rows[v]
    BY <1>1, <2>1 DEF MutateDone
  <2>3. Promise!Marked(Plain(rows[v]), op) = Plain(IF rows[v].destroyed THEN rows[v] ELSE MutatedVersion(rows[v], op))
    BY <2>1, MarkedSeen
  <2>4. log[v] = Plain(rows[v])
    OBVIOUS
  <2> HIDE DEF rows, rows2, log, n
  <2>5. CASE v \in vs
    BY <2>2, <2>3, <2>4, <2>5
  <2>6. CASE v \notin vs
    BY <2>2, <2>4, <2>6
  <2>7. QED BY <2>5, <2>6
<1>5. [v \in 1..n |-> Plain(rows2[v])] = log2
  BY <1>4
<1>6. Seen(p)' = [hidden |-> s.deleted, length |-> n, log |-> [v \in 1..n |-> Plain(rows2[v])]]
  BY <1>1, <1>2, <1>3, SeenFields DEF Seen
<1>7. Seen(p) = [hidden |-> s.deleted, length |-> n, log |-> log]
  BY <1>1, <1>2, SeenFields DEF Seen
<1>8. Promise!Length(p) = n /\ Promise!Log(p) = log /\ ShownStore[p] = Seen(p)
        /\ ShownStore[p] # NoSecret /\ ~ShownStore[p].hidden
  BY <1>1, StoreAt DEF Written
<1>9. \A q \in Paths : q # p => SecretSame(q)
  BY <1>1, OthersSame DEF IInv
<1>10. ShownStore' = [ShownStore EXCEPT ![p] = Seen(p)']
  BY <1>9, StoreStep
<1> HIDE DEF log, log2, rows, rows2
<1>11. Seen(p)' = [ShownStore[p] EXCEPT !.log = log2]
  <2>1. [[hidden |-> s.deleted, length |-> n, log |-> log] EXCEPT !.log = log2]
          = [hidden |-> s.deleted, length |-> n, log |-> log2]
    BY LogChanged
  <2> HIDE DEF n, s
  <2>2. ShownStore[p] = [hidden |-> s.deleted, length |-> n, log |-> log]
    BY <1>7, <1>8
  <2>3. Seen(p)' = [hidden |-> s.deleted, length |-> n, log |-> log2]
    BY <1>5, <1>6
  <2>4. QED BY <2>1, <2>2, <2>3
<1>12. ShownStore' = [ShownStore EXCEPT ![p].log = log2]
  BY <1>10, <1>11
<1>13. QED BY <1>8, <1>12 DEF Promise!Mark, log2

LEMMA HidesHide ==
    ASSUME IInv, IInv', NEW p \in Paths, Hides(p)
    PROVE  Promise!Hide(p)
<1> DEFINE s == secrets[p]
           s2 == secrets'[p]
           n == s.current
           h == s2.deleted
           rows == secret_versions[s.id]
           log == [v \in 1..n |-> Plain(rows[v])]
<1>1. s # NoSecret /\ s2 \in SecretRow /\ s2.id = s.id /\ s2.current = n /\ s2.deleted = TRUE /\ UNCHANGED secret_versions
  BY DEF Hides, SoftDeleteDone
<1>2. s \in SecretRow /\ \A v \in 1..n : rows[v] \in VersionRow
  BY <1>1, RowsAreThere DEF RowsThere
<1>3. Seen(p)' = [hidden |-> h, length |-> n, log |-> log]
  <2>1. Seen(p)' = PlainLog(s2, rows)
    BY <1>1 DEF Seen
  <2>2. PlainLog(s2, rows) = [hidden |-> s2.deleted, length |-> s2.current, log |-> [v \in 1..s2.current |-> Plain(rows[v])]]
    <3>1. \A v \in 1..s2.current : rows[v] \in VersionRow
      BY <1>1, <1>2
    <3> HIDE DEF rows, s2
    <3>2. QED BY <1>1, <3>1, SeenFields
  <2>3. QED BY <1>1, <2>1, <2>2
<1>4. Seen(p) = [hidden |-> s.deleted, length |-> n, log |-> log]
  BY <1>2, SeenFields DEF Seen
<1>5. ShownStore[p] = Seen(p) /\ ShownStore[p] # NoSecret
  BY <1>1, StoreAt
<1>6. \A q \in Paths : q # p => SecretSame(q)
  BY OthersSame DEF Hides, IInv
<1>7. ShownStore' = [ShownStore EXCEPT ![p] = Seen(p)']
  BY <1>6, StoreStep
<1> HIDE DEF log, rows, h, s2
<1>8. Seen(p)' = [ShownStore[p] EXCEPT !.hidden = h]
  <2> HIDE DEF n, s
  <2>1. [[hidden |-> s.deleted, length |-> n, log |-> log] EXCEPT !.hidden = h]
          = [hidden |-> h, length |-> n, log |-> log]
    BY LogChanged
  <2>2. ShownStore[p] = [hidden |-> s.deleted, length |-> n, log |-> log]
    BY <1>4, <1>5
  <2>3. QED BY <1>3, <2>1, <2>2, Zenon
<1>9. ShownStore' = [ShownStore EXCEPT ![p].hidden = h]
  BY <1>7, <1>8
<1>10. h = TRUE
  BY <1>1 DEF h
<1>11. QED BY <1>5, <1>9, <1>10, Zenon DEF Promise!Hide

LEMMA PurgePurges ==
    ASSUME IInv, IInv', NEW p \in Paths, PurgeDone(p)
    PROVE  Promise!Purge(p)
<1>1. \A q \in Paths : q # p => SecretSame(q)
  BY OthersSame DEF IInv
<1>2. ShownStore' = [ShownStore EXCEPT ![p] = Seen(p)']
  BY <1>1, StoreStep
<1>3. Seen(p)' = NoSecret
  BY DEF PurgeDone, Seen, PlainLog
<1>4. QED BY <1>2, <1>3 DEF Promise!Purge

\* A step that leaves the secrets and their versions alone: keys may change, and
\* nothing a client sees does.
LEMMA NothingSeen ==
    ASSUME IInv, IInv', UNCHANGED <<secrets, secret_versions>>
    PROVE  ShownStore' = ShownStore
<1>1. \A p \in Paths : Seen(p)' = Seen(p)
  BY DEF Seen
<1>2. QED BY <1>1, StoreSeen, StoreSeenNext

\* The tables, transactions, retries and keys together implement the append-only
\* versioned log of VersionedKV: every step of the server is one write, mark,
\* hide or purge of one path, or invisible to the clients.
THEOREM VersionedKVImplemented == Spec => ImplementsVersionedKV
<1>1. Init => Promise!Init
  <2> SUFFICES ASSUME Init PROVE Promise!Init
    OBVIOUS
  <2>1. \A p \in Paths : secrets[p] = NoSecret
    BY DEF Init, TablesInit
  <2>2. QED BY <2>1 DEF Promise!Init, ShownStore
<1>2. IInv /\ [Next]_vars => [Promise!Next]_ShownStore
  <2> SUFFICES ASSUME IInv, [Next]_vars PROVE Promise!Next \/ UNCHANGED ShownStore
    OBVIOUS
  <2>0. IInv'
    BY InvStep
  <2>1. CASE UNCHANGED vars
    BY <2>0, <2>1, NothingSeen DEF vars, tables
  <2>2. CASE Next
    <3>1. CASE UNCHANGED <<secrets, secret_versions>>
      BY <2>0, <3>1, NothingSeen
    <3>2. ASSUME NEW p \in Paths, NEW d \in Data, Put(p, d) PROVE Promise!Next
      <4>1. Promise!Write(p, d)
        BY <2>0, <3>2, PutWrites
      <4>2. QED BY <4>1 DEF Promise!Next
    <3>3. ASSUME NEW p \in Paths, NEW vs \in SUBSET Versions, NEW op \in VersionOps, Marks(p, vs, op) PROVE Promise!Next
      <4>1. Promise!Mark(p, vs \cap 1..Promise!Length(p), op)
        BY <2>0, <3>3, MarksMark
      <4>2. QED BY <4>1 DEF Promise!Next, VersionOps
    <3>4. ASSUME NEW p \in Paths, Hides(p) PROVE Promise!Next
      <4>1. Promise!Hide(p)
        BY <2>0, <3>4, HidesHide
      <4>2. QED BY <4>1 DEF Promise!Next
    <3>5. ASSUME NEW p \in Paths, PurgeDone(p) PROVE Promise!Next
      <4>1. Promise!Purge(p)
        BY <2>0, <3>5, PurgePurges
      <4>2. QED BY <4>1 DEF Promise!Next
    <3>6. QED BY <2>2, <3>1, <3>2, <3>3, <3>4, <3>5, TablesStep
  <2>3. QED BY <2>1, <2>2
<1>3. QED BY <1>1, <1>2, Invariance, PTL DEF Spec, ImplementsVersionedKV, Promise!Spec
=============================================================================
