--------------------------- MODULE ApprovalsProofs ---------------------------
(***************************************************************************)
(* Reviewed writes, for any number of accounts, paths, versions, approval  *)
(* requests and request goroutines.                                        *)
(*                                                                         *)
(* The invariant of the tables and the types hold whatever the clients     *)
(* send.  What review promises is proved for clients that spell a path as  *)
(* the server stores it (CleanPaths): the put of an approved request goes  *)
(* to the path as the client wrote it, which is a finding of this project. *)
(***************************************************************************)
EXTENDS Approvals, SecretTablesProofs, FiniteSetTheorems

CleanPaths == \A p \in Paths : Norm[p] = p

-----------------------------------------------------------------------------
\* The inductive invariant of review.

\* Puts that were let in without review and have not been written yet.
Waiting(p) == {c \in Requests : req[c] # Idle /\ req[c].kind = "secret.put" /\ ~req[c].review /\ req[c].path = p}

Rows == {a \in Approvals : approval_requests[a] # NoApproval}
Busy == {c \in Requests : req[c] # Idle}

\* A request names the path it is for.
Resources == \A a \in Rows : approval_requests[a].resource = approval_requests[a].path

\* A change that will not be reviewed is counted.
Counted == \A c \in Busy : req[c].kind # "resolve" /\ ~req[c].review => unreviewed[req[c].path] > 0

\* Versions, purged ones included, are approved puts and puts that were let in
\* without review; those that are still waiting will be.
BalancedAt(p) ==
    /\ Cardinality(Approved("secret.put", p)) <= Written(p) + purged[p]
    /\ Written(p) + purged[p] + Cardinality(Waiting(p)) <= Cardinality(Approved("secret.put", p)) + unreviewed[p]

\* Where nothing was let in without review, every version is vouched for.
VouchedAt(p) ==
    unreviewed[p] = 0 /\ secrets[p] # NoSecret =>
        /\ \A v \in 1..Written(p) :
              \E a \in Approved("secret.put", p) : Vouches(approval_requests[a], secret_versions[secrets[p].id][v])
        /\ secrets[p].deleted => Approved("secret.delete", p) # {}

Finite == IsFiniteSet(Rows) /\ IsFiniteSet(Busy)

ReviewKept == Finite /\ Resources /\ Counted /\ \A p \in Paths : BalancedAt(p) /\ VouchedAt(p)

ReviewInv == IInv /\ ReviewKept

-----------------------------------------------------------------------------
\* Types and tables.

LEMMA LetInTyped ==
    ASSUME unreviewed \in [Paths -> Nat], NEW p \in Paths, NEW review, LetIn(p, review)
    PROVE  unreviewed' \in [Paths -> Nat]
<1>1. Norm[p] \in Paths /\ unreviewed[Norm[p]] + 1 \in Nat
  BY WorkflowAssumption
<1>2. QED BY <1>1 DEF LetIn

LEMMA StartPutTyped ==
    ASSUME IInv, NEW c \in Requests, NEW u \in Users, NEW p \in Paths, NEW cap, NEW d \in Data, NEW label \in Labels,
           StartPut(c, u, p, cap, d, label)
    PROVE  IInv'
<1> DEFINE new == [kind |-> "secret.put", user |-> u, path |-> p, data |-> d, label |-> label,
                   review |-> ApprovalRequired("secret_write")]
<1>1. req' = [req EXCEPT ![c] = new] /\ LetIn(p, ApprovalRequired("secret_write"))
        /\ UNCHANGED <<tables, approval_requests, settings, purged>>
  BY DEF StartPut
<1>2. new \in Change
  BY DEF Change, ApprovalRequired
<1> HIDE DEF new
<1>3. TablesInv'
  BY <1>1 DEF IInv, tables, TablesInv, TablesTypeOK, KeysKept, HistoryComplete, Sealed, IdsDrawn
<1>4. unreviewed' \in [Paths -> Nat]
  BY <1>1, LetInTyped DEF IInv, TypeOK
<1>5. QED BY <1>1, <1>2, <1>3, <1>4 DEF IInv, TypeOK, TablesInv, settings

LEMMA StutterTables ==
    ASSUME TablesInv, UNCHANGED tables
    PROVE  TablesInv'
BY DEF tables, TablesInv, TablesTypeOK, KeysKept, HistoryComplete, Sealed, IdsDrawn

\* A put or a delete of the tables in the name of u, as a handler without review
\* and an approved request do it.
LEMMA ChangeKeeps ==
    ASSUME TablesInv, NEW p \in Paths, NEW u \in Users, NEW d \in Data, NEW l \in Labels,
           \/ PutSecretTx(p, u, personal_key_version[u], d, l, l)
           \/ SoftDelete(p) /\ UNCHANGED <<secret_versions, issued>>,
           UNCHANGED <<user_keys, personal_key_version>>
    PROVE  TablesInv'
BY PutSecretKeeps, SoftDeleteKeepsTables

LEMMA DeleteTyped ==
    ASSUME IInv, NEW c \in Requests, NEW u \in Users, NEW p \in Paths,
           DeleteSecret(c, u, p)
    PROVE  IInv'
<1> DEFINE d == CHOOSE x \in Data : TRUE
           new == [kind |-> "secret.delete", user |-> u, path |-> p, data |-> d, label |-> Blank,
                   review |-> ApprovalRequired("secret_delete")]
<1>1. req' = [req EXCEPT ![c] = new] /\ LetIn(p, ApprovalRequired("secret_delete"))
        /\ UNCHANGED <<tables, approval_requests, settings, purged>>
  BY DEF DeleteSecret
<1>2. d \in Data
  BY ValuesAssumption
<1> HIDE DEF d
<1>3. new \in Change
  BY <1>2, ValuesAssumption DEF Change, ApprovalRequired
<1> HIDE DEF new
<1>4. unreviewed' \in [Paths -> Nat]
  BY <1>1, LetInTyped DEF IInv, TypeOK
<1>5. QED BY <1>1, <1>3, <1>4, StutterTables DEF IInv, TypeOK, TablesInv, settings

\* The changed row of a request that was decided.
Decided(row, decision, u) == [row EXCEPT !.status = decision, !.approver = u]

LEMMA DecidedRow ==
    ASSUME NEW row \in Approval, NEW decision \in Decisions, NEW u \in Users
    PROVE  LET new == Decided(row, decision, u)
           IN  /\ new \in Approval
               /\ new.status = decision /\ new.approver = u /\ new.action = row.action /\ new.resource = row.resource
               /\ new.path = row.path /\ new.data = row.data /\ new.label = row.label /\ new.requester = row.requester
<1> DEFINE S == {"pending"} \cup Decisions
           A == Users \cup {Nobody}
           K == {"secret.put", "secret.delete"}
<1>1. decision \in S /\ u \in A
  OBVIOUS
<1>2. Approval = [action : K, resource : Paths, path : Paths, data : Data, label : Labels, requester : Users,
                  status : S, approver : A]
  BY DEF Approval
<1> HIDE DEF S, A, K
<1>3. Decided(row, decision, u) \in Approval
  BY <1>1, <1>2, Zenon DEF Decided
<1>4. QED BY <1>2, <1>3, Zenon DEF Decided

LEMMA CreateApprovalTyped ==
    ASSUME IInv, NEW c \in Requests, CreateApproval(c)
    PROVE  IInv'
<1> DEFINE r == req[c]
           new == [action |-> r.kind, resource |-> IF r.kind = "secret.put" THEN Norm[r.path] ELSE r.path,
                   path |-> r.path, data |-> r.data, label |-> r.label,
                   requester |-> r.user, status |-> "pending", approver |-> Nobody]
<1>1. r \in Change
  <2>1. r \in Change \cup Review /\ r.kind # "resolve"
    BY DEF CreateApproval, IInv, TypeOK
  <2>2. QED BY <2>1 DEF Review
<1>2. PICK a \in Approvals : approval_requests' = [approval_requests EXCEPT ![a] = new]
  BY DEF CreateApproval
<1>3. new \in Approval
  BY <1>1, WorkflowAssumption DEF Change, Approval
<1> HIDE DEF new
<1>4. approval_requests' \in [Approvals -> Approval \cup {NoApproval}]
  BY <1>2, <1>3 DEF IInv, TypeOK
<1>5. QED BY <1>4, StutterTables DEF CreateApproval, IInv, TypeOK, TablesInv, settings

\* The change a handler is about to write, when it is one.
LEMMA ChangeTyped ==
    ASSUME IInv, NEW c \in Requests, req[c] # Idle, req[c].kind # "resolve"
    PROVE  /\ req[c] \in Change /\ req[c].user \in Users /\ req[c].path \in Paths
           /\ req[c].data \in Data /\ req[c].label \in Labels /\ Norm[req[c].path] \in Paths
           /\ req[c].kind \in {"secret.put", "secret.delete"}
<1>1. req[c] \in Change
  <2>1. req[c] \in Change \cup Review
    BY DEF IInv, TypeOK
  <2>2. QED BY <2>1 DEF Review
<1>2. QED BY <1>1, WorkflowAssumption DEF Change

LEMMA WriteDirectlyTyped ==
    ASSUME IInv, NEW c \in Requests, WriteDirectly(c)
    PROVE  IInv'
<1> DEFINE r == req[c]
           p == Norm[r.path]
<1>1. r.user \in Users /\ p \in Paths /\ r.data \in Data /\ r.label \in Labels
  BY ChangeTyped DEF WriteDirectly
<1>2. \/ PutSecretTx(p, r.user, personal_key_version[r.user], r.data, r.label, r.label)
      \/ SoftDelete(p) /\ UNCHANGED <<secret_versions, issued>>
  BY DEF WriteDirectly
<1>3. UNCHANGED <<user_keys, personal_key_version, approval_requests, settings, unreviewed, purged>>
        /\ req' = [req EXCEPT ![c] = Idle]
  BY DEF WriteDirectly
<1>4. TablesInv'
  BY <1>1, <1>2, <1>3, ChangeKeeps DEF IInv
<1>5. QED BY <1>3, <1>4 DEF IInv, TypeOK, TablesInv, settings

LEMMA StartReviewTyped ==
    ASSUME IInv, NEW c \in Requests, NEW u \in Users, NEW a \in Approvals, NEW decision \in Decisions,
           StartReview(c, u, a, decision)
    PROVE  IInv'
<1> DEFINE new == [kind |-> "resolve", user |-> u, id |-> a, decision |-> decision]
<1>1. req' = [req EXCEPT ![c] = new] /\ UNCHANGED <<tables, approval_requests, settings, unreviewed, purged>>
  BY DEF StartReview
<1>2. new \in Review
  BY DEF Review
<1> HIDE DEF new
<1>3. QED BY <1>1, <1>2, StutterTables DEF IInv, TypeOK, TablesInv, settings

\* What a reviewer's transaction finds.
LEMMA ReviewTyped ==
    ASSUME IInv, NEW c \in Requests, ResolveApproval(c)
    PROVE  LET r == req[c]
               row == approval_requests[r.id]
           IN  /\ r.user \in Users /\ r.id \in Approvals /\ r.decision \in Decisions
               /\ row \in Approval /\ row # NoApproval
               /\ approval_requests' = [approval_requests EXCEPT ![r.id] = Decided(row, r.decision, r.user)]
               /\ row.status = "pending" /\ row.requester # r.user
               /\ row.requester \in Users /\ row.path \in Paths /\ row.resource \in Paths
               /\ row.data \in Data /\ row.label \in Labels /\ row.action \in {"secret.put", "secret.delete"}
<1> DEFINE r == req[c]
           row == approval_requests[r.id]
<1>1. r \in Review
  <2>1. r \in Change \cup Review /\ r.kind = "resolve"
    BY DEF ResolveApproval, IInv, TypeOK
  <2>2. QED BY <2>1 DEF Change
<1>2. r.user \in Users /\ r.id \in Approvals /\ r.decision \in Decisions
  BY <1>1 DEF Review
<1>3. row # NoApproval /\ row.status = "pending" /\ row.requester # r.user
  BY DEF ResolveApproval, Resolvable
<1>4. row \in Approval
  BY <1>2, <1>3 DEF IInv, TypeOK
<1>5. approval_requests' = [approval_requests EXCEPT ![r.id] = Decided(row, r.decision, r.user)]
  BY Zenon DEF ResolveApproval, Decided
<1>6. /\ row.requester \in Users /\ row.path \in Paths /\ row.resource \in Paths
      /\ row.data \in Data /\ row.label \in Labels /\ row.action \in {"secret.put", "secret.delete"}
  BY <1>4 DEF Approval
<1>7. QED BY <1>2, <1>3, <1>4, <1>5, <1>6

LEMMA ResolveApprovalTyped ==
    ASSUME IInv, NEW c \in Requests, ResolveApproval(c)
    PROVE  IInv'
<1> DEFINE r == req[c]
           row == approval_requests[r.id]
           new == Decided(row, r.decision, r.user)
<1>1. UNCHANGED <<user_keys, personal_key_version, settings, unreviewed, purged>> /\ req' = [req EXCEPT ![c] = Idle]
  BY DEF ResolveApproval
<1>2. TablesInv'
  <2>1. CASE r.decision = "approved"
    <3>1. CASE row.action = "secret.put"
      <4>1. PutSecretTx(row.path, row.requester, personal_key_version[row.requester], row.data, row.label, row.label)
        BY <2>1, <3>1 DEF ResolveApproval, Apply
      <4>2. row.requester \in Users /\ row.path \in Paths /\ row.data \in Data /\ row.label \in Labels
        BY ReviewTyped
      <4>3. QED BY <1>1, <4>1, <4>2, PutSecretKeeps DEF IInv
    <3>2. CASE row.action # "secret.put"
      <4>1. SoftDelete(row.resource) /\ UNCHANGED <<secret_versions, issued>>
        BY <2>1, <3>2 DEF ResolveApproval, Apply
      <4>2. QED BY <1>1, <4>1, ReviewTyped, SoftDeleteKeepsTables DEF IInv
    <3>3. QED BY <3>1, <3>2
  <2>2. CASE r.decision # "approved"
    BY <1>1, <2>2, StutterTables DEF ResolveApproval, tables, IInv
  <2>3. QED BY <2>1, <2>2
<1>3. new \in Approval
  BY ReviewTyped, DecidedRow
<1>4. approval_requests' = [approval_requests EXCEPT ![r.id] = new]
  BY ReviewTyped
<1> HIDE DEF new
<1>5. approval_requests' \in [Approvals -> Approval \cup {NoApproval}]
  BY <1>3, <1>4 DEF IInv, TypeOK
<1>6. QED BY <1>1, <1>2, <1>5 DEF IInv, TypeOK, TablesInv, settings

LEMMA BaoKVWriteTyped ==
    ASSUME IInv, NEW u \in Users, NEW p \in Paths, NEW d \in Data, BaoKVWrite(u, p, d)
    PROVE  IInv'
<1>1. personal_key_version[u] \in KeyVersions /\ personal_key_version[u] <= personal_key_version[u]
  BY DEF IInv, TablesInv, TablesTypeOK, KeyVersions
<1>2. TablesInv'
  BY <1>1, PutOpenBaoKeeps DEF BaoKVWrite, IInv
<1>3. unreviewed' \in [Paths -> Nat]
  BY LetInTyped DEF BaoKVWrite, IInv, TypeOK
<1>4. QED BY <1>2, <1>3 DEF BaoKVWrite, IInv, TypeOK, TablesInv, settings

\* What /v1 does to the versions of a secret that is there.
LEMMA V1MutatesIs ==
    ASSUME NEW u \in Users, NEW p \in Paths,
           \/ \E op \in {"delete", "undelete", "destroy"}, vs \in SUBSET Versions : BaoKVMutateVersions(u, p, op, vs)
           \/ BaoKVDeleteLatest(u, p)
    PROVE  /\ secrets[p] # NoSecret
           /\ \E op \in {"delete", "undelete", "destroy"} : \E vs : MutateVersions(p, vs, op)
           /\ UNCHANGED <<secrets, user_keys, personal_key_version, issued>>
           /\ UNCHANGED <<approval_requests, settings, req, unreviewed, purged>>
BY Zenon DEF BaoKVMutateVersions, BaoKVDeleteLatest, SecretExists

LEMMA V1Typed ==
    ASSUME IInv, V1
    PROVE  IInv'
<1> PICK u \in Users, p \in Paths :
        \/ \E d \in Data : BaoKVWrite(u, p, d)
        \/ \E op \in {"delete", "undelete", "destroy"}, vs \in SUBSET Versions : BaoKVMutateVersions(u, p, op, vs)
        \/ BaoKVDeleteLatest(u, p)
        \/ BaoKVMetadataDelete(u, p)
  BY Zenon DEF V1
<1>1. CASE \E d \in Data : BaoKVWrite(u, p, d)
  BY <1>1, BaoKVWriteTyped
<1>2. CASE \/ \E op \in {"delete", "undelete", "destroy"}, vs \in SUBSET Versions : BaoKVMutateVersions(u, p, op, vs)
           \/ BaoKVDeleteLatest(u, p)
  <2>1. TablesInv'
    BY <1>2, V1MutatesIs, MutateKeepsTables DEF IInv
  <2>2. QED BY <1>2, <2>1, V1MutatesIs DEF IInv, TypeOK, TablesInv, settings
<1>3. CASE BaoKVMetadataDelete(u, p)
  <2>1. TablesInv'
    BY <1>3, PurgeKeepsTables DEF BaoKVMetadataDelete, IInv
  <2>2. secrets[p].current \in Nat
    BY <1>3, BoundsAssumption DEF BaoKVMetadataDelete, PurgeSecret, IInv, TablesInv, TablesTypeOK, SecretRow
  <2>3. purged' \in [Paths -> Nat]
    BY <1>3, <2>2 DEF BaoKVMetadataDelete, IInv, TypeOK
  <2>4. QED BY <1>3, <2>1, <2>3 DEF BaoKVMetadataDelete, IInv, TypeOK, TablesInv, settings
<1>4. QED BY <1>1, <1>2, <1>3

LEMMA SettingsTyped ==
    ASSUME IInv,
           \/ \E u \in Users : SetActive(u)
           \/ \E g \in GrantSets : SetPolicies(g)
           \/ \E w \in Workflows : SetWorkflow(w)
    PROVE  IInv'
<1>1. TablesInv'
  BY StutterTables DEF SetActive, SetPolicies, SetWorkflow, IInv
<1>2. QED BY <1>1 DEF SetActive, SetPolicies, SetWorkflow, IInv, TypeOK, TablesInv

LEMMA InvNext ==
    ASSUME IInv, Next
    PROVE  IInv'
<1>1. ASSUME NEW c \in Requests, Accept(c) PROVE IInv'
  <2>1. ASSUME NEW u \in Users, NEW p \in Paths, NEW d \in Data, RotateSecret(c, u, p, d) PROVE IInv'
    <3>1. secrets[Norm[p]].attrs \in Labels
      BY <2>1, WorkflowAssumption DEF RotateSecret, SecretExists, IInv, TablesInv, TablesTypeOK, SecretRow
    <3>2. QED BY <2>1, <3>1, StartPutTyped DEF RotateSecret
  <2>2. QED BY <1>1, <2>1, StartPutTyped, DeleteTyped, StartReviewTyped
            DEF Accept, CreateSecret, UpdateSecret
<1>2. ASSUME NEW c \in Requests, GiveUp(c) PROVE IInv'
  BY <1>2, StutterTables DEF GiveUp, IInv, TypeOK, TablesInv, settings
<1>3. QED BY <1>1, <1>2, CreateApprovalTyped, WriteDirectlyTyped, ResolveApprovalTyped, V1Typed, SettingsTyped
         DEF Next

LEMMA InvInit ==
    ASSUME Init
    PROVE  IInv
<1>1. TablesInv
  BY TablesInvInit DEF Init
<1>2. QED BY <1>1, BoundsAssumption DEF Init, IInv, TypeOK, TablesInv

LEMMA InvStutter ==
    ASSUME IInv, UNCHANGED vars
    PROVE  IInv'
BY StutterTables DEF vars, IInv, TypeOK, TablesInv

\* Approved changes keep the tables consistent like any other write, whatever
\* spelling of a path the clients use.
THEOREM ApprovalsInvariance == Spec => []IInv
<1>1. IInv /\ [Next]_vars => IInv'
  BY InvNext, InvStutter
<1>2. Init => IInv
  BY InvInit
<1>3. QED BY <1>1, <1>2, PTL DEF Spec

LEMMA RowsFinalNext ==
    ASSUME IInv, Next
    PROVE  RowsFinal
<1>1. CASE UNCHANGED approval_requests
  BY <1>1 DEF RowsFinal
<1>2. ASSUME NEW c \in Requests, CreateApproval(c) PROVE RowsFinal
  <2>1. PICK a \in Approvals : /\ approval_requests[a] = NoApproval
                               /\ \A b \in Approvals : b # a => approval_requests'[b] = approval_requests[b]
    BY <1>2 DEF CreateApproval, IInv, TypeOK
  <2>2. QED BY <2>1 DEF RowsFinal
<1>3. ASSUME NEW c \in Requests, ResolveApproval(c) PROVE RowsFinal
  <2>1. approval_requests[req[c].id].status = "pending"
    BY <1>3, ReviewTyped
  <2>2. \A b \in Approvals : b # req[c].id => approval_requests'[b] = approval_requests[b]
    BY <1>3, ReviewTyped DEF IInv, TypeOK
  <2>3. QED BY <2>1, <2>2 DEF RowsFinal
<1>4. ASSUME NEW c \in Requests, Accept(c) \/ WriteDirectly(c) \/ GiveUp(c) PROVE UNCHANGED approval_requests
  BY <1>4, Zenon
     DEF Accept, CreateSecret, UpdateSecret, RotateSecret, StartPut, DeleteSecret, StartReview, WriteDirectly, GiveUp
<1>5. ASSUME \/ V1
             \/ \E u \in Users : SetActive(u)
             \/ \E g \in GrantSets : SetPolicies(g)
             \/ \E w \in Workflows : SetWorkflow(w)
      PROVE  UNCHANGED approval_requests
  BY <1>5, Zenon DEF V1, BaoKVWrite, BaoKVMutateVersions, BaoKVDeleteLatest, BaoKVMetadataDelete,
                     SetActive, SetPolicies, SetWorkflow
<1>6. QED BY <1>1, <1>2, <1>3, <1>4, <1>5, Zenon DEF Next

\* A request is decided once, however many reviewers decide about it at a time:
\* afterwards its row never changes.
THEOREM RequestsDecidedOnce == Spec => DecidedOnce
<1>1. IInv /\ [Next]_vars => [RowsFinal]_vars
  BY RowsFinalNext
<1>2. QED BY <1>1, ApprovalsInvariance, PTL DEF Spec, DecidedOnce

-----------------------------------------------------------------------------
\* The sets that the invariant counts.

LEMMA Smaller ==
    ASSUME NEW T, IsFiniteSet(T), NEW S, S \subseteq T
    PROVE  IsFiniteSet(S) /\ Cardinality(S) \in Nat /\ Cardinality(T) \in Nat /\ Cardinality(S) <= Cardinality(T)
BY FS_Subset, FS_CardinalityType

LEMMA OneMore ==
    ASSUME NEW S, IsFiniteSet(S), NEW x
    PROVE  /\ IsFiniteSet(S \cup {x}) /\ Cardinality(S) \in Nat /\ Cardinality(S \cup {x}) \in Nat
           /\ Cardinality(S \cup {x}) <= Cardinality(S) + 1
           /\ x \notin S => Cardinality(S \cup {x}) = Cardinality(S) + 1
<1>1. IsFiniteSet(S \cup {x}) /\ Cardinality(S) \in Nat /\ Cardinality(S \cup {x}) \in Nat
  BY FS_AddElement, FS_CardinalityType
<1>2. Cardinality(S \cup {x}) = Cardinality(S) \/ Cardinality(S \cup {x}) = Cardinality(S) + 1
  BY FS_AddElement
<1>3. x \notin S => Cardinality(S \cup {x}) = Cardinality(S) + 1
  BY FS_AddElement
<1>4. QED BY <1>1, <1>2, <1>3

\* One request goroutine turns to another change, or to none.
LEMMA WaitingAfter ==
    ASSUME IInv, Finite, NEW c \in Requests, NEW new, req' = [req EXCEPT ![c] = new]
    PROVE  /\ IsFiniteSet(Busy')
           /\ \A p \in Paths :
                 LET n == Cardinality(Waiting(p))
                     m == Cardinality(Waiting(p)')
                     direct == new # Idle /\ new.kind = "secret.put" /\ ~new.review /\ new.path = p
                 IN  /\ n \in Nat /\ m \in Nat /\ m <= n + 1
                     /\ ~direct => m <= n
                     /\ ~direct /\ c \in Waiting(p) => m = n - 1
<1>1. \A b \in Requests : req'[b] = IF b = c THEN new ELSE req[b]
  BY DEF IInv, TypeOK
<1>2. IsFiniteSet(Busy')
  <2>1. Busy' \subseteq Busy \cup {c}
    BY <1>1 DEF Busy
  <2>2. IsFiniteSet(Busy \cup {c})
    BY FS_AddElement DEF Finite
  <2>3. QED BY <2>1, <2>2, FS_Subset
<1>3. ASSUME NEW p \in Paths
      PROVE  LET n == Cardinality(Waiting(p))
                 m == Cardinality(Waiting(p)')
                 direct == new # Idle /\ new.kind = "secret.put" /\ ~new.review /\ new.path = p
             IN  /\ n \in Nat /\ m \in Nat /\ m <= n + 1
                 /\ ~direct => m <= n
                 /\ ~direct /\ c \in Waiting(p) => m = n - 1
  <2> DEFINE S == Waiting(p)
             T == Waiting(p)'
             direct == new # Idle /\ new.kind = "secret.put" /\ ~new.review /\ new.path = p
  <2>0. \A b \in Requests : b # c => (b \in T <=> b \in S)
    BY <1>1 DEF Waiting
  <2>1. T \subseteq S \cup {c} /\ (~direct => T = S \ {c})
    <3>1. S \subseteq Requests /\ T \subseteq Requests
      BY DEF Waiting
    <3>2. ~direct => c \notin T
      BY <1>1 DEF Waiting
    <3> HIDE DEF S, T, direct
    <3>3. QED BY <2>0, <3>1, <3>2
  <2>2. IsFiniteSet(S)
    <3>1. S \subseteq Busy
      BY DEF Waiting, Busy
    <3>2. QED BY <3>1, FS_Subset DEF Finite
  <2> HIDE DEF S, T, direct
  <2>3. IsFiniteSet(S \cup {c}) /\ Cardinality(S \cup {c}) \in Nat /\ Cardinality(S) \in Nat
          /\ Cardinality(S \cup {c}) <= Cardinality(S) + 1
    BY <2>2, OneMore
  <2>4. Cardinality(T) \in Nat /\ Cardinality(T) <= Cardinality(S) + 1
    BY <2>1, <2>3, Smaller
  <2>5. ~direct => Cardinality(T) <= Cardinality(S)
    BY <2>1, <2>2, Smaller
  <2>6. ~direct /\ c \in S => Cardinality(T) = Cardinality(S) - 1
    BY <2>1, <2>2, FS_RemoveElement
  <2>7. QED BY <2>3, <2>4, <2>5, <2>6 DEF S, T, direct
<1>4. QED BY <1>2, <1>3

LEMMA ApprovedFinite ==
    ASSUME Finite, NEW x, NEW p
    PROVE  IsFiniteSet(Approved(x, p)) /\ Cardinality(Approved(x, p)) \in Nat
<1>1. Approved(x, p) \subseteq Rows
  BY DEF Approved, Rows
<1>2. QED BY <1>1, Smaller DEF Finite

\* The numbers of a path are numbers.
LEMMA Numbers ==
    ASSUME IInv, NEW p \in Paths
    PROVE  Written(p) \in 0..MaxVersion /\ unreviewed[p] \in Nat /\ purged[p] \in Nat /\ MaxVersion \in Nat \ {0}
BY BoundsAssumption DEF IInv, TypeOK, TablesInv, TablesTypeOK, SecretRow, Written

\* The approved requests of a path are, and their rows.
ApprovedSame(p) ==
    /\ Approved("secret.put", p)' = Approved("secret.put", p)
    /\ Approved("secret.delete", p) \subseteq Approved("secret.delete", p)'
    /\ \A a \in Approved("secret.put", p) : approval_requests'[a] = approval_requests[a]

\* A path that a step does not touch.
LEMMA Untouched ==
    ASSUME IInv, Finite, NEW p \in Paths, BalancedAt(p), VouchedAt(p), SecretSame(p), ApprovedSame(p),
           unreviewed'[p] = unreviewed[p], purged'[p] = purged[p],
           Cardinality(Waiting(p)) \in Nat, Cardinality(Waiting(p)') \in Nat,
           Cardinality(Waiting(p)') <= Cardinality(Waiting(p))
    PROVE  BalancedAt(p)' /\ VouchedAt(p)'
<1>1. Written(p)' = Written(p)
  BY DEF Written, SecretSame
<1>2. Cardinality(Approved("secret.put", p)) \in Nat
  BY ApprovedFinite
<1>3. BalancedAt(p)'
  BY <1>1, <1>2, Numbers DEF BalancedAt, ApprovedSame
<1>4. VouchedAt(p)'
  <2>1. \A v \in 1..Written(p) : v \in Versions
    BY Numbers DEF Versions
  <2>2. QED BY <1>1, <2>1 DEF VouchedAt, SecretSame, ApprovedSame
<1>5. QED BY <1>3, <1>4

LEMMA ApprovedStays ==
    ASSUME UNCHANGED approval_requests
    PROVE  Rows' = Rows /\ (Resources => Resources') /\ \A p \in Paths : ApprovedSame(p)
BY DEF Rows, Resources, ApprovedSame, Approved

LEMMA TablesStay ==
    ASSUME UNCHANGED tables
    PROVE  \A p \in Paths : SecretSame(p)
BY DEF tables, SecretSame

\* A goroutine that turns to something that is not a change, tables and
\* requests as they were.
LEMMA Retired ==
    ASSUME ReviewInv, NEW c \in Requests, NEW new, req' = [req EXCEPT ![c] = new],
           new = Idle \/ new.kind = "resolve",
           UNCHANGED <<tables, approval_requests, unreviewed, purged>>
    PROVE  ReviewKept'
<1>1. Finite'
  BY WaitingAfter, ApprovedStays DEF ReviewInv, ReviewKept, Finite
<1>2. Resources'
  BY ApprovedStays DEF ReviewInv, ReviewKept
<1>3. Counted'
  BY DEF ReviewInv, ReviewKept, Counted, Busy, IInv, TypeOK
<1>4. ASSUME NEW p \in Paths PROVE BalancedAt(p)' /\ VouchedAt(p)'
  BY WaitingAfter, Untouched, ApprovedStays, TablesStay DEF ReviewInv, ReviewKept
<1>5. QED BY <1>1, <1>2, <1>3, <1>4 DEF ReviewKept

\* How the count of what was let in without review grows.
LEMMA LetInCount ==
    ASSUME IInv, CleanPaths, NEW p \in Paths, NEW review \in BOOLEAN, LetIn(p, review)
    PROVE  /\ \A q \in Paths : q # p \/ review => unreviewed'[q] = unreviewed[q]
           /\ ~review => unreviewed'[p] > 0 /\ unreviewed'[p] = unreviewed[p] + 1
<1>1. Norm[p] = p /\ unreviewed[p] \in Nat
  BY Numbers DEF CleanPaths
<1>2. QED BY <1>1 DEF LetIn, IInv, TypeOK

\* A change is let in.
LEMMA Started ==
    ASSUME ReviewInv, CleanPaths, NEW c \in Requests, NEW new \in Change, req' = [req EXCEPT ![c] = new],
           LetIn(new.path, new.review),
           UNCHANGED <<tables, approval_requests, purged>>
    PROVE  ReviewKept'
<1> DEFINE p == new.path
<1>1. p \in Paths /\ new.review \in BOOLEAN /\ new.kind \in {"secret.put", "secret.delete"}
  BY DEF Change
<1>2. Finite'
  BY WaitingAfter, ApprovedStays DEF ReviewInv, ReviewKept, Finite
<1>3. Resources'
  BY ApprovedStays DEF ReviewInv, ReviewKept
<1>4. /\ \A q \in Paths : q # p \/ new.review => unreviewed'[q] = unreviewed[q]
      /\ ~new.review => unreviewed'[p] > 0 /\ unreviewed'[p] = unreviewed[p] + 1
  BY <1>1, LetInCount DEF ReviewInv
<1>5. Counted'
  <2> SUFFICES ASSUME NEW b \in Requests, req'[b] # Idle, req'[b].kind # "resolve", ~req'[b].review
               PROVE  unreviewed'[req'[b].path] > 0
    BY DEF Counted, Busy
  <2>1. CASE b = c
    BY <1>4, <2>1 DEF ReviewInv, IInv, TypeOK
  <2>2. CASE b # c
    <3>1. req'[b] = req[b]
      BY <2>2 DEF ReviewInv, IInv, TypeOK
    <3>2. unreviewed[req[b].path] > 0 /\ req[b].path \in Paths
      BY <3>1, ChangeTyped DEF ReviewInv, ReviewKept, Counted, Busy
    <3>3. CASE req[b].path # p \/ new.review
      BY <1>4, <3>1, <3>2, <3>3
    <3>4. CASE req[b].path = p /\ ~new.review
      BY <1>4, <3>1, <3>4
    <3>5. QED BY <3>3, <3>4
  <2>3. QED BY <2>1, <2>2
<1>6. ASSUME NEW q \in Paths PROVE BalancedAt(q)' /\ VouchedAt(q)'
  <2>1. CASE q # p \/ new.review
    BY <1>4, <2>1, WaitingAfter, Untouched, ApprovedStays, TablesStay DEF ReviewInv, ReviewKept
  <2>2. CASE q = p /\ ~new.review
    <3>1. VouchedAt(q)'
      BY <1>4, <2>2 DEF VouchedAt
    <3>2. Written(q)' = Written(q) /\ Approved("secret.put", q)' = Approved("secret.put", q)
      BY ApprovedStays DEF Written, tables, ApprovedSame
    <3>3. Cardinality(Approved("secret.put", q)) \in Nat /\ Written(q) \in Nat /\ unreviewed[q] \in Nat
            /\ purged[q] \in Nat
      BY ApprovedFinite, Numbers DEF ReviewInv, ReviewKept
    <3>4. Cardinality(Waiting(q)) \in Nat /\ Cardinality(Waiting(q)') \in Nat
            /\ Cardinality(Waiting(q)') <= Cardinality(Waiting(q)) + 1
      BY WaitingAfter DEF ReviewInv, ReviewKept
    <3>5. BalancedAt(q)
      BY DEF ReviewInv, ReviewKept
    <3>6. BalancedAt(q)'
      BY <1>4, <2>2, <3>2, <3>3, <3>4, <3>5 DEF BalancedAt
    <3>7. QED BY <3>1, <3>6
  <2>3. QED BY <2>1, <2>2
<1>7. QED BY <1>2, <1>3, <1>5, <1>6 DEF ReviewKept

\* A goroutine is done with its request.
LEMMA CountedAfter ==
    ASSUME ReviewInv, NEW c \in Requests, req' = [req EXCEPT ![c] = Idle], UNCHANGED unreviewed
    PROVE  Counted'
BY DEF ReviewInv, ReviewKept, Counted, Busy, IInv, TypeOK

LEMMA CreateApprovalReviewed ==
    ASSUME ReviewInv, CleanPaths, NEW c \in Requests, CreateApproval(c)
    PROVE  ReviewKept'
<1> DEFINE r == req[c]
           new == [action |-> r.kind, resource |-> IF r.kind = "secret.put" THEN Norm[r.path] ELSE r.path,
                   path |-> r.path, data |-> r.data, label |-> r.label,
                   requester |-> r.user, status |-> "pending", approver |-> Nobody]
<1>1. r \in Change /\ r.path \in Paths
  BY ChangeTyped DEF CreateApproval, ReviewInv
<1>2. PICK a \in Approvals : approval_requests[a] = NoApproval /\ approval_requests' = [approval_requests EXCEPT ![a] = new]
  BY DEF CreateApproval
<1>3. req' = [req EXCEPT ![c] = Idle] /\ UNCHANGED <<tables, unreviewed, purged>>
  BY DEF CreateApproval
<1>4. new \in Approval
  BY <1>1, WorkflowAssumption DEF Change, Approval
<1>5. new.status = "pending" /\ new.resource = new.path /\ new # NoApproval
  BY <1>1, <1>4, WorkflowAssumption DEF CleanPaths
<1> HIDE DEF new
<1>6. \A b \in Approvals : approval_requests'[b] = IF b = a THEN new ELSE approval_requests[b]
  BY <1>2 DEF ReviewInv, IInv, TypeOK
<1>7. Finite'
  <2>1. Rows' = Rows \cup {a}
    BY <1>5, <1>6 DEF Rows
  <2>2. QED BY <1>3, <2>1, WaitingAfter, OneMore DEF ReviewInv, ReviewKept, Finite
<1>8. Resources'
  BY <1>5, <1>6 DEF Resources, Rows, ReviewInv, ReviewKept
<1>9. ASSUME NEW p \in Paths PROVE ApprovedSame(p)
  <2>1. \A x : Approved(x, p)' = Approved(x, p) /\ a \notin Approved(x, p)
    BY <1>2, <1>5, <1>6 DEF Approved
  <2>2. Approved("secret.put", p) \subseteq Approvals
    BY DEF Approved
  <2>3. QED BY <1>6, <2>1, <2>2 DEF ApprovedSame
<1>10. ASSUME NEW p \in Paths PROVE BalancedAt(p)' /\ VouchedAt(p)'
  BY <1>3, <1>9, WaitingAfter, Untouched, TablesStay DEF ReviewInv, ReviewKept
<1>11. QED BY <1>3, <1>7, <1>8, <1>10, CountedAfter DEF ReviewKept

LEMMA WriteDirectlyReviewed ==
    ASSUME ReviewInv, CleanPaths, NEW c \in Requests, WriteDirectly(c)
    PROVE  ReviewKept'
<1> DEFINE r == req[c]
           p == r.path
           k == personal_key_version[r.user]
<1>1. r.user \in Users /\ p \in Paths /\ r.data \in Data /\ r.label \in Labels /\ Norm[p] = p
  BY ChangeTyped DEF WriteDirectly, ReviewInv, CleanPaths
<1>2. r # Idle /\ r.kind # "resolve" /\ ~r.review
  BY DEF WriteDirectly
<1>3. UNCHANGED <<user_keys, personal_key_version, approval_requests, unreviewed, purged>>
        /\ req' = [req EXCEPT ![c] = Idle]
  BY DEF WriteDirectly
<1>4. unreviewed[p] > 0
  BY <1>2 DEF ReviewInv, ReviewKept, Counted, Busy
<1>5. \/ r.kind = "secret.put" /\ PutSecretTx(p, r.user, k, r.data, r.label, r.label)
      \/ r.kind # "secret.put" /\ SoftDelete(p) /\ UNCHANGED <<secret_versions, issued>>
  BY <1>1 DEF WriteDirectly
<1>6. \/ r.kind = "secret.put" /\ PutDone(p, r.user, k, r.data, r.label, r.label)
      \/ r.kind # "secret.put" /\ SoftDeleteDone(p) /\ UNCHANGED secret_versions
  BY <1>1, <1>3, <1>5, PutSecretKeeps, SoftDeleteKeepsTables DEF ReviewInv, IInv
<1>7. \A q \in Paths : q # p => SecretSame(q)
  BY <1>1, <1>6, OthersSame DEF ReviewInv, IInv
<1>8. Finite' /\ Resources'
  BY <1>3, WaitingAfter, ApprovedStays DEF ReviewInv, ReviewKept, Finite
<1>9. ASSUME NEW q \in Paths PROVE BalancedAt(q)' /\ VouchedAt(q)'
  <2>1. /\ Cardinality(Waiting(q)) \in Nat /\ Cardinality(Waiting(q)') \in Nat
        /\ Cardinality(Waiting(q)') <= Cardinality(Waiting(q))
        /\ c \in Waiting(q) => Cardinality(Waiting(q)') = Cardinality(Waiting(q)) - 1
    BY <1>3, WaitingAfter DEF ReviewInv, ReviewKept
  <2>2. CASE q # p
    BY <1>3, <1>7, <2>1, <2>2, Untouched, ApprovedStays DEF ReviewInv, ReviewKept
  <2>3. CASE q = p
    <3>1. VouchedAt(q)'
      BY <1>3, <1>4, <2>3 DEF VouchedAt
    <3>2. Approved("secret.put", q)' = Approved("secret.put", q)
      BY <1>3, ApprovedStays DEF ApprovedSame
    <3>3. Cardinality(Approved("secret.put", q)) \in Nat /\ Written(q) \in Nat /\ unreviewed[q] \in Nat
            /\ purged[q] \in Nat
      BY ApprovedFinite, Numbers DEF ReviewInv, ReviewKept
    <3>4. BalancedAt(q)
      BY DEF ReviewInv, ReviewKept
    <3>5. CASE r.kind = "secret.put"
      <4>1. Written(q)' = Written(q) + 1
        BY <1>6, <2>3, <3>5, NullAssumption DEF PutDone, Written
      <4>2. c \in Waiting(q)
        BY <1>2, <2>3, <3>5 DEF Waiting
      <4>3. BalancedAt(q)'
        BY <1>3, <2>1, <3>2, <3>3, <3>4, <4>1, <4>2 DEF BalancedAt
      <4>4. QED BY <3>1, <4>3
    <3>6. CASE r.kind # "secret.put"
      <4>1. Written(q)' = Written(q)
        BY <1>6, <2>3, <3>6, NullAssumption DEF SoftDeleteDone, Written
      <4>2. BalancedAt(q)'
        BY <1>3, <2>1, <3>2, <3>3, <3>4, <4>1 DEF BalancedAt
      <4>3. QED BY <3>1, <4>2
    <3>7. QED BY <3>5, <3>6
  <2>4. QED BY <2>2, <2>3
<1>10. QED BY <1>3, <1>8, <1>9, CountedAfter DEF ReviewKept

LEMMA BaoKVWriteReviewed ==
    ASSUME ReviewInv, CleanPaths, NEW u \in Users, NEW p \in Paths, NEW d \in Data, BaoKVWrite(u, p, d)
    PROVE  ReviewKept'
<1> DEFINE k == personal_key_version[u]
<1>1. UNCHANGED <<user_keys, personal_key_version, approval_requests, req, purged>>
        /\ LetIn(p, FALSE) /\ PutOpenBaoSecretTx(p, u, k, d)
  BY DEF BaoKVWrite
<1>2. k \in KeyVersions /\ k <= k
  BY DEF ReviewInv, IInv, TablesInv, TablesTypeOK, KeyVersions
<1>3. PICK attrs, m : PutDone(p, u, k, d, attrs, m)
  BY <1>1, <1>2, PutOpenBaoKeeps DEF ReviewInv, IInv
<1>4. \A q \in Paths : q # p => SecretSame(q)
  BY <1>3, OthersSame DEF ReviewInv, IInv
<1>5. /\ \A q \in Paths : q # p => unreviewed'[q] = unreviewed[q]
      /\ unreviewed'[p] > 0
      /\ unreviewed'[p] = unreviewed[p] + 1
  BY <1>1, LetInCount DEF ReviewInv
<1>6. Finite' /\ Resources'
  BY <1>1, ApprovedStays DEF ReviewInv, ReviewKept, Finite, Busy
<1>7. Counted'
  <2> SUFFICES ASSUME NEW b \in Requests, req[b] # Idle, req[b].kind # "resolve", ~req[b].review
               PROVE  unreviewed'[req[b].path] > 0
    BY <1>1 DEF Counted, Busy
  <2>1. unreviewed[req[b].path] > 0 /\ req[b].path \in Paths
    BY ChangeTyped DEF ReviewInv, ReviewKept, Counted, Busy
  <2>2. QED BY <1>5, <2>1
<1>8. ASSUME NEW q \in Paths PROVE BalancedAt(q)' /\ VouchedAt(q)'
  <2>1. Waiting(q)' = Waiting(q)
    BY <1>1 DEF Waiting
  <2>2. Cardinality(Waiting(q)) \in Nat
    <3>1. Waiting(q) \subseteq Busy
      BY DEF Waiting, Busy
    <3>2. QED BY <3>1, Smaller DEF ReviewInv, ReviewKept, Finite
  <2>3. CASE q # p
    BY <1>1, <1>4, <1>5, <2>1, <2>2, <2>3, Untouched, ApprovedStays DEF ReviewInv, ReviewKept
  <2>4. CASE q = p
    <3>1. VouchedAt(q)'
      BY <1>5, <2>4 DEF VouchedAt
    <3>2. Approved("secret.put", q)' = Approved("secret.put", q)
      BY <1>1, ApprovedStays DEF ApprovedSame
    <3>3. Cardinality(Approved("secret.put", q)) \in Nat /\ Written(q) \in Nat /\ unreviewed[q] \in Nat
            /\ purged[q] \in Nat
      BY ApprovedFinite, Numbers DEF ReviewInv, ReviewKept
    <3>4. BalancedAt(q)
      BY DEF ReviewInv, ReviewKept
    <3>5. Written(q)' = Written(q) + 1
      BY <1>3, <2>4, NullAssumption DEF PutDone, Written
    <3>6. purged'[q] = purged[q] /\ unreviewed'[q] = unreviewed[q] + 1
      BY <1>5, <2>4 DEF BaoKVWrite
    <3> HIDE DEF k
    <3>7. BalancedAt(q)'
      BY <2>1, <2>2, <3>2, <3>3, <3>4, <3>5, <3>6 DEF BalancedAt
    <3>8. QED BY <3>1, <3>7
  <2>5. QED BY <2>3, <2>4
<1>9. QED BY <1>6, <1>7, <1>8 DEF ReviewKept

\* /v1 marks and destroys versions and purges secrets: requests and goroutines
\* stay, and so does what vouches for the versions that are left.
LEMMA V1Reviewed ==
    ASSUME ReviewInv, CleanPaths, V1
    PROVE  ReviewKept'
<1> PICK u \in Users, p \in Paths :
        \/ \E d \in Data : BaoKVWrite(u, p, d)
        \/ \E op \in {"delete", "undelete", "destroy"}, vs \in SUBSET Versions : BaoKVMutateVersions(u, p, op, vs)
        \/ BaoKVDeleteLatest(u, p)
        \/ BaoKVMetadataDelete(u, p)
  BY Zenon DEF V1
<1> DEFINE marks == \/ \E op \in {"delete", "undelete", "destroy"}, vs \in SUBSET Versions : BaoKVMutateVersions(u, p, op, vs)
                    \/ BaoKVDeleteLatest(u, p)
           purges == BaoKVMetadataDelete(u, p)
<1>1. CASE \E d \in Data : BaoKVWrite(u, p, d)
  BY <1>1, BaoKVWriteReviewed
<1>2. ASSUME marks \/ purges PROVE UNCHANGED <<approval_requests, req, unreviewed>>
  BY <1>2, V1MutatesIs DEF BaoKVMetadataDelete
<1>3. ASSUME marks \/ purges PROVE Finite' /\ Resources' /\ Counted'
  BY <1>2, <1>3, ApprovedStays DEF ReviewInv, ReviewKept, Finite, Busy, Counted
<1>4. ASSUME NEW q \in Paths, marks \/ purges
      PROVE  /\ Waiting(q)' = Waiting(q) /\ Cardinality(Waiting(q)) \in Nat /\ ApprovedSame(q)
             /\ BalancedAt(q) /\ VouchedAt(q) /\ unreviewed'[q] = unreviewed[q]
             /\ IInv /\ Finite /\ Written(q) \in 0..MaxVersion /\ purged[q] \in Nat
  <2>1. Waiting(q)' = Waiting(q) /\ unreviewed'[q] = unreviewed[q]
    BY <1>2, <1>4 DEF Waiting
  <2>2. Waiting(q) \subseteq Busy
    BY DEF Waiting, Busy
  <2>3. QED BY <1>2, <1>4, <2>1, <2>2, Smaller, ApprovedStays, Numbers DEF ReviewInv, ReviewKept, Finite
<1>5. ASSUME marks, NEW q \in Paths PROVE BalancedAt(q)' /\ VouchedAt(q)'
  <2>0. PICK op \in {"delete", "undelete", "destroy"} : \E vs : MutateVersions(p, vs, op)
    BY <1>5, V1MutatesIs
  <2>1. PICK vs : MutateVersions(p, vs, op)
    BY <2>0
  <2>2. secrets[p] # NoSecret /\ MutateDone(p, vs, op) /\ UNCHANGED secrets /\ purged' = purged
    BY <1>5, <2>1, V1MutatesIs, MutateEffect DEF ReviewInv, IInv
  <2>3. CASE q # p
    <3>1. SecretSame(q)
      BY <2>2, <2>3, OthersSame DEF ReviewInv, IInv
    <3>2. QED BY <1>4, <1>5, <2>2, <3>1, Untouched
  <2>4. CASE q = p
    <3>1. BalancedAt(q)'
      <4>1. Written(q)' = Written(q) /\ purged'[q] = purged[q]
        BY <2>2 DEF Written
      <4>2. BalancedAt(q) /\ ApprovedSame(q) /\ Waiting(q)' = Waiting(q) /\ unreviewed'[q] = unreviewed[q]
        BY <1>4, <1>5
      <4>3. QED BY <4>1, <4>2 DEF BalancedAt, ApprovedSame
    <3>2. ASSUME NEW v \in 1..Written(q), NEW request, Vouches(request, secret_versions[secrets[q].id][v])
          PROVE  Vouches(request, secret_versions'[secrets[q].id][v])
      <4> DEFINE old == secret_versions[secrets[q].id][v]
                 new == secret_versions'[secrets[q].id][v]
      <4>1. v \in Versions /\ old \in VersionRow
        <5>1. v \in Versions /\ secrets[q] \in SecretRow /\ v <= secrets[q].current
          <6>1. IInv /\ Written(q) \in 0..MaxVersion /\ MaxVersion \in Nat
            BY <1>4, <1>5, BoundsAssumption
          <6>2. secrets[q] # NoSecret /\ Written(q) = secrets[q].current
            BY <2>2, <2>4 DEF Written
          <6>3. secrets[q] \in SecretRow
            BY <6>1, <6>2 DEF IInv, TypeOK, TablesTypeOK
          <6>4. v \in 1..MaxVersion /\ v <= Written(q)
            BY <6>1
          <6>5. QED BY <6>2, <6>3, <6>4 DEF Versions
        <5>2. old # NoVersion /\ old \in VersionRow \cup {NoVersion}
          BY <1>4, <1>5, <2>2, <2>4, <5>1 DEF SecretRow, IInv, TablesInv, TablesTypeOK, HistoryComplete
        <5>3. QED BY <5>1, <5>2
      <4>2. new = old \/ new = MutatedVersion(old, op)
        BY <2>2, <2>4, <4>1 DEF MutateDone
      <4>3. new = old \/ /\ new.meta = old.meta /\ new.owner = old.owner
                         /\ new.destroyed \/ (new.data = old.data /\ new.destroyed = old.destroyed)
        BY <4>1, <4>2 DEF MutatedVersion, VersionRow
      <4>4. QED BY <3>2, <4>3 DEF Vouches
    <3>3. Written(q)' = Written(q)
      BY <2>2 DEF Written
    <3>4. VouchedAt(q)'
      BY <1>4, <1>5, <2>2, <3>2, <3>3 DEF VouchedAt, ApprovedSame
    <3>5. QED BY <3>1, <3>4
  <2>5. QED BY <2>3, <2>4
<1>6. ASSUME purges, NEW q \in Paths PROVE BalancedAt(q)' /\ VouchedAt(q)'
  <2>1. PurgeDone(p) /\ secrets[p] # NoSecret /\ purged' = [purged EXCEPT ![p] = @ + secrets[p].current]
    BY <1>6, PurgeEffect DEF BaoKVMetadataDelete, PurgeSecret, ReviewInv, IInv
  <2>2. CASE q # p
    <3>1. SecretSame(q)
      BY <2>1, <2>2, OthersSame DEF ReviewInv, IInv
    <3>2. purged'[q] = purged[q]
      BY <1>4, <1>6, <2>1, <2>2 DEF IInv, TypeOK
    <3>3. QED BY <1>4, <1>6, <3>1, <3>2, Untouched
  <2>3. CASE q = p
    <3>1. Written(q) = secrets[q].current /\ Written(q)' = 0 /\ secrets'[q] = NoSecret
      BY <2>1, <2>3 DEF Written, PurgeDone
    <3>2. purged'[q] = purged[q] + Written(q)
      BY <1>4, <1>6, <2>1, <2>3, <3>1 DEF IInv, TypeOK
    <3>3. Written(q)' + purged'[q] = Written(q) + purged[q]
      BY <1>4, <1>6, <3>1, <3>2
    <3>4. BalancedAt(q)'
      BY <1>4, <1>6, <3>3 DEF BalancedAt, ApprovedSame
    <3>5. QED BY <3>1, <3>4 DEF VouchedAt
  <2>4. QED BY <2>2, <2>3
<1>7. QED BY <1>1, <1>3, <1>5, <1>6 DEF ReviewKept

\* The rows, and the sets of approved requests, after a decision.
LEMMA ApprovedAfter ==
    ASSUME IInv, NEW c \in Requests, ResolveApproval(c)
    PROVE  LET r == req[c]
               row == approval_requests[r.id]
               new == approval_requests'[r.id]
           IN  /\ \A b \in Approvals : b # r.id => approval_requests'[b] = approval_requests[b]
               /\ new \in Approval /\ new # NoApproval /\ row # NoApproval
               /\ new.approver = r.user /\ new.resource = row.resource /\ new.path = row.path /\ new.data = row.data
               /\ new.label = row.label /\ new.requester = row.requester
               /\ Rows' = Rows
               /\ \A x, p : /\ r.id \notin Approved(x, p)
                            /\ Approved(x, p)' = IF r.decision = "approved" /\ row.action = x /\ row.resource = p
                                                 THEN Approved(x, p) \cup {r.id} ELSE Approved(x, p)
<1> DEFINE r == req[c]
           row == approval_requests[r.id]
           new == Decided(row, r.decision, r.user)
<1>1. r.id \in Approvals /\ row \in Approval /\ row # NoApproval /\ row.status = "pending"
  BY ReviewTyped
<1>2. /\ new \in Approval
      /\ new.status = r.decision /\ new.approver = r.user /\ new.action = row.action /\ new.resource = row.resource
      /\ new.path = row.path /\ new.data = row.data /\ new.label = row.label /\ new.requester = row.requester
  BY ReviewTyped, DecidedRow
<1>3. approval_requests' = [approval_requests EXCEPT ![r.id] = new]
  BY ReviewTyped
<1> HIDE DEF new
<1>4. approval_requests'[r.id] = new /\ \A b \in Approvals : b # r.id => approval_requests'[b] = approval_requests[b]
  BY <1>1, <1>3 DEF IInv, TypeOK
<1>5. new # NoApproval
  BY <1>2, WorkflowAssumption
<1>6. Rows' = Rows
  BY <1>1, <1>4, <1>5 DEF Rows
<1>7. ASSUME NEW x, NEW p
      PROVE  /\ r.id \notin Approved(x, p)
             /\ Approved(x, p)' = IF r.decision = "approved" /\ row.action = x /\ row.resource = p
                                  THEN Approved(x, p) \cup {r.id} ELSE Approved(x, p)
  <2>1. r.id \notin Approved(x, p)
    BY <1>1 DEF Approved
  <2>2. r.id \in Approved(x, p)' <=> r.decision = "approved" /\ row.action = x /\ row.resource = p
    BY <1>1, <1>2, <1>4, <1>5 DEF Approved
  <2>3. \A b \in Approvals : b # r.id => (b \in Approved(x, p)' <=> b \in Approved(x, p))
    BY <1>4 DEF Approved
  <2>4. Approved(x, p) \subseteq Approvals /\ Approved(x, p)' \subseteq Approvals
    BY DEF Approved
  <2>5. QED BY <1>1, <2>1, <2>2, <2>3, <2>4
<1>8. QED BY <1>1, <1>2, <1>4, <1>5, <1>6, <1>7

\* What an approved request does to the tables.
LEMMA AppliedDone ==
    ASSUME ReviewInv, NEW c \in Requests, ResolveApproval(c), req[c].decision = "approved"
    PROVE  LET row == approval_requests[req[c].id]
           IN  /\ row.resource = row.path
               /\ row.action = "secret.put" =>
                     PutDone(row.path, row.requester, personal_key_version[row.requester], row.data, row.label, row.label)
               /\ row.action # "secret.put" =>
                     row.action = "secret.delete" /\ SoftDeleteDone(row.path) /\ UNCHANGED secret_versions
<1> DEFINE row == approval_requests[req[c].id]
<1>1. /\ row # NoApproval /\ req[c].id \in Approvals
      /\ row.requester \in Users /\ row.path \in Paths /\ row.resource \in Paths
      /\ row.data \in Data /\ row.label \in Labels /\ row.action \in {"secret.put", "secret.delete"}
  BY ReviewTyped DEF ReviewInv
<1>2. row.resource = row.path
  BY <1>1 DEF ReviewInv, ReviewKept, Resources, Rows
<1>3. UNCHANGED <<user_keys, personal_key_version>>
  BY DEF ResolveApproval
<1>4. Apply(row)
  BY DEF ResolveApproval
<1>5. ASSUME row.action = "secret.put"
      PROVE  PutDone(row.path, row.requester, personal_key_version[row.requester], row.data, row.label, row.label)
  BY <1>1, <1>3, <1>4, <1>5, PutSecretKeeps DEF Apply, ReviewInv, IInv
<1>6. ASSUME row.action # "secret.put"
      PROVE  SoftDeleteDone(row.path) /\ UNCHANGED secret_versions
  BY <1>1, <1>2, <1>3, <1>4, <1>6, SoftDeleteKeepsTables DEF Apply, ReviewInv, IInv
<1>7. QED BY <1>1, <1>2, <1>5, <1>6

LEMMA ResolveApprovalReviewed ==
    ASSUME ReviewInv, NEW c \in Requests, ResolveApproval(c)
    PROVE  ReviewKept'
<1> DEFINE r == req[c]
           id == r.id
           row == approval_requests[id]
           new == approval_requests'[id]
           p == row.path
           yes == r.decision = "approved"
<1>1. UNCHANGED <<user_keys, personal_key_version, unreviewed, purged>> /\ req' = [req EXCEPT ![c] = Idle]
  BY DEF ResolveApproval
<1>2. /\ \A b \in Approvals : b # id => approval_requests'[b] = approval_requests[b]
      /\ new # NoApproval /\ row # NoApproval
      /\ new.approver = r.user /\ new.resource = row.resource /\ new.path = row.path /\ new.data = row.data
      /\ new.label = row.label /\ new.requester = row.requester
      /\ Rows' = Rows
      /\ \A x, q : /\ id \notin Approved(x, q)
                   /\ Approved(x, q)' = IF yes /\ row.action = x /\ row.resource = q
                                        THEN Approved(x, q) \cup {id} ELSE Approved(x, q)
  BY ApprovedAfter DEF ReviewInv
<1>3. id \in Approvals /\ p \in Paths /\ r.user \in Users /\ row.requester # r.user
  BY ReviewTyped DEF ReviewInv
<1>4. Finite'
  BY <1>1, <1>2, WaitingAfter DEF ReviewInv, ReviewKept, Finite
<1>5. Resources'
  BY <1>2 DEF Resources, ReviewInv, ReviewKept, Rows
<1>6. row.resource = p
  BY <1>2, <1>3 DEF ReviewInv, ReviewKept, Resources, Rows
<1>7. \A x, q : \A a \in Approved(x, q) : approval_requests'[a] = approval_requests[a]
  BY <1>2 DEF Approved
<1>8. ASSUME NEW q \in Paths PROVE BalancedAt(q)' /\ VouchedAt(q)'
  <2>1. /\ Cardinality(Waiting(q)) \in Nat /\ Cardinality(Waiting(q)') \in Nat
        /\ Cardinality(Waiting(q)') <= Cardinality(Waiting(q))
    BY <1>1, WaitingAfter DEF ReviewInv, ReviewKept
  <2>2. BalancedAt(q) /\ VouchedAt(q) /\ IInv /\ Finite
    BY DEF ReviewInv, ReviewKept
  <2>3. unreviewed'[q] = unreviewed[q] /\ purged'[q] = purged[q]
    BY <1>1
  <2>4. IsFiniteSet(Approved("secret.put", q)) /\ Cardinality(Approved("secret.put", q)) \in Nat
          /\ Written(q) \in 0..MaxVersion /\ unreviewed[q] \in Nat /\ purged[q] \in Nat /\ MaxVersion \in Nat
    BY <2>2, ApprovedFinite, Numbers
  <2>5. CASE ~yes
    <3>1. SecretSame(q)
      BY <2>5 DEF ResolveApproval, SecretSame
    <3>2. ApprovedSame(q)
      BY <1>2, <1>7, <2>5 DEF ApprovedSame
    <3>3. QED BY <2>1, <2>2, <2>3, <3>1, <3>2, Untouched
  <2>6. CASE yes /\ q # p
    <3>1. SecretSame(q)
      BY <1>3, <2>6, AppliedDone, OthersSame DEF ReviewInv, IInv
    <3>2. ApprovedSame(q)
      BY <1>2, <1>6, <1>7, <2>6 DEF ApprovedSame
    <3>3. QED BY <2>1, <2>2, <2>3, <3>1, <3>2, Untouched
  <2>7. CASE yes /\ q = p /\ row.action # "secret.put"
    <3>1. SoftDeleteDone(q) /\ UNCHANGED secret_versions /\ row.action = "secret.delete"
      BY <2>7, AppliedDone
    <3>2. Written(q)' = Written(q) /\ secrets[q] # NoSecret /\ secrets'[q].id = secrets[q].id
      BY <3>1, NullAssumption DEF SoftDeleteDone, Written
    <3>3. Approved("secret.put", q)' = Approved("secret.put", q) /\ id \in Approved("secret.delete", q)'
      BY <1>2, <1>6, <2>7, <3>1
    <3>4. BalancedAt(q)'
      BY <2>1, <2>2, <2>3, <2>4, <3>2, <3>3 DEF BalancedAt
    <3>5. VouchedAt(q)'
      BY <1>7, <2>2, <2>3, <3>1, <3>2, <3>3 DEF VouchedAt
    <3>6. QED BY <3>4, <3>5
  <2>8. CASE yes /\ q = p /\ row.action = "secret.put"
    <3> DEFINE s == secrets'[q]
               ver == [data |-> row.data, aad |-> <<s.id, s.current>>, owner |-> row.requester,
                       keyv |-> personal_key_version[row.requester],
                       meta |-> row.label, deletion |-> FALSE, destroyed |-> FALSE]
    <3>1. PutDone(q, row.requester, personal_key_version[row.requester], row.data, row.label, row.label)
      BY <2>8, AppliedDone
    <3>2. /\ Written(q)' = Written(q) + 1 /\ s.current = Written(q) + 1 /\ s.current \in Versions
          /\ s.deleted = FALSE /\ s.id \in Ids
          /\ secrets[q] # NoSecret => s.id = secrets[q].id
      BY <3>1, NullAssumption DEF PutDone, Written, SecretRow
    <3>3. \A w \in Versions : secret_versions'[s.id][w] = IF w = s.current THEN ver ELSE secret_versions[s.id][w]
      BY <3>1, <3>2 DEF PutDone
    <3>4. Approved("secret.put", q)' = Approved("secret.put", q) \cup {id} /\ id \notin Approved("secret.put", q)
      BY <1>2, <1>6, <2>8
    <3>5. Cardinality(Approved("secret.put", q)') = Cardinality(Approved("secret.put", q)) + 1
      BY <2>4, <3>4, OneMore
    <3>6. BalancedAt(q)'
      BY <2>1, <2>2, <2>3, <2>4, <3>2, <3>5 DEF BalancedAt
    <3>7. Vouches(new, ver)
      <4>1. ver.data = row.data /\ ver.meta = row.label /\ ver.owner = row.requester
        OBVIOUS
      <4> HIDE DEF ver
      <4>2. QED BY <1>2, <1>3, <4>1, WorkflowAssumption DEF Vouches
    <3> HIDE DEF ver
    <3>8. ASSUME unreviewed[q] = 0, NEW v \in 1..(Written(q) + 1)
          PROVE  \E a \in Approved("secret.put", q)' : Vouches(approval_requests'[a], secret_versions'[s.id][v])
      <4>1. CASE v = s.current
        <5>1. secret_versions'[s.id][v] = ver
          BY <3>2, <3>3, <4>1
        <5>2. QED BY <3>4, <3>7, <5>1
      <4>2. CASE v # s.current
        <5>1. v \in 1..Written(q) /\ v \in Versions
          BY <2>4, <3>2, <4>2 DEF Versions
        <5>2. secrets[q] # NoSecret
          BY <5>1 DEF Written
        <5>3. PICK a \in Approved("secret.put", q) : Vouches(approval_requests[a], secret_versions[secrets[q].id][v])
          BY <2>2, <3>8, <5>1, <5>2 DEF VouchedAt
        <5>4. secret_versions'[s.id][v] = secret_versions[secrets[q].id][v]
          BY <3>2, <3>3, <4>2, <5>1, <5>2
        <5>5. a \in Approved("secret.put", q)' /\ approval_requests'[a] = approval_requests[a]
          BY <1>7, <3>4
        <5>6. QED BY <5>3, <5>4, <5>5
      <4>3. QED BY <4>1, <4>2
    <3>9. VouchedAt(q)'
      BY <2>3, <3>2, <3>8 DEF VouchedAt
    <3>10. QED BY <3>6, <3>9
  <2>9. QED BY <2>5, <2>6, <2>7, <2>8
<1>9. QED BY <1>1, <1>4, <1>5, <1>8, CountedAfter DEF ReviewKept

-----------------------------------------------------------------------------
\* The invariant, and what it says.

LEMMA StartPutReviewed ==
    ASSUME ReviewInv, CleanPaths, NEW c \in Requests, NEW u \in Users, NEW p \in Paths, NEW cap,
           NEW d \in Data, NEW label \in Labels, StartPut(c, u, p, cap, d, label)
    PROVE  ReviewKept'
<1> DEFINE new == [kind |-> "secret.put", user |-> u, path |-> p, data |-> d, label |-> label,
                   review |-> ApprovalRequired("secret_write")]
<1>1. req' = [req EXCEPT ![c] = new] /\ LetIn(p, ApprovalRequired("secret_write"))
        /\ UNCHANGED <<tables, approval_requests, purged>>
  BY DEF StartPut
<1>2. new \in Change /\ new.path = p /\ new.review = ApprovalRequired("secret_write")
  BY DEF Change, ApprovalRequired
<1> HIDE DEF new
<1>3. QED BY <1>1, <1>2, Started

LEMMA DeleteReviewed ==
    ASSUME ReviewInv, CleanPaths, NEW c \in Requests, NEW u \in Users, NEW p \in Paths, DeleteSecret(c, u, p)
    PROVE  ReviewKept'
<1> DEFINE d == CHOOSE x \in Data : TRUE
           new == [kind |-> "secret.delete", user |-> u, path |-> p, data |-> d, label |-> Blank,
                   review |-> ApprovalRequired("secret_delete")]
<1>1. req' = [req EXCEPT ![c] = new] /\ LetIn(p, ApprovalRequired("secret_delete"))
        /\ UNCHANGED <<tables, approval_requests, purged>>
  BY DEF DeleteSecret
<1>2. d \in Data
  BY ValuesAssumption
<1> HIDE DEF d
<1>3. new \in Change /\ new.path = p /\ new.review = ApprovalRequired("secret_delete")
  BY <1>2, ValuesAssumption DEF Change, ApprovalRequired
<1> HIDE DEF new
<1>4. QED BY <1>1, <1>3, Started

LEMMA StartReviewReviewed ==
    ASSUME ReviewInv, NEW c \in Requests, NEW u \in Users, NEW a \in Approvals, NEW decision \in Decisions,
           StartReview(c, u, a, decision)
    PROVE  ReviewKept'
<1> DEFINE new == [kind |-> "resolve", user |-> u, id |-> a, decision |-> decision]
<1>1. req' = [req EXCEPT ![c] = new] /\ UNCHANGED <<tables, approval_requests, unreviewed, purged>> /\ new.kind = "resolve"
  BY DEF StartReview
<1> HIDE DEF new
<1>2. QED BY <1>1, Retired

\* A step that leaves the tables, the requests and the goroutines alone.
LEMMA ReviewStutter ==
    ASSUME ReviewKept, UNCHANGED <<tables, approval_requests, req, unreviewed, purged>>
    PROVE  ReviewKept'
<1>1. Rows' = Rows /\ Busy' = Busy /\ Finite' /\ Resources' /\ Counted'
  BY DEF ReviewKept, Finite, Rows, Busy, Resources, Counted
<1>2. ASSUME NEW p \in Paths PROVE BalancedAt(p)' /\ VouchedAt(p)'
  <2>1. Waiting(p)' = Waiting(p) /\ Written(p)' = Written(p) /\ \A x : Approved(x, p)' = Approved(x, p)
    BY DEF tables, Waiting, Written, Approved
  <2>2. BalancedAt(p) /\ VouchedAt(p)
    BY DEF ReviewKept
  <2>3. QED BY <2>1, <2>2 DEF tables, BalancedAt, VouchedAt
<1>3. QED BY <1>1, <1>2 DEF ReviewKept

LEMMA ReviewNext ==
    ASSUME ReviewInv, CleanPaths, Next
    PROVE  ReviewInv'
<1>1. ASSUME NEW c \in Requests, Accept(c) PROVE ReviewKept'
  <2>1. ASSUME NEW u \in Users, NEW p \in Paths, NEW d \in Data, RotateSecret(c, u, p, d) PROVE ReviewKept'
    <3>1. secrets[Norm[p]].attrs \in Labels
      BY <2>1, WorkflowAssumption DEF RotateSecret, SecretExists, ReviewInv, IInv, TablesInv, TablesTypeOK, SecretRow
    <3>2. QED BY <2>1, <3>1, StartPutReviewed DEF RotateSecret
  <2>2. QED BY <1>1, <2>1, StartPutReviewed, DeleteReviewed, StartReviewReviewed
            DEF Accept, CreateSecret, UpdateSecret
<1>2. ASSUME NEW c \in Requests, GiveUp(c) PROVE ReviewKept'
  BY <1>2, Retired DEF GiveUp
<1>3. ASSUME \/ \E u \in Users : SetActive(u)
             \/ \E g \in GrantSets : SetPolicies(g)
             \/ \E w \in Workflows : SetWorkflow(w)
      PROVE  ReviewKept'
  BY <1>3, ReviewStutter DEF SetActive, SetPolicies, SetWorkflow, ReviewInv
<1>4. ReviewKept'
  BY <1>1, <1>2, <1>3, CreateApprovalReviewed, WriteDirectlyReviewed, ResolveApprovalReviewed, V1Reviewed DEF Next
<1>5. QED BY <1>4, InvNext DEF ReviewInv

LEMMA ReviewInit ==
    ASSUME Init
    PROVE  ReviewInv
<1>1. Rows = {} /\ Busy = {} /\ \A p \in Paths : Waiting(p) = {} /\ \A x : Approved(x, p) = {}
  BY DEF Init, Rows, Busy, Waiting, Approved
<1>2. \A p \in Paths : secrets[p] = NoSecret /\ Written(p) = 0
  BY DEF Init, TablesInit, Written
<1>3. Cardinality({}) = 0 /\ IsFiniteSet({})
  BY FS_EmptySet
<1>4. ReviewKept
  BY <1>1, <1>2, <1>3 DEF Init, ReviewKept, Finite, Resources, Counted, BalancedAt, VouchedAt
<1>5. QED BY <1>4, InvInit DEF ReviewInv

\* The invariant behind the two theorems on review: the counts of versions,
\* approved requests and writes still under way agree for every path, and where
\* review was never off each version has an approved request behind it.
THEOREM ReviewInvariance == ASSUME CleanPaths PROVE Spec => []ReviewInv
<1>1. ReviewInv /\ [Next]_vars => ReviewInv'
  BY ReviewNext, ReviewStutter, InvStutter DEF ReviewInv, vars
<1>2. Init => ReviewInv
  BY ReviewInit
<1>3. QED BY <1>1, <1>2, PTL DEF Spec

LEMMA ReviewedFromInv ==
    ASSUME ReviewInv
    PROVE  ReviewedWrites
<1> SUFFICES ASSUME NEW p \in Paths
             PROVE  LET approved == Cardinality(Approved("secret.put", p))
                        written == Written(p)
                    IN
                    /\ approved <= written + purged[p]
                    /\ written + purged[p] <= approved + unreviewed[p]
                    /\ VouchedAt(p)
  BY DEF ReviewedWrites, Written, VouchedAt
<1>1. Cardinality(Approved("secret.put", p)) \in Nat /\ Written(p) \in 0..MaxVersion
        /\ unreviewed[p] \in Nat /\ purged[p] \in Nat /\ MaxVersion \in Nat
  BY ApprovedFinite, Numbers DEF ReviewInv, ReviewKept
<1>2. Cardinality(Waiting(p)) \in Nat
  <2>1. Waiting(p) \subseteq Busy
    BY DEF Waiting, Busy
  <2>2. QED BY <2>1, Smaller DEF ReviewInv, ReviewKept, Finite
<1>3. BalancedAt(p) /\ VouchedAt(p)
  BY DEF ReviewInv, ReviewKept
<1>4. QED BY <1>1, <1>2, <1>3 DEF BalancedAt

\* Every version is accounted for, however reviews, settings and /v1 overlap:
\* each approved put became exactly one version, still there unless /v1 purged
\* it, every other version was let in while its operation needed no review, and
\* where that never happened each version, destroyed or not, is the payload of a
\* request that somebody other than its requester approved (ResolveApproval,
\* putOrRequestSecret).
THEOREM ReviewedWritesAlways == ASSUME CleanPaths PROVE Spec => []ReviewedWrites
BY ReviewInvariance, ReviewedFromInv, PTL

LEMMA ApprovesNext ==
    ASSUME ReviewInv, Next
    PROVE  ApprovesAsReviewed
<1>1. CASE UNCHANGED approval_requests
  BY <1>1 DEF ApprovesAsReviewed
<1>2. ASSUME NEW c \in Requests, CreateApproval(c) PROVE ApprovesAsReviewed
  <2>1. PICK a \in Approvals : /\ approval_requests[a] = NoApproval
                               /\ \A b \in Approvals : b # a => approval_requests'[b] = approval_requests[b]
    BY <1>2 DEF CreateApproval, ReviewInv, IInv, TypeOK
  <2>2. QED BY <2>1 DEF ApprovesAsReviewed
<1>3. ASSUME NEW c \in Requests, ResolveApproval(c) PROVE ApprovesAsReviewed
  <2> DEFINE r == req[c]
             row == approval_requests[r.id]
             p == row.path
             s == secrets'[p]
  <2>1. \A b \in Approvals : b # r.id => approval_requests'[b] = approval_requests[b]
    BY <1>3, ApprovedAfter DEF ReviewInv
  <2>2. approval_requests'[r.id].status = r.decision
    <3>1. Decided(row, r.decision, r.user).status = r.decision
      BY <1>3, ReviewTyped, DecidedRow DEF ReviewInv
    <3>2. r.id \in Approvals /\ approval_requests' = [approval_requests EXCEPT ![r.id] = Decided(row, r.decision, r.user)]
      BY <1>3, ReviewTyped DEF ReviewInv
    <3>3. QED BY <3>1, <3>2 DEF ReviewInv, IInv, TypeOK
  <2>3. ASSUME r.decision = "approved" PROVE AppliedNow(row)
    <3>1. /\ active[row.requester]
          /\ CanAccess(row.requester, row.resource,
                 IF row.action = "secret.delete" THEN "delete"
                 ELSE IF SecretExists(row.resource) THEN "update" ELSE "create")
      BY <1>3, <2>3 DEF ResolveApproval, StillAuthorised
    <3>2. row.resource = p /\ row.action \in {"secret.put", "secret.delete"}
      BY <1>3, <2>3, AppliedDone
    <3>3. CASE row.action # "secret.put"
      <4>1. SoftDeleteDone(p) /\ row.action = "secret.delete"
        BY <1>3, <2>3, <3>3, AppliedDone
      <4>2. QED BY <3>1, <3>2, <4>1, NullAssumption DEF SoftDeleteDone, AppliedNow
    <3>4. CASE row.action = "secret.put"
      <4>1. PutDone(p, row.requester, personal_key_version[row.requester], row.data, row.label, row.label)
        BY <1>3, <2>3, <3>4, AppliedDone
      <4>2. s \in SecretRow /\ s.deleted = FALSE /\ s.attrs = row.label /\ s.id \in Ids /\ s.current \in Versions
        BY <4>1 DEF PutDone, SecretRow
      <4>3. secret_versions'[s.id][s.current].data = row.data /\ secret_versions'[s.id][s.current].owner = row.requester
        <5> DEFINE ver == [data |-> row.data, aad |-> <<s.id, s.current>>, owner |-> row.requester,
                           keyv |-> personal_key_version[row.requester],
                           meta |-> row.label, deletion |-> FALSE, destroyed |-> FALSE]
        <5>1. \A j \in Ids, w \in Versions :
                 secret_versions'[j][w] = IF j = s.id /\ w = s.current THEN ver ELSE secret_versions[j][w]
          BY <4>1 DEF PutDone
        <5>2. ver.data = row.data /\ ver.owner = row.requester
          OBVIOUS
        <5> HIDE DEF ver
        <5>3. QED BY <4>2, <5>1, <5>2
      <4>4. QED BY <3>1, <3>2, <3>4, <4>2, <4>3, NullAssumption DEF AppliedNow
    <3>5. QED BY <3>3, <3>4
  <2>4. QED BY <2>1, <2>2, <2>3 DEF ApprovesAsReviewed
<1>4. ASSUME NEW c \in Requests, Accept(c) \/ WriteDirectly(c) \/ GiveUp(c) PROVE UNCHANGED approval_requests
  BY <1>4, Zenon
     DEF Accept, CreateSecret, UpdateSecret, RotateSecret, StartPut, DeleteSecret, StartReview, WriteDirectly, GiveUp
<1>5. ASSUME \/ V1
             \/ \E u \in Users : SetActive(u)
             \/ \E g \in GrantSets : SetPolicies(g)
             \/ \E w \in Workflows : SetWorkflow(w)
      PROVE  UNCHANGED approval_requests
  BY <1>5, Zenon DEF V1, BaoKVWrite, BaoKVMutateVersions, BaoKVDeleteLatest, BaoKVMetadataDelete,
                     SetActive, SetPolicies, SetWorkflow
<1>6. QED BY <1>1, <1>2, <1>3, <1>4, <1>5, Zenon DEF Next

\* Approving a request does what its row says, where it says it, in the name of
\* an account that is active and allowed to at that moment, however long the
\* request was pending and whatever changed in the meantime (resolveApproval).
THEOREM AppliedAsReviewedAlways == ASSUME CleanPaths PROVE Spec => AppliedAsReviewed
<1>1. ReviewInv /\ [Next]_vars => [ApprovesAsReviewed]_vars
  BY ApprovesNext
<1>2. QED BY <1>1, ReviewInvariance, PTL DEF Spec, AppliedAsReviewed
=============================================================================
