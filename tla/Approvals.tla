----------------------------- MODULE Approvals ------------------------------
(***************************************************************************)
(* The approval workflow over the secret tables.  While an administrator   *)
(* has it on, a write or delete of the Admin API becomes a row of          *)
(* approval_requests that a reviewer applies or rejects; /v1 writes,       *)
(* marks, destroys and purges versions without asking.                     *)
(*                                                                         *)
(* A handler reads what it decides from (session, policy, workflow         *)
(* settings) in one step and runs its statement or transaction in a later  *)
(* one; accounts, policies and settings may change in between.             *)
(* Transactions are serializable and atomic here: how they conflict and    *)
(* abort is the subject of OpenBaoKV.  An aborted one changes nothing and  *)
(* is not retried.                                                         *)
(***************************************************************************)
EXTENDS SecretTables, FiniteSets

CONSTANTS
    Norm,           \* spelling of a path -> the path with "/" trimmed
    Admins, Managers,   \* accounts with these roles
    GrantSets,      \* sets of <<user, path, capability>> the policies may grant
    Workflows,      \* values of the workflow setting
    V1Users,        \* accounts whose clients write through /v1
    Requests,       \* request goroutines
    Approvals,      \* ids of approval requests
    MaxUnreviewed,  \* bound on the changes of a path that are let in without review
    NoApproval, Idle, Nobody

VARIABLES
    approval_requests,  \* id -> row
    active,             \* user -> users.active
    grants,             \* what the policies grant to accounts without a special role
    workflow,           \* the setting "workflow"
    req,                \* goroutine -> the request it serves
    unreviewed,         \* history: path -> writes and deletes let in without review
    purged              \* history: path -> versions that purges through /v1 removed

vars == <<tables, approval_requests, active, grants, workflow, req, unreviewed, purged>>

Targets == {"secret_write", "secret_delete"}
Workflow == [targets : SUBSET Targets, reviewer : {"admin", "manager"}]

Decisions == {"approved", "rejected"}

Approval ==
    [action : {"secret.put", "secret.delete"}, resource : Paths, path : Paths,
     data : Data, label : Labels, requester : Users,
     status : {"pending"} \cup Decisions, approver : Users \cup {Nobody}]

\* A change a handler has authorised, or a decision a reviewer has sent.
Change == [kind : {"secret.put", "secret.delete"}, user : Users, path : Paths,
           data : Data, label : Labels, review : BOOLEAN]
Review == [kind : {"resolve"}, user : Users, id : Approvals, decision : Decisions]

ASSUME WorkflowAssumption ==
    /\ Norm \in [Paths -> Paths]
    /\ \A p \in Paths : Norm[Norm[p]] = Norm[p]
    /\ Admins \subseteq Users /\ Managers \subseteq Users /\ V1Users \subseteq Users
    /\ Workflows \subseteq Workflow
    /\ NoApproval \notin Approval
    /\ Idle \notin Change \cup Review
    /\ Nobody \notin Users
    /\ MaxUnreviewed \in Nat

\* Every variable has the type of its table, setting or request record.
TypeOK ==
    /\ TablesTypeOK
    /\ approval_requests \in [Approvals -> Approval \cup {NoApproval}]
    /\ active \in [Users -> BOOLEAN]
    /\ grants \in GrantSets
    /\ workflow \in Workflows
    /\ req \in [Requests -> Change \cup Review \cup {Idle}]
    /\ unreviewed \in [Paths -> Nat]
    /\ purged \in [Paths -> Nat]

Init ==
    /\ TablesInit
    /\ approval_requests = [a \in Approvals |-> NoApproval]
    /\ active = [u \in Users |-> TRUE]
    /\ grants \in GrantSets
    /\ workflow \in Workflows
    /\ req = [c \in Requests |-> Idle]
    /\ unreviewed = [p \in Paths |-> 0]
    /\ purged = [p \in Paths |-> 0]

settings == <<active, grants, workflow>>

\* canAccessWith: managers and administrators pass, the others need a rule.
CanAccess(u, p, cap) == u \in Admins \cup Managers \/ <<u, Norm[p], cap>> \in grants

\* approvalReviewerAllowed.
CanReview(u) == u \in Admins \/ (workflow.reviewer = "manager" /\ u \in Managers)

ApprovalRequired(target) == target \in workflow.targets

\* One more change of p is let in, with or without review.
LetIn(p, review) ==
    IF review THEN UNCHANGED unreviewed
    ELSE /\ unreviewed[Norm[p]] < MaxUnreviewed     \* bound MaxUnreviewed
         /\ unreviewed' = [unreviewed EXCEPT ![Norm[p]] = @ + 1]

-----------------------------------------------------------------------------
(* The Admin API: authorise, read the workflow, then write or request *)

\* A put whose capability was checked, with the answer of ApprovalRequired that
\* putOrRequestSecret goes by.
StartPut(c, u, p, cap, d, label) ==
    /\ req[c] = Idle
    /\ active[u]
    /\ CanAccess(u, p, cap)
    /\ req' = [req EXCEPT ![c] =
           [kind |-> "secret.put", user |-> u, path |-> p, data |-> d, label |-> label,
            review |-> ApprovalRequired("secret_write")]]
    /\ LetIn(p, ApprovalRequired("secret_write"))
    /\ UNCHANGED <<tables, approval_requests, settings, purged>>

\* createSecret takes any spelling of the path from its client.
CreateSecret(c, u, p, d, label) == StartPut(c, u, p, "create", d, label)

\* updateSecret takes the path from the row it found.
UpdateSecret(c, u, p, d, label) == SecretExists(p) /\ StartPut(c, u, p, "update", d, label)

\* rotateSecret also reads the secret, under the trimmed path.
RotateSecret(c, u, p, d) ==
    /\ SecretExists(p)
    /\ SecretExists(Norm[p])
    /\ Visible(secrets[Norm[p]].id, secrets[Norm[p]].current)
    /\ Decrypts(secrets[Norm[p]].id, secrets[Norm[p]].current)
    /\ StartPut(c, u, p, "rotate", d, secrets[Norm[p]].attrs)

DeleteSecret(c, u, p) ==
    /\ req[c] = Idle
    /\ active[u]
    /\ SecretExists(p)
    /\ CanAccess(u, p, "delete")
    /\ req' = [req EXCEPT ![c] =
           [kind |-> "secret.delete", user |-> u, path |-> p,
            data |-> CHOOSE d \in Data : TRUE, label |-> Blank,
            review |-> ApprovalRequired("secret_delete")]]
    /\ LetIn(p, ApprovalRequired("secret_delete"))
    /\ UNCHANGED <<tables, approval_requests, settings, purged>>

\* CreateApproval: the row shows the trimmed path of a put, its sealed payload
\* keeps the spelling of the client.
CreateApproval(c) ==
    LET r == req[c] IN
    /\ r # Idle /\ r.kind # "resolve" /\ r.review
    /\ \E a \in Approvals :
           /\ approval_requests[a] = NoApproval
           /\ approval_requests' = [approval_requests EXCEPT ![a] =
                  [action |-> r.kind,
                   resource |-> IF r.kind = "secret.put" THEN Norm[r.path] ELSE r.path,
                   path |-> r.path, data |-> r.data, label |-> r.label,
                   requester |-> r.user, status |-> "pending", approver |-> Nobody]]
    /\ req' = [req EXCEPT ![c] = Idle]
    /\ UNCHANGED <<tables, settings, unreviewed, purged>>

\* Mutant: a request that must be reviewed is written all the same.
WriteUnreviewed(c) ==
    LET r == req[c]
        k == personal_key_version[r.user]
    IN
    /\ r # Idle /\ r.kind # "resolve"
    /\ IF r.kind = "secret.put"
       THEN /\ CanSeal(r.user, k)
            /\ PutSecretTx(Norm[r.path], r.user, k, r.data, r.label, r.label)
       ELSE /\ SoftDelete(Norm[r.path])
            /\ UNCHANGED <<secret_versions, issued>>
    /\ req' = [req EXCEPT ![c] = Idle]
    /\ UNCHANGED <<user_keys, personal_key_version, approval_requests, settings, unreviewed, purged>>

\* PutSecret trims the path; DeleteSecret does too.
WriteDirectly(c) ==
    LET r == req[c]
        k == personal_key_version[r.user]
    IN
    /\ r # Idle /\ r.kind # "resolve" /\ ~r.review
    /\ IF r.kind = "secret.put"
       THEN /\ CanSeal(r.user, k)
            /\ PutSecretTx(Norm[r.path], r.user, k, r.data, r.label, r.label)
       ELSE /\ SoftDelete(Norm[r.path])
            /\ UNCHANGED <<secret_versions, issued>>
    /\ req' = [req EXCEPT ![c] = Idle]
    /\ UNCHANGED <<user_keys, personal_key_version, approval_requests, settings, unreviewed, purged>>

\* A failed statement, a refused transaction or a client that left.
GiveUp(c) ==
    /\ req[c] # Idle
    /\ req' = [req EXCEPT ![c] = Idle]
    /\ UNCHANGED <<tables, approval_requests, settings, unreviewed, purged>>

-----------------------------------------------------------------------------
(* Reviews *)

\* resolveApproval: the reviewer role is checked before the transaction.
StartReview(c, u, a, decision) ==
    /\ req[c] = Idle
    /\ active[u]
    /\ CanReview(u)
    /\ req' = [req EXCEPT ![c] = [kind |-> "resolve", user |-> u, id |-> a, decision |-> decision]]
    /\ UNCHANGED <<tables, approval_requests, settings, unreviewed, purged>>

\* What the transaction checks of a request before it applies it: the requester
\* is still active and still has the capability for what the path is now.
StillAuthorised(row) ==
    /\ active[row.requester]
    /\ CanAccess(row.requester, row.resource,
           IF row.action = "secret.delete" THEN "delete"
           ELSE IF SecretExists(row.resource) THEN "update" ELSE "create")

\* Mutant: an approved put keeps the labels of the secret, as /v1 does.
ApplyKeepingLabels(row) ==
    LET k == personal_key_version[row.requester] IN
    IF row.action = "secret.put"
    THEN /\ CanSeal(row.requester, k)
         /\ PutOpenBaoSecretTx(row.path, row.requester, k, row.data)
    ELSE /\ SoftDelete(row.resource)
         /\ UNCHANGED <<secret_versions, issued>>

\* The approved change itself, in the name of the requester: a put goes to the
\* path of the payload, a delete to the resource.
Apply(row) ==
    LET k == personal_key_version[row.requester] IN
    IF row.action = "secret.put"
    THEN /\ CanSeal(row.requester, k)
         /\ PutSecretTx(row.path, row.requester, k, row.data, row.label, row.label)
    ELSE /\ SoftDelete(row.resource)
         /\ UNCHANGED <<secret_versions, issued>>

\* Mutant: the transaction does not look at the status of the row.
ResolvableAgain(row, u) == row # NoApproval /\ row.requester # u

\* Only a pending row, and never by its requester.
Resolvable(row, u) == row # NoApproval /\ row.status = "pending" /\ row.requester # u

ResolveApproval(c) ==
    LET r == req[c]
        row == approval_requests[r.id]
    IN
    /\ r # Idle /\ r.kind = "resolve"
    /\ Resolvable(row, r.user)
    /\ IF r.decision = "approved"
       THEN StillAuthorised(row) /\ Apply(row)
       ELSE UNCHANGED <<secrets, secret_versions, issued>>
    /\ approval_requests' = [approval_requests EXCEPT
           ![r.id] = [row EXCEPT !.status = r.decision, !.approver = r.user]]
    /\ req' = [req EXCEPT ![c] = Idle]
    /\ UNCHANGED <<user_keys, personal_key_version, settings, unreviewed, purged>>

-----------------------------------------------------------------------------
(* Everything else that changes what a handler has read *)

\* /v1 does not read the workflow setting.  Its handlers are one step here: u may
\* do what needs cap to the path p, which the handler has trimmed.
V1May(u, p, cap) == u \in V1Users /\ active[u] /\ Norm[p] = p /\ CanAccess(u, p, cap)

\* baoKVWrite.
BaoKVWrite(u, p, d) ==
    /\ V1May(u, p, IF SecretExists(p) THEN "update" ELSE "create")
    /\ CanSeal(u, personal_key_version[u])
    /\ PutOpenBaoSecretTx(p, u, personal_key_version[u], d)
    /\ LetIn(p, FALSE)
    /\ UNCHANGED <<user_keys, personal_key_version, approval_requests, settings, req, purged>>

\* baoKVMutateVersions: delete, undelete or destroy some versions.
BaoKVMutateVersions(u, p, op, vs) ==
    /\ V1May(u, p, "update")
    /\ vs # {}
    /\ SecretExists(p)
    /\ MutateVersions(p, vs, op)
    /\ UNCHANGED <<secrets, user_keys, personal_key_version, issued>>
    /\ UNCHANGED <<approval_requests, settings, req, unreviewed, purged>>

\* baoKVDeleteLatest.
BaoKVDeleteLatest(u, p) ==
    /\ V1May(u, p, "delete")
    /\ SecretExists(p)
    /\ MutateVersions(p, {secrets[p].current}, "delete")
    /\ UNCHANGED <<secrets, user_keys, personal_key_version, issued>>
    /\ UNCHANGED <<approval_requests, settings, req, unreviewed, purged>>

\* baoKVMetadataDelete: the secret goes with all its versions, deleted or not.
BaoKVMetadataDelete(u, p) ==
    /\ V1May(u, p, "delete")
    /\ PurgeSecret(p)
    /\ purged' = [purged EXCEPT ![p] = @ + secrets[p].current]
    /\ UNCHANGED <<user_keys, personal_key_version, issued, approval_requests, settings, req, unreviewed>>

\* An administrator changes an account, the policies or the workflow.
SetActive(u) ==
    /\ active' = [active EXCEPT ![u] = ~@]
    /\ UNCHANGED <<tables, approval_requests, grants, workflow, req, unreviewed, purged>>

SetPolicies(g) ==
    /\ grants' = g
    /\ UNCHANGED <<tables, approval_requests, active, workflow, req, unreviewed, purged>>

SetWorkflow(w) ==
    /\ workflow' = w
    /\ UNCHANGED <<tables, approval_requests, active, grants, req, unreviewed, purged>>

-----------------------------------------------------------------------------

Accept(c) ==
    \E u \in Users :
        \/ \E p \in Paths, d \in Data, label \in Labels : CreateSecret(c, u, p, d, label)
        \/ \E p \in Paths, d \in Data, label \in Labels : UpdateSecret(c, u, p, d, label)
        \/ \E p \in Paths, d \in Data : RotateSecret(c, u, p, d)
        \/ \E p \in Paths : DeleteSecret(c, u, p)
        \/ \E a \in Approvals, decision \in Decisions : StartReview(c, u, a, decision)

V1 ==
    \E u \in Users, p \in Paths :
        \/ \E d \in Data : BaoKVWrite(u, p, d)
        \/ \E op \in {"delete", "undelete", "destroy"}, vs \in SUBSET Versions :
               BaoKVMutateVersions(u, p, op, vs)
        \/ BaoKVDeleteLatest(u, p)
        \/ BaoKVMetadataDelete(u, p)

Next ==
    \/ \E c \in Requests :
           \/ Accept(c)
           \/ CreateApproval(c)
           \/ WriteDirectly(c)
           \/ ResolveApproval(c)
           \/ GiveUp(c)
    \/ V1
    \/ \E u \in Users : SetActive(u)
    \/ \E g \in GrantSets : SetPolicies(g)
    \/ \E w \in Workflows : SetWorkflow(w)

Spec == Init /\ [][Next]_vars

-----------------------------------------------------------------------------
(* Properties *)

Approved(action, p) ==
    {a \in Approvals : /\ approval_requests[a] # NoApproval
                       /\ approval_requests[a].status = "approved"
                       /\ approval_requests[a].action = action
                       /\ approval_requests[a].resource = p}

\* An approved request that a version is the payload of.  /v1 may have
\* destroyed the version since; nothing else wipes it.
Vouches(request, row) ==
    /\ row.destroyed \/ request.data = row.data
    /\ request.label = row.meta
    /\ request.requester = row.owner
    /\ request.approver \notin {row.owner, Nobody}

\* Every version is accounted for, however reviews, settings and /v1 overlap:
\* each approved put became one version and no more, which is still there unless
\* /v1 purged it, and every other version was let in while its operation needed
\* no review.  Where that never happened, each version is, destroyed or not, the
\* payload of a request that somebody other than its requester approved, and a
\* deleted secret was deleted by an approved request (ResolveApproval,
\* putOrRequestSecret).
ReviewedWrites ==
    \A p \in Paths :
        LET approved == Cardinality(Approved("secret.put", p))
            written == IF secrets[p] = NoSecret THEN 0 ELSE secrets[p].current
        IN
        /\ approved <= written + purged[p]
        /\ written + purged[p] <= approved + unreviewed[p]
        /\ (unreviewed[p] = 0 /\ secrets[p] # NoSecret) =>
               /\ \A v \in 1..written : \E a \in Approved("secret.put", p) :
                      Vouches(approval_requests[a], secret_versions[secrets[p].id][v])
               /\ secrets[p].deleted => Approved("secret.delete", p) # {}

\* What becomes of a request that this step approves: the capability it needs is
\* that of the change it now is.
AppliedNow(old) ==
    LET s == secrets'[old.resource]
        v == secret_versions'[s.id][s.current]
    IN  /\ s # NoSecret
        /\ active[old.requester]
        /\ CanAccess(old.requester, old.resource,
               IF s.deleted THEN "delete" ELSE IF SecretExists(old.resource) THEN "update" ELSE "create")
        /\ IF old.action = "secret.delete" THEN s.deleted
           ELSE ~s.deleted /\ s.attrs = old.label /\ v.data = old.data /\ v.owner = old.requester

ApprovesAsReviewed ==
    \A a \in Approvals :
        LET old == approval_requests[a]
            new == approval_requests'[a]
        IN  (old # NoApproval /\ new # old /\ new.status = "approved") => AppliedNow(old)

\* Approving a request does what its row says, where it says it: a put becomes
\* the current version of the resource with the labels of the request, a delete
\* deletes the resource, and at that moment the requester is an active account
\* whose policies allow it, however long the request was pending.
AppliedAsReviewed == [][ApprovesAsReviewed]_vars

RowsFinal ==
    \A a \in Approvals :
        (approval_requests[a] # NoApproval /\ approval_requests[a].status # "pending") =>
            approval_requests'[a] = approval_requests[a]

\* A request is decided once: afterwards its row never changes.
DecidedOnce == [][RowsFinal]_vars

\* Approved changes keep the tables consistent like any other write.
IInv == TypeOK /\ TablesInv

=============================================================================
