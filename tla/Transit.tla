------------------------------- MODULE Transit -------------------------------
(***************************************************************************)
(* The transit engine: named keys with versions, encryption and decryption *)
(* of single items and of batches over /v1 and over MCP, creation by the   *)
(* first encryption, and the administration of keys.  Every call is one    *)
(* request with an id of its own, and every database statement or          *)
(* transaction of it is a step: the permission a call was granted, and the *)
(* key it looked up, may be out of date when they are used.                *)
(*                                                                         *)
(* AES-GCM is what it authenticates: a ciphertext opens under the key that *)
(* sealed it, for the name and version in its additional data.             *)
(***************************************************************************)
EXTENDS Integers, Sequences, FiniteSets

CONSTANTS
    Names,          \* names of transit keys
    Requests,       \* ids of requests (requestIDFrom)
    Callers,        \* accounts
    Role,           \* Role[u]: "admin", "manager" or "user"
    Grants,         \* Grants[u]: capabilities of u on every path transit/<name>
    Plaintexts,
    MaxVersion,     \* bound on rotations
    MaxBatch,       \* bound on the length of batch_input
    Inputs,         \* the permissions a client may send
    NoRow, Bad      \* no row of transit_keys; an item that is refused unseen

Operations == {"encrypt", "decrypt", "rotate", "manage"}
Versions == 1..MaxVersion

ASSUME TransitAssumption ==
    /\ Role \in [Callers -> {"admin", "manager", "user"}]
    /\ Grants \in [Callers -> SUBSET {"encrypt", "decrypt", "create"}]
    /\ \A input \in Inputs : input.on \cup input.off \subseteq Operations \cup {"admin"}
    /\ MaxVersion \in Nat \ {0} /\ MaxBatch \in Nat \ {0}

KeyRow == [version : Versions, key : Nat \ {0}, permissions : SUBSET Operations]

\* vault:v<version>:<payload>, the payload sealed with key.
Ciphertext == [name : Names, version : Versions, key : Nat \ {0}, plain : Plaintexts]

\* A client may present a ciphertext under any version number.
Presented == [cipher : Ciphertext, version : Versions]

\* What a request has read and done so far.  left: items not yet processed;
\* out: what the successful items gave; fault: an item failed for a reason of
\* the server's; pc "work" is between two items.
Call == [pc : {"work", "create", "reload", "audit", "answer", "rotate", "manage", "done"},
         op : {"encrypt", "decrypt", "create", "rotate", "manage"},
         api : {"single", "batch", "mcp", "admin"},
         name : Names,
         left : Seq(Plaintexts \cup Presented \cup {Bad}),
         out : SUBSET (Ciphertext \cup Plaintexts),
         fault : BOOLEAN, status : {0, 200, 400, 403, 404, 409, 500, 503}]

ASSUME TransitNulls == NoRow \notin KeyRow \cup Call /\ Bad \notin Plaintexts \cup Presented

VARIABLES
    keys,           \* transit_keys
    versions,       \* transit_key_versions: name -> version -> key, 0 for no row
    drawn,          \* keys RandomKey has returned so far
    issued,         \* ciphertexts that were answered
    audit,          \* rows of audit_logs about decryptions: request and success
    req             \* request -> its call, or NoRow before it arrives

vars == <<keys, versions, drawn, issued, audit, req>>

\* Every table, and every call, has its type.
TypeOK ==
    /\ keys \in [Names -> KeyRow \cup {NoRow}]
    /\ versions \in [Names -> [Versions -> Nat]]
    /\ drawn \in Nat
    /\ issued \subseteq Ciphertext
    /\ audit \subseteq [request : Requests, success : BOOLEAN]
    /\ req \in [Requests -> Call \cup {NoRow}]

Init ==
    /\ keys = [n \in Names |-> NoRow]
    /\ versions = [n \in Names |-> [v \in Versions |-> 0]]
    /\ drawn = 0
    /\ issued = {}
    /\ audit = {}
    /\ req = [r \in Requests |-> NoRow]

At(r, pc) == req[r] # NoRow /\ req[r].pc = pc

\* The request is over, with this status and nothing disclosed.
Refuse(r, status) == req' = [req EXCEPT ![r] = [@ EXCEPT !.pc = "done", !.status = status, !.out = {}]]

-----------------------------------------------------------------------------
\* Authorisation.  Policies do not change here, the permissions of a key do.

MayUse(u, n, op) ==
    /\ op \in Grants[u]
    /\ IF keys[n] = NoRow THEN op = "encrypt" /\ "create" \in Grants[u]
                          ELSE op \in keys[n].permissions

\* 0 lets the call go on.
Verdict(u, n, op, items) ==
    IF MayUse(u, n, op) THEN IF items = <<>> THEN 400 ELSE 0
    ELSE IF op = "decrypt" /\ op \in Grants[u] /\ keys[n] = NoRow THEN 400 ELSE 403

\* A refusal of an MCP decryption is audited; no other refusal is.  A statement
\* of authorizeTransit may fail, with 500.
Arrive(r, u, n, op, api, items) ==
    /\ req[r] = NoRow
    /\ api = "batch" \/ Len(items) = 1
    /\ \E status \in {Verdict(u, n, op, items), 500} :
       LET pc == IF status = 0 THEN "work"
                 ELSE IF api = "mcp" /\ op = "decrypt" THEN "audit" ELSE "done"
       IN  req' = [req EXCEPT ![r] = [pc |-> pc, op |-> op, api |-> api, name |-> n,
                                      left |-> IF pc = "work" THEN items ELSE <<>>,
                                      out |-> {}, fault |-> FALSE, status |-> status]]
    /\ UNCHANGED <<keys, versions, drawn, issued, audit>>

-----------------------------------------------------------------------------
\* One item after the other; each is a call of TransitEncrypt or TransitDecrypt.

ItemDone(r, gave) ==
    req' = [req EXCEPT ![r].pc = "work", ![r].left = Tail(@), ![r].out = @ \cup gave]

\* An unsupported parameter, a missing field, or text that is not base64.
RefuseItem(r) ==
    /\ At(r, "work") /\ req[r].left # <<>> /\ Head(req[r].left) = Bad
    /\ ItemDone(r, {})
    /\ UNCHANGED <<keys, versions, drawn, issued, audit>>

\* A statement fails or a transaction aborts: the item is a server fault.
FailItem(r) ==
    /\ \/ At(r, "work") /\ req[r].left # <<>> /\ Head(req[r].left) # Bad
       \/ At(r, "create") \/ At(r, "reload")
    /\ req' = [req EXCEPT ![r].pc = "work", ![r].left = Tail(@), ![r].fault = TRUE]
    /\ UNCHANGED <<keys, versions, drawn, issued, audit>>

Sealed(n, v, k, p) == [name |-> n, version |-> v, key |-> k, plain |-> p]

\* The item under the newest version of the key, as the join reads it.
EncryptWithCurrent(r) ==
    LET n == req[r].name
        v == keys[n].version
    IN  ItemDone(r, {Sealed(n, v, versions[n][v], Head(req[r].left))})

TransitEncrypt(r) ==
    /\ At(r, "work") /\ req[r].op = "encrypt" /\ req[r].left # <<>> /\ Head(req[r].left) # Bad
    /\ IF keys[req[r].name] # NoRow
       THEN EncryptWithCurrent(r)
       ELSE req' = [req EXCEPT ![r].pc = "create"]
    /\ UNCHANGED <<keys, versions, drawn, issued, audit>>

\* Both rows of a first version, with the given permissions.
InsertRows(n, k, permissions) ==
    /\ keys' = [keys EXCEPT ![n] = [version |-> 1, key |-> k, permissions |-> permissions]]
    /\ versions' = [versions EXCEPT ![n][1] = k]

\* Mutant: ON CONFLICT(name) DO UPDATE SET permissions, to the column's default.
CreateResettingPermissions(r) ==
    /\ At(r, "create")
    /\ drawn' = drawn + 1
    /\ LET n == req[r].name
       IN  IF keys[n] = NoRow THEN InsertRows(n, drawn + 1, Operations)
           ELSE keys' = [keys EXCEPT ![n].permissions = Operations] /\ UNCHANGED versions
    /\ req' = [req EXCEPT ![r].pc = "reload"]
    /\ UNCHANGED <<issued, audit>>

\* ON CONFLICT DO NOTHING: another creator may have won.
CreateLazily(r) ==
    /\ At(r, "create")
    /\ drawn' = drawn + 1
    /\ LET n == req[r].name
       IN  IF keys[n] = NoRow THEN InsertRows(n, drawn + 1, Operations)
                              ELSE UNCHANGED <<keys, versions>>
    /\ req' = [req EXCEPT ![r].pc = "reload"]
    /\ UNCHANGED <<issued, audit>>

\* Mutant: encrypts with the key this request drew, not with the one that was stored.
EncryptWithDrawn(r) ==
    /\ At(r, "reload")
    /\ ItemDone(r, {Sealed(req[r].name, 1, drawn, Head(req[r].left))})
    /\ UNCHANGED <<keys, versions, drawn, issued, audit>>

\* The canonical key is read again: it may be another creator's, or rotated.
Reload(r) ==
    /\ At(r, "reload")
    /\ EncryptWithCurrent(r)
    /\ UNCHANGED <<keys, versions, drawn, issued, audit>>

Opens(n, item) ==
    /\ item.version = item.cipher.version /\ n = item.cipher.name
    /\ versions[n][item.version] = item.cipher.key

\* A missing version and a failed authentication are errors of the caller.
TransitDecrypt(r) ==
    /\ At(r, "work") /\ req[r].op = "decrypt" /\ req[r].left # <<>> /\ Head(req[r].left) # Bad
    /\ ItemDone(r, IF keys[req[r].name] # NoRow /\ Opens(req[r].name, Head(req[r].left))
                   THEN {Head(req[r].left).cipher.plain} ELSE {})
    /\ UNCHANGED <<keys, versions, drawn, issued, audit>>

-----------------------------------------------------------------------------
\* The audit row, and the answer.

\* Mutant: audits a batch only when none of its items was a server fault.
NeedsAuditIfClean(r) == req[r].op = "decrypt" /\ (req[r].api = "mcp" \/ (req[r].out # {} /\ ~req[r].fault))

\* One event covers the call; MCP records a failed decryption as well.
NeedsAudit(r) == req[r].op = "decrypt" /\ (req[r].api = "mcp" \/ req[r].out # {})

BatchStatus(r) == IF req[r].out # {} THEN 200 ELSE IF req[r].fault THEN 500 ELSE 400

Finish(r) ==
    /\ At(r, "work") /\ req[r].left = <<>>
    /\ req' = [req EXCEPT ![r].pc = IF NeedsAudit(r) THEN "audit" ELSE "answer",
                          ![r].status = BatchStatus(r)]
    /\ UNCHANGED <<keys, versions, drawn, issued, audit>>

\* recordSensitiveDisclosure, recordMCPTransitDecrypt: a failure withholds
\* every plaintext.
Record(r) ==
    /\ At(r, "audit")
    /\ \/ /\ audit' = audit \cup {[request |-> r, success |-> req[r].out # {}]}
          /\ req' = [req EXCEPT ![r].pc = "answer"]
       \/ Refuse(r, 503) /\ UNCHANGED audit
    /\ UNCHANGED <<keys, versions, drawn, issued>>

Answer(r) ==
    /\ At(r, "answer")
    /\ req' = [req EXCEPT ![r].pc = "done"]
    /\ issued' = issued \cup (IF req[r].op = "encrypt" THEN req[r].out ELSE {})
    /\ UNCHANGED <<keys, versions, drawn, audit>>

-----------------------------------------------------------------------------
\* Administration: /api/v1/keys, for administrators and managers.

\* What may be on of a body with the names on set to true and off to false.
\* "admin" is another name for "manage"; where a body has both and they differ,
\* the order of a Go map decides.
NormalizePermissions(input) ==
    LET renamed(names) == {IF p = "admin" THEN "manage" ELSE p : p \in names}
    IN  {clean \in SUBSET renamed(input.on) : renamed(input.on) \ renamed(input.off) \subseteq clean}

\* CreateTransitKey: a body that names no permission at all grants every one,
\* and one that only says false grants none.
NewPermissions(input) ==
    IF input.on \cup input.off = {} THEN {Operations} ELSE NormalizePermissions(input)

NewCall(r, n, op, pc, status) ==
    req' = [req EXCEPT ![r] = [pc |-> pc, op |-> op, api |-> "admin", name |-> n,
                               left |-> <<>>, out |-> {}, fault |-> FALSE, status |-> status]]

\* A name that is taken is 409.  500 is a failed transaction, or a failure to
\* read the owner after it.
CreateKey(r, u, n, input) ==
    /\ req[r] = NoRow /\ Role[u] \in {"admin", "manager"}
    /\ \/ /\ keys[n] = NoRow
          /\ \E status \in {200, 500} : NewCall(r, n, "create", "done", status)
          /\ drawn' = drawn + 1
          /\ \E clean \in NewPermissions(input) : InsertRows(n, drawn + 1, clean)
       \/ /\ NewCall(r, n, "create", "done", IF keys[n] = NoRow THEN 500 ELSE 409)
          /\ UNCHANGED <<keys, versions, drawn>>
    /\ UNCHANGED <<issued, audit>>

\* transitManagementAllowed, from a row read before the transaction.
Manages(u, n, op) ==
    \/ Role[u] = "admin"
    \/ Role[u] = "manager" /\ keys[n] # NoRow /\ op \in keys[n].permissions

StartManagement(r, u, n, op) ==
    /\ req[r] = NoRow /\ Role[u] \in {"admin", "manager"}
    /\ IF Manages(u, n, op) THEN NewCall(r, n, op, op, 0)
                            ELSE NewCall(r, n, op, "done", 403)
    /\ UNCHANGED <<keys, versions, drawn, issued, audit>>

\* Mutant: the new key is sealed as the version it replaces.
RotateInPlace(r) ==
    /\ At(r, "rotate")
    /\ LET n == req[r].name
       IN  /\ keys[n] # NoRow
           /\ drawn' = drawn + 1
           /\ versions' = [versions EXCEPT ![n][keys[n].version] = drawn + 1]
           /\ keys' = [keys EXCEPT ![n].key = drawn + 1]
    /\ req' = [req EXCEPT ![r].pc = "done", ![r].status = 200]
    /\ UNCHANGED <<issued, audit>>

\* Mutant: the version row is stored, the key row keeps its version.
RotateVersionOnly(r) ==
    /\ At(r, "rotate")
    /\ LET n == req[r].name
       IN  /\ keys[n] # NoRow /\ keys[n].version < MaxVersion
           /\ drawn' = drawn + 1
           /\ versions' = [versions EXCEPT ![n][keys[n].version + 1] = drawn + 1]
    /\ req' = [req EXCEPT ![r].pc = "done", ![r].status = 200]
    /\ UNCHANGED <<keys, issued, audit>>

\* SELECT ... FOR UPDATE, INSERT, UPDATE in one serializable transaction.
RotateTransitKey(r) ==
    /\ At(r, "rotate")
    /\ LET n == req[r].name
           v == keys[n].version + 1
       IN  \/ /\ keys[n] # NoRow /\ v <= MaxVersion
              /\ drawn' = drawn + 1
              /\ versions' = [versions EXCEPT ![n][v] = drawn + 1]
              /\ keys' = [keys EXCEPT ![n].version = v, ![n].key = drawn + 1]
              /\ req' = [req EXCEPT ![r].pc = "done", ![r].status = 200]
           \/ /\ Refuse(r, IF keys[n] = NoRow THEN 404 ELSE 500)
              /\ UNCHANGED <<keys, versions, drawn>>
    /\ UNCHANGED <<issued, audit>>

\* One UPDATE: the permissions are replaced, an empty set takes all of them.
UpdateTransitPermissions(r, input) ==
    /\ At(r, "manage")
    /\ LET n == req[r].name
       IN  \/ /\ keys[n] # NoRow
              /\ \E clean \in NormalizePermissions(input) : keys' = [keys EXCEPT ![n].permissions = clean]
              /\ req' = [req EXCEPT ![r].pc = "done", ![r].status = 200]
           \/ /\ Refuse(r, IF keys[n] = NoRow THEN 404 ELSE 500)
              /\ UNCHANGED keys
    /\ UNCHANGED <<versions, drawn, issued, audit>>

-----------------------------------------------------------------------------
Batches(S) == UNION {[1..k -> S] : k \in 0..MaxBatch}

PresentedNow == [cipher : issued, version : Versions]

\* One step of a request that transforms or administers.
Step(r) ==
    \/ RefuseItem(r) \/ FailItem(r) \/ TransitEncrypt(r) \/ CreateLazily(r) \/ Reload(r)
    \/ TransitDecrypt(r) \/ Finish(r) \/ Record(r) \/ Answer(r)
    \/ RotateTransitKey(r)
    \/ \E input \in Inputs : UpdateTransitPermissions(r, input)

Next ==
    \E r \in Requests :
        \/ \E u \in Callers, n \in Names, api \in {"single", "batch", "mcp"} :
              \/ \E items \in Batches(Plaintexts \cup {Bad}) : Arrive(r, u, n, "encrypt", api, items)
              \/ \E items \in Batches(PresentedNow \cup {Bad}) : Arrive(r, u, n, "decrypt", api, items)
        \/ \E u \in Callers, n \in Names :
              \/ \E input \in Inputs : CreateKey(r, u, n, input)
              \/ \E op \in {"rotate", "manage"} : StartManagement(r, u, n, op)
        \/ Step(r)

Spec == Init /\ [][Next]_vars

-----------------------------------------------------------------------------
\* The rows of a key: exactly the versions up to the current one, the current
\* key equal to its version row, no key drawn twice.
RingWhole ==
    /\ \A n \in Names :
          IF keys[n] = NoRow
          THEN \A v \in Versions : versions[n][v] = 0
          ELSE /\ \A v \in Versions : versions[n][v] # 0 <=> v <= keys[n].version
               /\ versions[n][keys[n].version] = keys[n].key
    /\ \A n \in Names, v \in Versions : versions[n][v] <= drawn
    /\ \A n, m \in Names, v, w \in Versions :
          versions[n][v] # 0 /\ versions[n][v] = versions[m][w] => n = m /\ v = w

\* Every ciphertext the server made, whether it was answered yet or not.
Out(r) == IF req[r] # NoRow /\ req[r].op = "encrypt" THEN req[r].out ELSE {}
Made == issued \cup UNION {Out(r) : r \in Requests}

CanOpen(c) == keys[c.name] # NoRow /\ Opens(c.name, [cipher |-> c, version |-> c.version])

\* Every ciphertext that was answered, or is going to be, opens for ever: the
\* version it names is there and holds the key that sealed it, although two
\* first encryptions may race to create that key and rotations may overtake
\* them (transit.go transitKey, "always reload the canonical key").
CiphertextsOpen == \A c \in Made : CanOpen(c)

DisclosureOK(r, c) ==
    /\ c.op = "decrypt" /\ c.pc \in {"answer", "done"} /\ c.out # {} => [request |-> r, success |-> TRUE] \in audit
    /\ [request |-> r, success |-> TRUE] \in audit => c.op = "decrypt" /\ c.out # {}
    /\ c.op = "decrypt" /\ c.api = "mcp" /\ (c.pc = "answer" \/ (c.pc = "done" /\ c.status # 503)) =>
          \E a \in audit : a.request = r

\* No plaintext leaves before its audit row is stored, on any of the three
\* paths and also for a batch in which only some items succeeded; an audit row
\* that says success is never about a call that withheld or gave nothing; and
\* every decryption over MCP is on record, also a refused one, unless the
\* answer says that the audit failed (sensitive_audit.go, mcp.go
\* recordMCPTransitDecrypt).
DisclosureAudited == \A r \in Requests : req[r] # NoRow => DisclosureOK(r, req[r])

\* What the pc of a call says about the rest of it.
WellFormed(c) ==
    /\ c.pc \in {"create", "reload"} => c.op = "encrypt" /\ c.left # <<>> /\ Head(c.left) # Bad
    /\ c.pc = "work" => c.op \in {"encrypt", "decrypt"}
    /\ c.pc = "audit" => c.op = "decrypt"
    /\ c.pc \in {"rotate", "manage"} => c.op = c.pc
    /\ c.op = "encrypt" => c.out \subseteq Ciphertext /\ c.left \in Seq(Plaintexts \cup {Bad})
    /\ c.op = "decrypt" => c.out \subseteq Plaintexts /\ c.left \in Seq(Presented \cup {Bad})

\* A call that reloads finds a key, and audit rows are about calls that are
\* past their audit.
CallsConsistent ==
    /\ \A r \in Requests : req[r] # NoRow => WellFormed(req[r]) /\ (req[r].pc = "reload" => keys[req[r].name] # NoRow)
    /\ \A a \in audit : req[a.request] # NoRow /\ req[a.request].pc \in {"answer", "done"}

\* The inductive invariant.
IInv == TypeOK /\ RingWhole /\ CallsConsistent /\ CiphertextsOpen /\ DisclosureAudited

\* Permissions change only by an update of permissions: neither a rotation nor
\* a first encryption that lost the race against an administrator's creation
\* touches what the administrator set (transit.go ON CONFLICT DO NOTHING).
PermissionsKept ==
    \A n \in Names :
        keys[n] # NoRow /\ (keys'[n] = NoRow \/ keys'[n].permissions # keys[n].permissions) =>
            /\ keys'[n] # NoRow
            /\ \E r \in Requests : At(r, "manage") /\ req[r].name = n /\ req'[r].pc = "done"
PermissionsStable == [][PermissionsKept]_vars

\* The keys and the ciphertexts behave as a ring that only grows (KeyRing).
Ring == [n \in Names |-> IF keys[n] = NoRow THEN <<>>
                         ELSE [v \in 1..keys[n].version |-> versions[n][v]]]
Abstract == INSTANCE KeyRing WITH ring <- Ring, sealed <- Made
ImplementsKeyRing == Abstract!Spec
=============================================================================
