# A TLA+ verification project for jikim

jikim (`github.com/hkjang/jikim`) is a secret store with an Admin API
(`/api/v1`), an API compatible with OpenBao's KV v2 (`/v1`), accounts, OIDC
logins, an approval workflow, webhooks and an MCP endpoint. One Go process
serves all of them from PostgreSQL; every request is a goroutine, and nothing
orders two requests but the database and a few mutexes. This directory models
the parts whose correctness depends on that, checks them with TLC, and proves
their safety properties and refinements with TLAPS.

## 1. The system

| Component | State | Operations | Interaction and difficulty |
| --- | --- | --- | --- |
| Secret store: `store/secrets.go`, `/v1` in `httpapi/openbao.go`, `httpapi/secret_handlers.go` | tables `secrets`, `secret_versions` | put with and without CAS, create, update, rotate, soft delete, version delete/undelete/destroy, metadata delete | serializable transactions that conflict and (for `/v1` without CAS) are retried; authorisation reads before the transaction |
| Personal keys: `store/users.go` | `user_keys`, `users.personal_key_version` | rotate, change permissions | every stored version stays sealed with the key of its time |
| Approval workflow: `store/approvals.go` | `approval_requests`, setting `workflow` | request, approve, reject | requests outlive the settings, policies and accounts they were made under |
| Accounts and sessions: `store/users.go`, `store/tokens.go`, `httpapi/auth_handlers.go` | `users`, `sessions` | login, token, password change, administration, revocation | the middleware's copy of the account is stale when the handler acts |
| OIDC login: `httpapi/oidc.go`, `store/oidc.go` | `oidc_login_codes` | callback, role synchronisation, exchange | several statements per login, no transaction around them |
| Login limiter: `httpapi/login_rate_limit.go` | a map in memory | blocked, failed, succeeded, evict | check and count are separate critical sections |
| Webhooks: `httpapi/webhook.go`, `store/webhooks.go` | `webhook_deliveries`, the channel `webhookSlots` | queue, deliver, test, retry, record | goroutines that outlive requests, an endpoint that answers late or never, restarts |
| Policies: `store/resources.go`, `capabilities.go`, `policy_simulation.go` | `policies`, `user_policies` | put, delete, assign; four evaluators: `canAccessWith`, `CapabilitiesForPaths`, `SimulateAccess`, the SQL of a list | every handler's guard, implemented four times |
| Settings: `store/settings.go`, `updateSettings` | `settings` | check, write encrypted rows, patch, put | many statements per update, none of them in a transaction with another |
| Transit: `store/transit.go`, `/v1/transit`, `/api/v1/keys`, MCP | `transit_keys`, `transit_key_versions` | create, rotate, permissions, encrypt, decrypt, batches | the first encryption creates the key; a ciphertext outlives every race |
| Reads and audit: `httpapi/sensitive_audit.go`, read handlers | `audit_logs` | authorise, read metadata, read value, record, answer | a disclosure is withheld when its record fails; every statement sees another state |
| MCP sign-on: `httpapi/mcp_oauth.go`, `store/mcp_oauth.go` | the cache of OIDC providers | read two settings, verify, look up, scope check | the configuration changes under a call |
| AI limiter, tracking, start-up | maps in memory, migration table | see section 6 | counters under a mutex, advisory locks |

What makes each correct, and the code lines that could break it, are listed as
`hazards` in `PROJECT.json`.

## 2. Modules

| Module | Models | Extends |
| --- | --- | --- |
| `SecretTables` | the tables of secrets and keys, and each SQL statement or helper on them as an operator | |
| `OpenBaoKV` | requests on them: authorise, begin (snapshot), commit or abort and retry | `SecretTables` |
| `VersionedKV` | abstract: an append-only log per path | |
| `Approvals` | the workflow in front of the same tables | `SecretTables` |
| `Accounts` | accounts, sessions, OIDC codes | |
| `LoginLimiter` | the table of failed logins | |
| `Webhooks` | deliveries, slots, goroutines | |
| `Transit` | transit keys, calls on them over three APIs, audit of decryptions | |
| `KeyRing` | abstract: named rings of keys that only grow, and what was sealed with them | |
| `Settings` | the settings table and the update handler | |
| `MCPOAuth` | MCP calls with single sign-on, over the settings as they change | `Settings` |
| `Policies` | policies, assignments, the four evaluators | `SecretTables` |
| `Disclosure` | reads of secrets and their audit, next to writes and policy changes | `Policies` |
| `SecretTablesProofs` | what each statement on the tables preserves and does | `SecretTables` |
| `OpenBaoKVProofs`, `ApprovalsProofs`, `DisclosureProofs` | theorems about requests on those tables | the module they name, `SecretTablesProofs` |
| `TransitProofs`, `WebhooksProofs`, `MCPOAuthProofs` | theorems about the module they name (the last also about `Settings`) | that module |
| `AccountsProofs` | theorems about `Accounts` and `LoginLimiter` | `Accounts`, `LoginLimiter` |
| `MC*` | values for the constants of the runs | |

A handler is split where the code may be overtaken: at every statement or
transaction of its own. A transaction is one step, or, in `OpenBaoKV`, where
conflicts are the subject, a snapshot and a commit. `Mutant:` comments mark
variants of a definition with a plausible bug; no specification uses them, they
show that a property notices the bug.

### SecretTables and OpenBaoKV

`secrets[p]` is the row of a path (id, `current_version`, `deleted_at` set or
not, the descriptive columns as one label), `secret_versions[id][v]` a version.
A ciphertext is its plaintext plus what AES-GCM authenticates: the wrapping key
(owner, version) and the additional data `secret:<id>:<version>`; `Decrypts`
is the JOIN and the two decryptions of `getSecretRow`. `CanSeal` combines the
encrypt permission `userDataKeyTx` asks for with the decrypt permission that the
read at the end of `insertSecretVersionTx` needs.

A request record carries what its goroutine has read: `BaoKVWrite`,
`CreateSecret`, `UpdateSecret`, `RotateSecret`, `BaoKVMutateVersions` and
`BaoKVDeleteLatest` authorise; `BeginPut`/`BeginMutation` are the
`SELECT ... FOR UPDATE` with the CAS test; `CommitPut`/`CommitMutation` run the
statements if the row is the one of the snapshot; `Abort` is SQLSTATE 40001 or
23505, after which only a `/v1` write without CAS tries again. `DeleteSecret`,
`BaoKVMetadataDelete`, `RotateKey` and `ChangeKeyPermissions` are single
statements or transactions that do not touch a secrets row another request
depends on in between. PostgreSQL itself is not modelled beyond this: a commit
needs an unchanged row, and a transaction may abort at any time.

### Approvals

`workflow` is the setting, `active` and `grants` stand for accounts and
policies; all three may change at any step. `Norm` maps a spelling of a path to
the trimmed one, because `CreateApproval` stores both. `ResolveApproval` is one
transaction: `Resolvable`, `StillAuthorised`, `Apply`. A request sends one label
as its descriptive columns and its metadata.

`/v1` never reads the setting: `BaoKVWrite`, `BaoKVMutateVersions` (delete,
undelete, destroy), `BaoKVDeleteLatest` and `BaoKVMetadataDelete` (the purge) act
on the same tables at any moment; `V1Users` says who uses them. Two history
variables keep the accounts of `ReviewedWrites`: `unreviewed` counts the changes
of a path that were let in without review, `/v1` writes among them, and `purged`
the versions that purges removed. A purge takes the versions of approved requests
with it and a destroy their payload; neither adds a version nobody approved, so
the property counts the first and exempts the payload of the second
(`Vouches`), and asks that all other versions are what was approved.

### Accounts

A password is the number of changes before it. `Arrive` is `withAuth`: the account is usable when
the request arrives, and not looked at again unless the code does. A login is
`Authenticate`, `CheckLocalLogin` (the setting is read) and `GrantSession` (the
INSERT); an exchange is `ConsumeOIDCLoginCode`, `CheckExchange` (the account is
read) and `GrantSession`; a token request arrives and ends in `GrantSession`.
`EndSession` is logout, revocation by the owner, and expiry. `AdminOps` and `ClaimRoles`
select which administrative operations and which OIDC claims a run allows.

### LoginLimiter and Webhooks

`Victims` is the set of outcomes `evict` can have over all map iteration orders.
In `Webhooks`, `Post` separates what the endpoint did from the answer that
arrived; `Restart` loses goroutines and the channel; a statement that records an
outcome may fail. `faults` counts both.

### Transit

A call is a record with a request id, as the code's `requestIDFrom`; it works off
its items one by one (`left`), collects what succeeded (`out`) and answers.
`Arrive` is the decoding, `authorizeTransit` and `baoAllow`; then each statement
is a step: the lookup (`TransitEncrypt`, `TransitDecrypt`), the insert with
`ON CONFLICT DO NOTHING` (`CreateLazily`), the second lookup (`Reload`), the
audit (`Record`). Single calls, batches and MCP differ in what they audit
(`NeedsAudit`) and in their statuses. `CreateKey`, `RotateTransitKey` and
`UpdateTransitPermissions` are `/api/v1/keys`, after the check of
`StartManagement` on a row read before. Their bodies are records of the names sent
as true and as false: a body without names grants everything to a new key, one
with only false ones nothing (`NewPermissions`), and one in which `admin` and
`manage` differ is decided by the order of a Go map (`NormalizePermissions` is the
set of outcomes). Keys are numbers `drawn` one after the
other, so that a key drawn twice would be visible. A ciphertext may be presented
under another version number than its own (`Presented`), and an unsupported
parameter, a missing field or text that is not base64 is the item `Bad`.

### Settings and MCPOAuth

A row keeps the fields that some check or the MCP endpoint reads; `Absent` is a
field that is not in the JSON. `Submit` validates the body and decides about a
random signing key, `Check` are the checks against other rows (one read each),
`WriteSecret` one DELETE or PUT of an encrypted row, `ReadForPatch` and
`PutSetting` the two statements of `PatchSetting`; `StatementFails` may end an
update anywhere. A value that only `PutSetting` refuses (`"short"`) stops an
update after its first writes, as in the code. An update is `cleared` between its
deletion of the signing key and its PUT of the next; when it stops there (`Stop`)
the key is `stranded`, until some update stores one.

An MCP call reads `mcp` (`ReadMCPSetting`), then `oidc` (`ReadOIDCSetting`),
takes a provider from the cache or discovers it and verifies the token with it
(`OAuthProvider`, `Verify`), looks the account up (`UserByOIDCSubject`) and runs
a tool (`ToolCall`). The audience it accepts is the resource name of the row it
read, or, when there is none, `Here`, the URL the code derives from the OIDC
callback or the request (`Resource`). A token may carry an `mcp:` scope the server
does not know, which grants nothing. `providers[i]` is the issuer whose keys are cached for `i`,
which is what the cache could get wrong.

### Policies and Disclosure

`PathMatches` is the Go function, `SQLMatches` the WHERE clause with `left` and
`trim`, both on texts as sequences of characters; `exact` tells apart a policy
whose JSON keys are spelt as documented, because `encoding/json` takes any case
and the SQL does not. A policy that spells them otherwise grants access and is
not listed: `EvaluatorsAgree` demands equality only for exact ones.

A reading call is a sequence of statements (`Authorize`, `ReadRow`,
`ReadVersions`, `GetSecret`, `RecordAudit`), each on the tables of its moment.
Writes of others appear as their commits (`CommitPut`, `CommitMutation`,
`CommitDelete`, `CommitPurge`), with the operators of `SecretTables`. `purged`
is a history variable: the path was purged while the call ran.

## 3. Runs

Every run is `tlc -config <name>.cfg <module>`.

| Run | Shows | Bounds |
| --- | --- | --- |
| `kv_core` | history complete and immutable, CAS exact, labels kept, soft-deleted secrets frozen, refinement of `VersionedKV`, the inductive invariant | 2 requests, 1 path, 2 versions, 2 ids (so that a purged path can be written again), 2 attempts |
| `kv_keys` | versions stay readable through rotations and permission changes; every request is answered | 1 request, 3 key versions, 4 permission sets, 5 attempts as in the code |
| `approvals` | every version accounted for, approved requests do what they say and are decided once, although settings, policies, accounts and tables change | 1 handler, 2 requests, 2 versions and ids, 2 labels, 3 workflow settings, 1 change of a path without review (`MaxUnreviewed`) |
| `accounts_local` | an administrator remains under updates; password changes end sessions | 2 accounts, 2 sessions, 2 handlers |
| `accounts_oidc` | a login code is spent once | 1 code, 2 handlers |
| `limiter` | guesses per window bounded, capacity kept, lockouts kept | 4 keys for 3 places, 2 logins in flight, limit 2 |
| `webhooks` | the history is true and only grows, slots balance, no event is left pending by the server | 2 events, 1 slot, 2 handlers, 2 workers, 1 restart or failed statement |
| `transit` | ciphertexts open for ever, disclosures are audited on all three APIs, permissions are stable, refinement of `KeyRing`, the inductive invariant | 1 name, 2 versions, 3 requests of 2 callers, batches of up to 2 items, 4 permission bodies |
| `settings` | rows stay valid, the signing key is kept, a call runs as the account and within the scopes of its token | 2 administrators with 5 bodies, 1 call, 2 tokens, 2 issuers that know the same subject |
| `disclosure` | values are audited, answers are coherent, evaluators agree, a remade policy reaches nobody | 1 reader, 1 path with 2 ids and 2 versions, 1 policy with 4 inputs, matchers on all texts of up to 4 characters |

Two requests are enough for every race of `kv_core`: statements of third
parties (delete, purge, key changes) are separate actions that need no request.
Two ids and two versions give each history one predecessor and one successor.
The limiter's capacity is one less than the keys, so that every failure of the
fourth evicts. All interesting cases were confirmed by the mutants: each
property has one that it refutes under the same bounds.

In `transit` three requests give two racing first encryptions a rotation, a
creation or a permission change, or a later decryption, between any two of their
steps; a second name would only add independent copies, since every statement
names one key. In `settings` the bodies are chosen so that each check can pass
in one order and fail in another: one issuer needs `allow_insecure_http`, one
body takes it away, two rows are patched together, one body clears and one
refuses a signing key. In `disclosure` one reader is enough because readers
change nothing; two ids let a purged path be written again under a call. The
characters are two letters, slash and star: the matchers look at nothing else.

In `approvals` one handler is enough for concurrent reviewers: a review reads
nothing of the request before its transaction, and everything a handler read
earlier may change between its two steps. The two ids let a purged path be
written again by a request that was waiting; one change without review is enough
to follow, precede or be purged with one that was approved.

Symmetry is used over requests, ids and other interchangeable names, never in a
run with a liveness property. The state space of `Webhooks` ends because
attempts and events are bounded, so deadlock is not checked there; nor in
`transit`, `settings` and `disclosure`, where a bounded number of requests,
versions or ids may be used up.

### Disagreements between the code and what it says

Two have a run of their own (expected violations, with the lines and the
statements they contradict in `findings`):

- `accounts_delete`: two administrators delete each other; `DeleteUser` does not
  count administrators as `UpdateUserAsAdmin` does. `accounts_local` shows that
  without deletions one always remains.
- `approvals_spelling`: a request for `/p` is shown and authorised as `p` and
  applied as `/p`, because `ResolveApproval` calls `putSecretTx` without the
  trimming of `PutSecret`.

Others are behaviours of the modules, found while stating properties and not
kept as runs:

- `OpenBaoKV`: two `/v1` writes of an account that may only create both see a
  missing key; the second commits as an update (`docs/guides/compatibility.md:54`
  asks for `update`).
- `Approvals`: `/v1` writes, destroys and purges are never reviewed.
  `docs/USER_GUIDE.md:170` says that there is no Break Glass bypass and speaks of
  the workflow of the Admin API; no document says that `/v1` is under it, so its
  changes are counted as unreviewed and not called a divergence.
- `Accounts`: a login that verified the old password inserts its session after
  the password change has ended the others; and the OIDC role synchronisation
  (`UpdateUser`) writes back an `active` it read before an administrator
  deactivated the account, which undoes the deactivation
  (`docs/ADMIN_GUIDE.md:315` relies on it).
- `Settings`: a body that clears the signing key and sends one that is too short
  is refused after the key is gone; a body that clears the webhook URL and does
  not mention `enabled` leaves notifications enabled without it. `stranded`
  excuses the first in `SigningKeyKept`, and nothing else.
- `Disclosure`: when a secret is purged and written again between the two reads
  of `baoKVRead`, the value is of the new secret and the timestamps of the old.

## 4. Fairness

`kv_keys` assumes weak fairness of each goroutine's own steps (`Serve`):
Go schedules a runnable goroutine and PostgreSQL answers every statement, with
success or an error. It does not assume that a transaction ever succeeds: `Abort`
is part of `Serve`, and `RequestsEnd` holds because attempts are bounded.
`webhooks` assumes the same of handlers and delivery goroutines; the 10 s context
of a delivery ends every post. After a restart or a failed statement the row does
stay pending in the code, as the comment in `queueWebhook` says; `PendingCloses`
excuses exactly these. The runs `transit`, `settings` and `disclosure` state
safety only and assume no fairness.

## 5. Proofs

Every safety property that a run checks is also a theorem, and so are the two
refinements: the runs show it on a small instance, the theorem for any sets of
requests, users, paths, keys, payloads and so on, and any bounds. A theorem rests
on the named assumptions of the modules it extends (bounds are positive, null
values are no rows, inputs have their types) and on the hypotheses written in it.

A proof has one shape throughout: an inductive invariant, one lemma per action
that the action keeps it, and the property as a consequence of it, or, for an
action property, of it and one step. Each invariant was model-checked before it
was proved. What had to be added to the property, and why:

**Secret store** (`OpenBaoKVProofs`). `HistoryComplete` is not inductive: an
insert under an id with old versions would leave some beyond `current_version`.
`IdsDrawn` excludes it (an id in use was drawn, belongs to one path, and one not
drawn has no versions). `LiveReadable` needs `Sealed` (a version is bound to its
place and to a key its author had) and `KeysKept` (keys 1..`personal_key_version`
exist and keep decrypt). A commit uses what the transaction read earlier, so
`SnapshotsValid` adds what remains true of it. `IInv` is the conjunction.
`CASAlwaysExact` adds `CASChecked`: a transaction past its check carries a row
that passed it. `VersionedKVImplemented` maps each path to the log its clients
see; every step is a step of `VersionedKV` on one path or a stutter, and
`ShownAssumption` says that the abstract "absent" is no log.
`SecretTablesProofs` proves what each statement preserves and does
(`PutDone`, `MutateDone`, `PurgeDone`, ...), whoever runs it; the next two use
the same lemmas.

**Approvals** (`ApprovalsProofs`). `ReviewedWrites` counts, so its invariant
`ReviewInv` has to balance: versions, those purged and changes waiting to be made
are the approved puts and those let in without review (`BalancedAt`), and a
version that was not let in is vouched for by an approved request (`VouchedAt`). Both theorems
about the content of an approval assume `CleanPaths`, paths in their normal
spelling; without it they are false, which is what `approvals_spelling` shows.

**Disclosure and policies** (`DisclosureProofs`). What a call read is about
tables that have moved on: `RowOK` keeps what remains true (the id was drawn and
never changes hands, versions were at most added, the path still has the id
unless it was purged), `NoOrphans` that a purge leaves no versions behind,
`StepOK` and `ReadOK` what the call knows at each step. `EvaluatorsAlwaysAgree`
rests on `Matchers`: on valid paths of any length over any alphabet, the Go
function and the SQL are the documented relation. `PolicyAssumption` says that
rules are texts of that alphabet.

**Transit** (`TransitProofs`). `IInv` of the module: besides the two properties,
that a ring is whole (`RingWhole`) and that every call is where its kind of call
can be (`CallsConsistent`), which also decides what its items are.
`KeyRingImplemented` maps each name to the sequence of its keys.

**Settings and MCP** (`MCPOAuthProofs`). `RowsValid` needs that what an update
carries is valid when merged; `SigningKeyKept` that whoever deletes the key has a
statement to come that stores one (`KeyRestored`), and that, when the key is
missing and not stranded, an update is `cleared` and will store it, or nothing
has been configured yet (`KeySafe`). The proof needs a fact of
the handler that the assumption now states: the flag that clears the key is a
field of the notifications body (`SettingsAssumption`). Calls read the settings
and are not read by them, so `CallsInv` is separate: cached providers are those of
their issuer, and a call's copies agree with its token.

**Accounts and the login limiter** (`AccountsProofs`). `CodeSpentOnce` is
inductive once codes that were not drawn are included; `Known` says that an
account a request has seen is still there. `AdminAlwaysRemains` assumes
`OnlyAdmins` (no roles from OIDC, no deletions) and an active administrator at
the start: `UpdateUser` of an OIDC login and `DeleteUser` write past the check,
and `accounts_delete` shows what then happens. The limiter's `WithinCapacity` and
`GuessesBounded` are inductive with its types; they need that keys and logins
in flight are finite (`LimiterAssumption`). Counting is by the library's theorems
on finite sets. The two specifications are proved side by side (`Spec` and
`LimiterSpec`); they share no variable, as the table in memory and the database
share nothing in the code.

**Webhooks** (`WebhooksProofs`). `DeliveredIsTrue` speaks of the rows only; an
outcome is recorded steps after the answer came in, so `InHandTrue` carries it
there. `SlotsBalanced` needs no more than types.

Only model-checked: the two liveness properties, `RequestsEnd` and
`PendingCloses`, because the prover does not reason about fairness; and the two
properties that the code violates. No module uses a RECURSIVE operator.

## 6. Not modelled

Listed with reasons in `components`:

- the web console, static files, the OpenAPI document and the configuration: no
  server state;
- cryptographic primitives, modelled by what they authenticate;
- start-up: each step is serialised by an advisory lock or one serializable
  transaction, and a model would restate the locks;
- the AI limiter and the recorder of CSP violations: counters and a bounded map
  under one mutex each, with no state read under one lock and used under
  another; streaming a chat answer and injecting a script are I/O and text;
- the OIDC redirect before the ID token is verified (state cookie, PKCE, nonce):
  its state is in the browser; from the verified token on it is in `Accounts`;
- the best-effort audit of all other requests, retention and export of audit
  rows, dashboard queries and single-statement CRUD of applications;
- JSON-RPC framing and the discovery documents of the MCP endpoint.

TTLs are modelled by expiry at any time.

## 7. Plan

The model covers the parts of the system whose behaviour depends on
interleaving or failure, and its safety properties are proved. What would come
next:

1. Statements about the code that no property makes yet: the hazards of
   `PROJECT.json` without one are races the code does not close, and would
   become properties when it does.
2. The recorder of violations and the AI limiter, should either begin to read
   under one lock and act under another.
