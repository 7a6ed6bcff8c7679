------------------------------ MODULE Settings ------------------------------
(***************************************************************************)
(* The settings table and updateSettings.  A request carries patches of    *)
(* several rows and changes of the encrypted ones; it is checked against   *)
(* rows read one after the other, then written statement by statement,     *)
(* with no transaction around any of it: other requests come in between,   *)
(* and a refused or failed statement leaves what was written before it.    *)
(*                                                                         *)
(* Of a row only the fields are kept that one of the checks, or the MCP    *)
(* endpoint, reads.  A URL is a model value; Insecure names those that     *)
(* need allow_insecure_http.                                               *)
(***************************************************************************)
EXTENDS Integers, Sequences

CONSTANTS
    Urls, Insecure, NoUrl,  \* NoUrl: the empty string
    Scopes,                 \* supportedMCPScopes
    Clients,                \* values of aud and azp
    Admins,                 \* request goroutines of PUT /api/v1/settings
    Inputs,                 \* the bodies they send
    Absent,                 \* a field that is not in the JSON object
    NoRow, Idle

GeneralKeys == {"oidc", "ai", "notifications", "mcp"}
SigningKey == "notification_webhook_secret"

SecretKeys == {"oidc_client_secret", "ai_api_key", "notification_webhook", SigningKey}

\* resource: the name this server goes by, NoUrl for the one it derives.
OAuth == [enabled : BOOLEAN, audience : SUBSET Clients, scopes : SUBSET Scopes, resource : Clients \cup {NoUrl}]
Row == [enabled : BOOLEAN \cup {Absent}, url : Urls \cup {NoUrl, Absent},
        allow_insecure_http : BOOLEAN \cup {Absent}, auth_type : {"bearer", "none", Absent},
        oauth : OAuth \cup {Absent}]
NoFields == [enabled |-> Absent, url |-> Absent, allow_insecure_http |-> Absent,
             auth_type |-> Absent, oauth |-> Absent]

\* A change of an encrypted row: a value, "" for none and "short" for one that
\* validateSetting refuses, and whether to clear the row first.
Value == {"", "good", "short"}
Patches == [GeneralKeys -> Row \cup {NoRow}]
Input == [patches : Patches, changes : [SecretKeys -> [value : Value, clear : BOOLEAN]], rotate : BOOLEAN]

Statement == [op : {"delete", "put"}, key : SecretKeys, value : Value]

\* check: rows still to be checked against; todo: statements on encrypted rows;
\* cleared: it deleted the signing key and has not stored one since; patches:
\* rows still to be patched; key, merged: what PatchSetting stores next.
Update == [pc : {"check", "write", "store"}, check : Seq({"notifications", "ai", "mcp"}),
           todo : Seq(Statement), cleared : BOOLEAN, patches : Patches, key : GeneralKeys, merged : Row]

VARIABLES
    rows,           \* settings: general key -> row or NoRow
    secrets,        \* encrypted keys that have a row
    upd,            \* goroutine -> the update it makes
    stranded        \* an update stopped between deleting the signing key and storing
                    \* one, and none was stored since

settingVars == <<rows, secrets, upd, stranded>>

ASSUME SettingsAssumption ==
    /\ Insecure \subseteq Urls /\ NoUrl \notin Urls /\ Inputs \subseteq Input
    /\ \A input \in Inputs : \E k \in GeneralKeys : input.patches[k] # NoRow
    /\ \A input \in Inputs :                 \* a field of the notifications patch
          input.patches["notifications"] = NoRow => ~input.changes[SigningKey].clear
    /\ NoRow \notin Row /\ Idle \notin Update
    /\ Absent \notin BOOLEAN \cup Urls \cup {NoUrl} \cup OAuth

SettingsType ==
    /\ rows \in [GeneralKeys -> Row \cup {NoRow}]
    /\ secrets \subseteq SecretKeys
    /\ upd \in [Admins -> Update \cup {Idle}]
    /\ stranded \in BOOLEAN

SettingsInit ==
    /\ rows = [k \in GeneralKeys |-> NoRow]
    /\ secrets = {}
    /\ upd = [a \in Admins |-> Idle]
    /\ stranded = FALSE

\* A field of a row, or what its reader takes for a missing one.
Get(row, field, default) == IF row = NoRow \/ row[field] = Absent THEN default ELSE row[field]
OAuthOff == [enabled |-> FALSE, audience |-> {}, scopes |-> {}, resource |-> NoUrl]

-----------------------------------------------------------------------------
\* validateIntegrationURL: http has to be asked for.
Secure(row) == Get(row, "url", NoUrl) \in Insecure => Get(row, "allow_insecure_http", FALSE)

\* validateSetting, for the fields kept: a service that is on has its address.
ValidSetting(key, row) ==
    /\ key \in {"oidc", "ai"} /\ Get(row, "enabled", FALSE) => Get(row, "url", NoUrl) # NoUrl
    /\ Secure(row)

\* Mutant: clearing the signing key is taken for a change that provides one.
NeedsSigningKeyOnce(input) ==
    /\ input.patches["notifications"] # NoRow /\ input.changes[SigningKey].value = ""
    /\ input.rotate \/ (~input.changes[SigningKey].clear /\ SigningKey \notin secrets)

\* The random signing key: none was given, and there is none, or it is asked for.
NeedsSigningKey(input) ==
    /\ input.patches["notifications"] # NoRow /\ input.changes[SigningKey].value = ""
    /\ input.rotate \/ input.changes[SigningKey].clear \/ SigningKey \notin secrets

ChangeStatements(input, key) ==
    LET change == input.changes[key]
    IN  (IF change.clear THEN <<[op |-> "delete", key |-> key, value |-> ""]>> ELSE <<>>)
        \o (IF change.value # "" THEN <<[op |-> "put", key |-> key, value |-> change.value]>> ELSE <<>>)

SecretStatements(input, random) ==
    ChangeStatements(input, "oidc_client_secret") \o ChangeStatements(input, "ai_api_key")
    \o ChangeStatements(input, "notification_webhook") \o ChangeStatements(input, SigningKey)
    \o (IF random THEN <<[op |-> "put", key |-> SigningKey, value |-> "good"]>> ELSE <<>>)

\* The checks of a body against other rows, in their order.
CheckOrder(input) ==
    LET of(key) == IF input.patches[key] # NoRow THEN <<key>> ELSE <<>>
    IN  of("notifications") \o of("ai") \o of("mcp")

\* updateSettings up to the checks against other rows.  A body that does not
\* validate by itself is refused and changes nothing.
Submit(a, input) ==
    LET check == CheckOrder(input) IN
    /\ upd[a] = Idle
    /\ \A k \in GeneralKeys : input.patches[k] # NoRow => ValidSetting(k, input.patches[k])
    /\ upd' = [upd EXCEPT ![a] =
                 [pc |-> IF check = <<>> THEN "write" ELSE "check", check |-> check,
                  todo |-> SecretStatements(input, NeedsSigningKey(input)), cleared |-> FALSE,
                  patches |-> input.patches, key |-> "oidc", merged |-> NoFields]]
    /\ UNCHANGED <<rows, secrets, stranded>>

\* Statements still to come decide what will be configured.
WillHave(a, key) ==
    LET on == SelectSeq(upd[a].todo, LAMBDA s : s.key = key)
    IN  IF on = <<>> THEN key \in secrets ELSE on[Len(on)].op = "put"

\* requireOIDCForMCPOAuth: OIDC as sent along, otherwise as stored.
OIDCIsOn(a) ==
    LET of(field, default) == Get(upd[a].patches["oidc"], field, Get(rows["oidc"], field, default))
    IN  of("enabled", FALSE) /\ of("url", NoUrl) # NoUrl

\* A service switched on by this body needs its address or key; MCP SSO needs
\* OIDC.
CheckHolds(a, key) ==
    LET patch == upd[a].patches[key]
    IN  CASE key = "notifications" -> Get(patch, "enabled", FALSE) => WillHave(a, "notification_webhook")
          [] key = "ai" -> Get(patch, "enabled", FALSE) /\ Get(patch, "auth_type", "bearer") # "none"
                             => WillHave(a, "ai_api_key")
          [] key = "mcp" -> Get(patch, "oauth", OAuthOff).enabled => OIDCIsOn(a)

Check(a) ==
    LET rest == Tail(upd[a].check) IN
    /\ upd[a] # Idle /\ upd[a].pc = "check"
    /\ upd' = [upd EXCEPT ![a] =
                 IF CheckHolds(a, Head(@.check))
                 THEN [@ EXCEPT !.pc = IF rest = <<>> THEN "write" ELSE "check", !.check = rest]
                 ELSE Idle]
    /\ UNCHANGED <<rows, secrets, stranded>>

\* An update that has begun to write ends early; what it wrote stays.
Stop(a) ==
    /\ upd' = [upd EXCEPT ![a] = Idle]
    /\ stranded' = (stranded \/ upd[a].cleared)

\* The encrypted rows, one statement at a time; a value that is too short is
\* found out only here.
WriteSecret(a) ==
    /\ upd[a] # Idle /\ upd[a].pc = "write" /\ upd[a].todo # <<>>
    /\ LET s == Head(upd[a].todo)
           signing == s.key = SigningKey
       IN  IF s.op = "put" /\ s.value = "short"
           THEN Stop(a) /\ UNCHANGED secrets
           ELSE /\ secrets' = IF s.op = "put" THEN secrets \cup {s.key} ELSE secrets \ {s.key}
                /\ upd' = [upd EXCEPT ![a].todo = Tail(@),
                                      ![a].cleared = IF signing THEN s.op = "delete" ELSE @]
                /\ stranded' = (stranded /\ ~(signing /\ s.op = "put"))
    /\ UNCHANGED rows

\* The general rows, in the order of a Go map.  GetSetting, then PutSetting of
\* the merged value: what was stored in between is overwritten.
ReadForPatch(a) ==
    /\ upd[a] # Idle /\ upd[a].pc = "write" /\ upd[a].todo = <<>>
    /\ \E k \in GeneralKeys :
          /\ upd[a].patches[k] # NoRow
          /\ LET merged == [f \in DOMAIN NoFields |-> Get(upd[a].patches[k], f, Get(rows[k], f, Absent))]
                 left == [upd[a].patches EXCEPT ![k] = NoRow]
             IN  upd' = [upd EXCEPT ![a] = [@ EXCEPT !.pc = "store", !.key = k, !.merged = merged, !.patches = left]]
    /\ UNCHANGED <<rows, secrets, stranded>>

\* Goes on with the next row, if there is one.
NextPatch(a) ==
    upd' = [upd EXCEPT ![a] = IF \E k \in GeneralKeys : @.patches[k] # NoRow
                              THEN [@ EXCEPT !.pc = "write", !.key = "oidc", !.merged = NoFields] ELSE Idle]

\* Mutant: the merged value is stored without being validated again.
StoreUnchecked(a) ==
    /\ upd[a] # Idle /\ upd[a].pc = "store"
    /\ rows' = [rows EXCEPT ![upd[a].key] = upd[a].merged]
    /\ NextPatch(a)
    /\ UNCHANGED <<secrets, stranded>>

PutSetting(a) ==
    /\ upd[a] # Idle /\ upd[a].pc = "store"
    /\ IF ValidSetting(upd[a].key, upd[a].merged)
       THEN /\ rows' = [rows EXCEPT ![upd[a].key] = upd[a].merged]
            /\ NextPatch(a)
            /\ UNCHANGED stranded
       ELSE Stop(a) /\ UNCHANGED rows
    /\ UNCHANGED secrets

\* A statement fails, a read of the checks or a write.
StatementFails(a) ==
    /\ upd[a] # Idle
    /\ Stop(a)
    /\ UNCHANGED <<rows, secrets>>

SettingsNext ==
    \E a \in Admins :
        \/ \E input \in Inputs : Submit(a, input)
        \/ Check(a) \/ WriteSecret(a) \/ ReadForPatch(a) \/ PutSetting(a) \/ StatementFails(a)

-----------------------------------------------------------------------------
\* Whatever updates interleave and wherever they stop, every stored row would
\* pass validation as a whole, although updateSettings validates the patch and
\* the merge is made from a row read earlier (settings.go PutSetting).
RowsValid == \A k \in GeneralKeys : rows[k] # NoRow => ValidSetting(k, rows[k])

\* Deliveries are never left without a signing key: when no update is under way
\* and notifications were ever configured, the key is there, however clearing,
\* rotating and saving interleaved and wherever updates stopped half-way.  The
\* one exception is an update that stopped just between deleting the key and
\* storing the next one, until a later update stores one
\* (resource_handlers.go updateSettings, signingProvided).
SigningKeyKept ==
    (\A a \in Admins : upd[a] = Idle) /\ rows["notifications"] # NoRow /\ ~stranded
        => SigningKey \in secrets
=============================================================================
