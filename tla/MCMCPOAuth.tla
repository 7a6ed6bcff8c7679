----------------------------- MODULE MCMCPOAuth -----------------------------
(* Two administrators who save settings and one MCP call at a time.  The two *)
(* issuers know the same subject, for two accounts; the second issuer needs  *)
(* allow_insecure_http.                                                      *)
EXTENDS MCPOAuth, TLC

CONSTANTS i1, i2, u1, u2, client

NoChange == [k \in SecretKeys |-> [value |-> "", clear |-> FALSE]]
Body(key, row) == [patches |-> [[k \in GeneralKeys |-> NoRow] EXCEPT ![key] = row], changes |-> NoChange, rotate |-> FALSE]
SSO(scopes, audience, resource) ==
    [NoFields EXCEPT !.oauth = [enabled |-> TRUE, audience |-> audience, scopes |-> scopes, resource |-> resource]]
On(url) == [NoFields EXCEPT !.enabled = TRUE, !.url = url]

MCInputs == {
    Body("oidc", [On(i2) EXCEPT !.allow_insecure_http = TRUE]),
    [Body("mcp", SSO({}, {client}, NoUrl)) EXCEPT !.patches["oidc"] = [NoFields EXCEPT !.allow_insecure_http = FALSE]],
    [Body("mcp", SSO(Scopes, {}, client)) EXCEPT !.patches["oidc"] = On(i1)],
    [Body("notifications", [NoFields EXCEPT !.enabled = TRUE])
        EXCEPT !.changes["notification_webhook"].value = "good", !.changes[SigningKey].clear = TRUE],
    [Body("notifications", NoFields)
        EXCEPT !.patches["ai"] = [On(i1) EXCEPT !.auth_type = "none"],
               !.changes[SigningKey] = [value |-> "short", clear |-> TRUE]]}

MCAccounts == (u1 :> [issuer |-> i1, subject |-> "s"]) @@ (u2 :> [issuer |-> i2, subject |-> "s"])
Minted(iss, aud, scope, bearer) == [iss |-> iss, sub |-> "s", aud |-> aud, scope |-> scope, bearer |-> bearer]
MCTokens == {Minted(i1, Here, {}, TRUE), Minted(i2, client, {TransitScope, OtherScope}, TRUE)}
MCScopes == {ReadScope, TransitScope}
Symmetry == Permutations(Admins)
=============================================================================
