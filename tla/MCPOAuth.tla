------------------------------ MODULE MCPOAuth ------------------------------
(***************************************************************************)
(* The MCP endpoint with single sign-on, over the settings of Settings.    *)
(* Each call reads the row "mcp" and then the row "oidc", asks the cache   *)
(* of providers for the issuer, verifies the token and looks the account   *)
(* up, and runs its tool with the session it got: all in separate steps,   *)
(* while administrators save settings.  Whether the account is active is   *)
(* left open here (Accounts).                                              *)
(*                                                                         *)
(* A bearer value that is not a JWT, or a JWT while sign-on is off, goes   *)
(* the way of a personal key (withAuth), which is modelled in Accounts.    *)
(***************************************************************************)
EXTENDS Settings

CONSTANTS
    Accounts,       \* accounts of auth_source oidc, Accounts[u] = [issuer, subject]
    Tokens,         \* the access tokens clients hold
    Calls,          \* request goroutines of POST /mcp
    Here,           \* the resource named after the OIDC callback or, without one, the request
    NoProvider, NoCall

ReadScope == "mcp:read"
TransitScope == "mcp:transit"
OtherScope == "mcp:other"   \* one this server does not know
Tools == {"secrets.list", "transit.decrypt"}

\* iss, sub, aud: claims; scope: what it carries with the prefix mcp:; bearer:
\* not an ID token, not bound to a key (cnf), not expired, with a subject.
Token == [iss : Urls, sub : STRING, aud : Clients \cup {Here}, scope : SUBSET (Scopes \cup {OtherScope}),
          bearer : BOOLEAN]

\* What a call has read: oauth is its copy of the row "mcp", issuer of "oidc";
\* user and granted are its session.
Call == [pc : {"mcp", "oidc", "lookup", "session", "ran"}, token : Tokens, oauth : OAuth,
         issuer : Urls \cup {NoUrl},
         user : DOMAIN Accounts \cup {NoCall}, granted : SUBSET Scopes, tool : Tools \cup {NoCall}]

ASSUME MCPAssumption ==
    /\ Scopes = {ReadScope, TransitScope}
    /\ \A t \in Tokens : t \in Token
    /\ \A u \in DOMAIN Accounts : Accounts[u].issuer \in Urls
    /\ Here \notin Clients /\ NoProvider \notin Urls /\ NoCall \notin Call

VARIABLES
    providers,      \* oauthProviders.byIssuer: issuer -> whose keys it holds
    call            \* goroutine -> its call

vars == <<settingVars, providers, call>>

\* Every variable has the type of its table, cache or request.
TypeOK ==
    /\ SettingsType
    /\ providers \in [Urls -> Urls \cup {NoProvider}]
    /\ call \in [Calls -> Call \cup {NoCall}]

Init ==
    /\ SettingsInit
    /\ providers = [i \in Urls |-> NoProvider]
    /\ call = [c \in Calls |-> NoCall]

At(c, pc) == call[c] # NoCall /\ call[c].pc = pc
Refuse(c) == call' = [call EXCEPT ![c] = NoCall]

-----------------------------------------------------------------------------
\* withMCPAuth: MCPOAuthConfig reads "mcp", ...
ReadMCPSetting(c, token) ==
    /\ call[c] = NoCall
    /\ call' = [call EXCEPT ![c] =
                  [pc |-> "mcp", token |-> token, oauth |-> Get(rows["mcp"], "oauth", OAuthOff),
                   issuer |-> NoUrl, user |-> NoCall, granted |-> {}, tool |-> NoCall]]
    /\ UNCHANGED <<settingVars, providers>>

\* ... then "oidc".  Sign-on that is not Active leaves the JWT to withAuth,
\* which knows no such key.
ReadOIDCSetting(c) ==
    /\ At(c, "mcp")
    /\ LET issuer == Get(rows["oidc"], "url", NoUrl)
           on == call[c].oauth.enabled /\ Get(rows["oidc"], "enabled", FALSE) /\ issuer # NoUrl
       IN  IF on THEN call' = [call EXCEPT ![c].pc = "oidc", ![c].issuer = issuer] ELSE Refuse(c)
    /\ UNCHANGED <<settingVars, providers>>

\* mcpResource: the configured name before the derived one.
Resource(oauth) == IF oauth.resource # NoUrl THEN oauth.resource ELSE Here

\* mcpAudienceAccepted.
AudienceAccepted(oauth, token) == token.aud \in {Resource(oauth)} \cup oauth.audience

\* oauthSession: signature and issuer by the keys of provider p, then the claims
\* by hand.  It reads nothing that others write.
Verify(c, p) ==
    LET t == call[c].token
    IN  IF t.iss = p /\ t.bearer /\ AudienceAccepted(call[c].oauth, t)
        THEN call' = [call EXCEPT ![c].pc = "lookup"] ELSE Refuse(c)

\* Mutant: one provider for all issuers, the first one that was discovered.
FirstProvider(c) ==
    /\ At(c, "oidc")
    /\ \E p \in Urls :
          /\ IF \E i \in Urls : providers[i] # NoProvider
             THEN \E i \in Urls : p = providers[i] /\ UNCHANGED providers
             ELSE p = call[c].issuer /\ providers' = [providers EXCEPT ![p] = p]
          /\ Verify(c, p)
    /\ UNCHANGED settingVars

\* mcpOAuthProvider under its mutex, discovery included; a failed discovery is
\* not remembered.  The token is verified with what it returns.
OAuthProvider(c) ==
    /\ At(c, "oidc")
    /\ LET i == call[c].issuer
           p == IF providers[i] = NoProvider THEN i ELSE providers[i]
       IN  \/ providers' = [providers EXCEPT ![i] = p] /\ Verify(c, p)
           \/ providers[i] = NoProvider /\ Refuse(c) /\ UNCHANGED providers
    /\ UNCHANGED settingVars

\* Mutant: a token without a scope of ours gets the ceiling, a token with one its own.
TokenScopes(ceiling, scope) == IF scope = {} THEN ceiling ELSE scope

\* mcpGrantedScopes: the ceiling, narrowed to the token's own scopes.
GrantedScopes(ceiling, scope) == IF scope = {} THEN ceiling ELSE ceiling \cap scope

\* ReadMCPOAuth: no scope in the row means mcp:read.
Ceiling(oauth) == IF oauth.scopes = {} THEN {ReadScope} ELSE oauth.scopes

LookedUp(c, u) ==
    call' = [call EXCEPT ![c].pc = "session", ![c].user = u,
                         ![c].granted = GrantedScopes(Ceiling(call[c].oauth), call[c].token.scope)]

\* UserByOIDCSubject: the account of the configured issuer and the token's
\* subject.  None is ever made here; there may be none, or it is not active.
UserByOIDCSubject(c) ==
    /\ At(c, "lookup")
    /\ \/ \E u \in DOMAIN Accounts :
             Accounts[u].issuer = call[c].issuer /\ Accounts[u].subject = call[c].token.sub /\ LookedUp(c, u)
       \/ Refuse(c)
    /\ UNCHANGED <<settingVars, providers>>

ToolScope(tool) == IF tool = "transit.decrypt" THEN TransitScope ELSE ReadScope

\* mcpToolCall: the scope is checked before any policy runs.
ToolCall(c, tool) ==
    /\ At(c, "session")
    /\ IF ToolScope(tool) \in call[c].granted
       THEN call' = [call EXCEPT ![c].pc = "ran", ![c].tool = tool] ELSE Refuse(c)
    /\ UNCHANGED <<settingVars, providers>>

Respond(c) == At(c, "ran") /\ Refuse(c) /\ UNCHANGED <<settingVars, providers>>

Next ==
    \/ SettingsNext /\ UNCHANGED <<providers, call>>
    \/ \E c \in Calls :
          \/ \E t \in Tokens : ReadMCPSetting(c, t)
          \/ ReadOIDCSetting(c) \/ OAuthProvider(c) \/ UserByOIDCSubject(c)
          \/ \E tool \in Tools : ToolCall(c, tool)
          \/ Respond(c)

Spec == Init /\ [][Next]_vars

-----------------------------------------------------------------------------
\* A call never runs as an account of another issuer or subject than those of
\* its token: the account is looked up by the configured issuer, so this rests
\* on the provider, cached while the setting may change from one issuer to
\* another and back (mcp_oauth.go mcpOAuthProvider, oauthSession).
AccountOfToken ==
    \A c \in Calls : call[c] # NoCall /\ call[c].user # NoCall =>
        /\ Accounts[call[c].user].issuer = call[c].token.iss
        /\ Accounts[call[c].user].subject = call[c].token.sub

\* A tool runs over single sign-on only within the ceiling that was saved when
\* the call began, and only within the token's own scopes if it has any: a
\* token can narrow what the administrator allows and never widen it.
CeilingHeld ==
    \A c \in Calls : At(c, "ran") =>
        /\ ToolScope(call[c].tool) \in Ceiling(call[c].oauth)
        /\ call[c].token.scope # {} => ToolScope(call[c].tool) \in call[c].token.scope
=============================================================================
