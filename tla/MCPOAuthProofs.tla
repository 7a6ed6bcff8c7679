--------------------------- MODULE MCPOAuthProofs ---------------------------
(***************************************************************************)
(* The settings and the MCP calls that read them, for any number of        *)
(* administrators, bodies, issuers, accounts, tokens and calls: the stored *)
(* rows stay valid, the signing key is never lost by an update that ran to *)
(* its end, and a call runs as the account of its token within the         *)
(* ceiling.                                                                *)
(***************************************************************************)
EXTENDS MCPOAuth, SequenceTheorems, TLAPS

-----------------------------------------------------------------------------
\* The calls.

Pcs == {"mcp", "oidc", "lookup", "session", "ran"}
Issuers == Urls \cup {NoUrl}
Users == DOMAIN Accounts \cup {NoCall}
ToolsSeen == Tools \cup {NoCall}
ScopeSets == SUBSET Scopes

\* The type of a call, its fields' types by name: a proof that changes several
\* fields at once does not look into them.
LEMMA CallShape ==
    Call = [pc : Pcs, token : Tokens, oauth : OAuth, issuer : Issuers,
            user : Users, granted : ScopeSets, tool : ToolsSeen]
BY DEF Call, Pcs, Issuers, Users, ToolsSeen, ScopeSets

\* What a call knows of itself: its token is of the issuer that it read, its
\* account of both, and its scopes are those of its copy of the setting.
CallOK(k) ==
    /\ k.pc # "mcp" => k.issuer \in Urls
    /\ k.pc \in {"lookup", "session", "ran"} => k.token.iss = k.issuer
    /\ k.user # NoCall => /\ k.pc \in {"session", "ran"}
                          /\ Accounts[k.user].issuer = k.issuer
                          /\ Accounts[k.user].subject = k.token.sub
    /\ k.pc \in {"session", "ran"} => k.granted = GrantedScopes(Ceiling(k.oauth), k.token.scope)
    /\ k.pc = "ran" => ToolScope(k.tool) \in k.granted

\* A provider in the cache is that of the issuer it is found under.
ProvidersOK == \A i \in Urls : providers[i] \in {NoProvider, i}

CallsOK == \A c \in Calls : call[c] # NoCall => CallOK(call[c])

CallsInv ==
    /\ providers \in [Urls -> Urls \cup {NoProvider}]
    /\ call \in [Calls -> Call \cup {NoCall}]
    /\ ProvidersOK /\ CallsOK

LEMMA CallStep ==
    ASSUME CallsInv, NEW c \in Calls, NEW new \in Call \cup {NoCall},
           call' = [call EXCEPT ![c] = new], new # NoCall => CallOK(new), UNCHANGED providers
    PROVE  CallsInv'
BY DEF CallsInv, ProvidersOK, CallsOK

LEMMA RefuseStep ==
    ASSUME CallsInv, NEW c \in Calls, Refuse(c), UNCHANGED providers
    PROVE  CallsInv'
BY CallStep DEF Refuse

LEMMA ReadMCPSettingStep ==
    ASSUME SettingsType, CallsInv, NEW c \in Calls, NEW t \in Tokens, ReadMCPSetting(c, t)
    PROVE  CallsInv'
<1> DEFINE oauth == Get(rows["mcp"], "oauth", OAuthOff)
           none == {}
           new == [pc |-> "mcp", token |-> t, oauth |-> oauth,
                   issuer |-> NoUrl, user |-> NoCall, granted |-> none, tool |-> NoCall]
<1>1. oauth \in OAuth
  BY SettingsAssumption DEF SettingsType, GeneralKeys, Row, Get, OAuthOff, OAuth
<1>2. call' = [call EXCEPT ![c] = new]
  BY DEF ReadMCPSetting
<1>3. new \in Call
  <2> HIDE DEF oauth
  <2>1. "mcp" \in Pcs /\ NoUrl \in Issuers /\ NoCall \in Users /\ none \in ScopeSets /\ NoCall \in ToolsSeen
    BY DEF Pcs, Issuers, Users, ScopeSets, ToolsSeen
  <2>2. QED BY <1>1, <2>1, CallShape, Zenon
<1>4. new.pc = "mcp" /\ new.user = NoCall
  OBVIOUS
<1> HIDE DEF new
<1>5. CallOK(new)
  BY <1>4 DEF CallOK
<1>6. UNCHANGED providers
  BY DEF ReadMCPSetting
<1>7. QED BY <1>2, <1>3, <1>5, <1>6, CallStep

LEMMA ReadOIDCSettingStep ==
    ASSUME SettingsType, CallsInv, NEW c \in Calls, ReadOIDCSetting(c)
    PROVE  CallsInv'
<1> DEFINE k == call[c]
           issuer == Get(rows["oidc"], "url", NoUrl)
           new == [k EXCEPT !.pc = "oidc", !.issuer = issuer]
<1>1. UNCHANGED providers /\ k # NoCall /\ k.pc = "mcp" /\ k \in Call /\ CallOK(k)
  BY DEF ReadOIDCSetting, At, CallsInv, CallsOK
<1>2. issuer \in Issuers
  BY SettingsAssumption DEF SettingsType, GeneralKeys, Row, Get, Issuers
<1>3. Refuse(c) \/ (issuer # NoUrl /\ call' = [call EXCEPT ![c] = new])
  BY DEF ReadOIDCSetting, CallsInv
<1> HIDE DEF issuer
<1>4. new \in Call
  BY <1>1, <1>2, CallShape, Zenon DEF Pcs
<1>5. /\ new.pc = "oidc" /\ new.issuer = issuer /\ new.user = k.user
  BY <1>1, CallShape, Zenon
<1> HIDE DEF new
<1>6. issuer # NoUrl => CallOK(new)
  BY <1>1, <1>2, <1>5 DEF CallOK, Issuers
<1>7. QED BY <1>1, <1>3, <1>4, <1>6, CallStep, RefuseStep

LEMMA OAuthProviderStep ==
    ASSUME CallsInv, NEW c \in Calls, OAuthProvider(c)
    PROVE  CallsInv'
<1> DEFINE k == call[c]
           i == k.issuer
           p == IF providers[i] = NoProvider THEN i ELSE providers[i]
           new == [k EXCEPT !.pc = "lookup"]
<1>1. k # NoCall /\ k.pc = "oidc" /\ k \in Call /\ CallOK(k) /\ i \in Urls
  BY DEF OAuthProvider, At, CallsInv, CallsOK, CallOK
<1>2. p = i
  BY <1>1 DEF CallsInv, ProvidersOK
<1>3. CASE UNCHANGED providers /\ Refuse(c)
  BY <1>3, RefuseStep
<1>4. CASE providers' = [providers EXCEPT ![i] = p] /\ Verify(c, p)
  <2>1. providers' \in [Urls -> Urls \cup {NoProvider}] /\ ProvidersOK'
    BY <1>1, <1>2, <1>4 DEF CallsInv, ProvidersOK
  <2>2. Refuse(c) \/ (k.token.iss = p /\ call' = [call EXCEPT ![c] = new])
    BY <1>4 DEF Verify, CallsInv
  <2>3. new \in Call /\ new.pc = "lookup" /\ new.issuer = i /\ new.user = k.user /\ new.token = k.token
    BY <1>1, CallShape, Zenon DEF Pcs
  <2> HIDE DEF new
  <2>4. k.token.iss = p => CallOK(new)
    BY <1>1, <1>2, <2>3 DEF CallOK
  <2>5. call' \in [Calls -> Call \cup {NoCall}] /\ CallsOK'
    BY <2>2, <2>3, <2>4 DEF Refuse, CallsInv, CallsOK
  <2>6. QED BY <2>1, <2>5 DEF CallsInv
<1>5. QED BY <1>3, <1>4 DEF OAuthProvider

LEMMA UserByOIDCSubjectStep ==
    ASSUME CallsInv, NEW c \in Calls, UserByOIDCSubject(c)
    PROVE  CallsInv'
<1> DEFINE k == call[c]
           g == GrantedScopes(Ceiling(k.oauth), k.token.scope)
<1>1. UNCHANGED providers /\ k # NoCall /\ k.pc = "lookup" /\ k \in Call /\ CallOK(k)
  BY DEF UserByOIDCSubject, At, CallsInv, CallsOK
<1>2. g \in ScopeSets
  BY <1>1, MCPAssumption DEF ScopeSets, Call, OAuth, Token, GrantedScopes, Ceiling
<1>3. CASE Refuse(c)
  BY <1>1, <1>3, RefuseStep
<1>4. ASSUME NEW u \in DOMAIN Accounts, LookedUp(c, u),
             Accounts[u].issuer = k.issuer, Accounts[u].subject = k.token.sub
      PROVE  CallsInv'
  <2> DEFINE new == [k EXCEPT !.pc = "session", !.user = u, !.granted = g]
  <2>1. call' = [call EXCEPT ![c] = new]
    BY <1>4 DEF LookedUp, CallsInv
  <2> HIDE DEF g
  <2>2. new \in Call
    BY <1>1, <1>2, CallShape, Zenon DEF Pcs, Users
  <2>3. /\ new.pc = "session" /\ new.user = u /\ new.granted = g
        /\ new.issuer = k.issuer /\ new.token = k.token /\ new.oauth = k.oauth
    BY <1>1, CallShape, Zenon
  <2> HIDE DEF new
  <2>4. CallOK(new)
    BY <1>1, <1>4, <2>3 DEF CallOK, g
  <2>5. QED BY <1>1, <2>1, <2>2, <2>4, CallStep
<1>5. QED BY <1>3, <1>4 DEF UserByOIDCSubject

LEMMA ToolCallStep ==
    ASSUME CallsInv, NEW c \in Calls, NEW tool \in Tools, ToolCall(c, tool)
    PROVE  CallsInv'
<1> DEFINE k == call[c]
           new == [k EXCEPT !.pc = "ran", !.tool = tool]
<1>1. UNCHANGED providers /\ k # NoCall /\ k.pc = "session" /\ k \in Call /\ CallOK(k)
  BY DEF ToolCall, At, CallsInv, CallsOK
<1>2. Refuse(c) \/ (ToolScope(tool) \in k.granted /\ call' = [call EXCEPT ![c] = new])
  BY DEF ToolCall, CallsInv
<1>3. new \in Call
  BY <1>1, CallShape, Zenon DEF Pcs, ToolsSeen
<1>4. /\ new.pc = "ran" /\ new.tool = tool /\ new.user = k.user /\ new.granted = k.granted
      /\ new.issuer = k.issuer /\ new.token = k.token /\ new.oauth = k.oauth
  BY <1>1, CallShape, Zenon
<1> HIDE DEF new
<1>5. ToolScope(tool) \in k.granted => CallOK(new)
  BY <1>1, <1>4 DEF CallOK
<1>6. QED BY <1>1, <1>2, <1>3, <1>5, CallStep, RefuseStep

-----------------------------------------------------------------------------
\* The statements on encrypted rows.

PutsKey(s) == s.key = SigningKey /\ s.op = "put"
DropsKey(s) == s.key = SigningKey /\ s.op = "delete"

\* A list of statements stores a signing key.
KeyComes(todo) == \E n \in 1..Len(todo) : PutsKey(todo[n])

\* Whoever deletes the signing key stores one later on.
KeyRestored(todo) ==
    \A n \in 1..Len(todo) : DropsKey(todo[n]) => \E m \in 1..Len(todo) : n < m /\ PutsKey(todo[m])

\* After its first statement a list still restores the key, unless that was a
\* deletion; then the key still comes.
LEMMA AfterStatement ==
    ASSUME NEW todo \in Seq(Statement), todo # <<>>, KeyRestored(todo)
    PROVE  /\ Head(todo) \in Statement /\ Tail(todo) \in Seq(Statement) /\ KeyRestored(Tail(todo))
           /\ KeyComes(todo) => PutsKey(Head(todo)) \/ KeyComes(Tail(todo))
           /\ DropsKey(Head(todo)) => KeyComes(Tail(todo))
<1> DEFINE rest == Tail(todo)
<1>1. /\ Len(todo) \in Nat \ {0} /\ Head(todo) = todo[1] /\ Head(todo) \in Statement
      /\ rest \in Seq(Statement) /\ Len(rest) = Len(todo) - 1
      /\ \A n \in 1..Len(rest) : rest[n] = todo[n + 1]
  BY EmptySeq
<1> HIDE DEF rest
<1>2. ASSUME NEW n \in 1..Len(todo), PutsKey(todo[n]), n # 1 PROVE KeyComes(rest) /\ PutsKey(rest[n - 1]) /\ n - 1 \in 1..Len(rest)
  <2>1. n - 1 \in 1..Len(rest) /\ rest[n - 1] = todo[n]
    BY <1>1, <1>2
  <2>2. QED BY <1>2, <2>1 DEF KeyComes
<1>3. KeyRestored(rest)
  <2> SUFFICES ASSUME NEW n \in 1..Len(rest), DropsKey(rest[n])
               PROVE  \E m \in 1..Len(rest) : n < m /\ PutsKey(rest[m])
    BY DEF KeyRestored
  <2>1. n + 1 \in 1..Len(todo) /\ DropsKey(todo[n + 1])
    BY <1>1
  <2>2. PICK m \in 1..Len(todo) : n + 1 < m /\ PutsKey(todo[m])
    BY <2>1 DEF KeyRestored
  <2>3. m - 1 \in 1..Len(rest) /\ PutsKey(rest[m - 1]) /\ n < m - 1
    BY <1>1, <1>2, <2>2
  <2>4. QED BY <2>3
<1>4. KeyComes(todo) => PutsKey(Head(todo)) \/ KeyComes(rest)
  BY <1>1, <1>2 DEF KeyComes
<1>5. DropsKey(Head(todo)) => KeyComes(rest)
  <2>1. ASSUME DropsKey(todo[1]) PROVE KeyComes(rest)
    <3>1. 1 \in 1..Len(todo)
      BY <1>1
    <3>2. PICK m \in 1..Len(todo) : 1 < m /\ PutsKey(todo[m])
      BY <2>1, <3>1 DEF KeyRestored
    <3>3. QED BY <1>2, <3>2
  <2>2. QED BY <1>1, <2>1
<1>6. QED BY <1>1, <1>3, <1>4, <1>5 DEF rest

\* The two conditions of a list made of two.
LEMMA Joined ==
    ASSUME NEW s \in Seq(Statement), NEW t \in Seq(Statement)
    PROVE  /\ s \o t \in Seq(Statement)
           /\ KeyRestored(s) /\ KeyRestored(t) => KeyRestored(s \o t)
           /\ KeyComes(s) \/ KeyComes(t) => KeyComes(s \o t)
           /\ t # <<>> /\ PutsKey(t[Len(t)]) => KeyRestored(s \o t)
<1> DEFINE u == s \o t
<1>1. /\ u \in Seq(Statement) /\ Len(s) \in Nat /\ Len(t) \in Nat /\ Len(u) = Len(s) + Len(t)
      /\ \A n \in 1..Len(s) : u[n] = s[n]
      /\ \A n \in 1..Len(t) : u[Len(s) + n] = t[n]
  OBVIOUS
<1> HIDE DEF u
<1>2. \A n \in 1..Len(u) : n \in 1..Len(s) \/ (n - Len(s) \in 1..Len(t) /\ n = Len(s) + (n - Len(s)))
  BY <1>1
<1>3. \A n \in 1..Len(s) : n \in 1..Len(u)
  BY <1>1
<1>4. \A n \in 1..Len(t) : Len(s) + n \in 1..Len(u)
  BY <1>1
<1>5. KeyComes(s) \/ KeyComes(t) => KeyComes(u)
  BY <1>1, <1>3, <1>4 DEF KeyComes
<1>6. ASSUME KeyRestored(s), KeyRestored(t) PROVE KeyRestored(u)
  <2> SUFFICES ASSUME NEW n \in 1..Len(u), DropsKey(u[n])
               PROVE  \E m \in 1..Len(u) : n < m /\ PutsKey(u[m])
    BY DEF KeyRestored
  <2>1. CASE n \in 1..Len(s)
    <3>1. PICK m \in 1..Len(s) : n < m /\ PutsKey(s[m])
      BY <1>1, <1>6, <2>1 DEF KeyRestored
    <3>2. QED BY <1>1, <1>3, <3>1
  <2>2. CASE n - Len(s) \in 1..Len(t)
    <3>1. DropsKey(t[n - Len(s)])
      <4>1. n = Len(s) + (n - Len(s))
        BY <1>1
      <4>2. u[Len(s) + (n - Len(s))] = t[n - Len(s)]
        BY <1>1, <2>2
      <4>3. QED BY <4>1, <4>2
    <3>2. PICK m \in 1..Len(t) : n - Len(s) < m /\ PutsKey(t[m])
      BY <1>6, <2>2, <3>1 DEF KeyRestored
    <3>3. Len(s) + m \in 1..Len(u) /\ n < Len(s) + m /\ PutsKey(u[Len(s) + m])
      BY <1>1, <1>4, <3>2
    <3>4. QED BY <3>3
  <2>3. QED BY <1>2, <2>1, <2>2
<1>7. ASSUME t # <<>>, PutsKey(t[Len(t)]) PROVE KeyRestored(u)
  <2>1. Len(t) > 0 /\ Len(t) \in 1..Len(t)
    BY <1>1, <1>7, EmptySeq
  <2>2. Len(u) \in 1..Len(u) /\ PutsKey(u[Len(u)])
    BY <1>1, <1>7, <2>1
  <2>3. \A n \in 1..Len(u) : DropsKey(u[n]) => n < Len(u)
    <3>1. ~DropsKey(u[Len(u)])
      BY <2>2 DEF PutsKey, DropsKey
    <3>2. Len(u) \in Nat /\ \A n \in 1..Len(u) : n = Len(u) \/ n < Len(u)
      BY <1>1
    <3>3. QED BY <3>1, <3>2, Zenon
  <2>4. QED BY <2>2, <2>3 DEF KeyRestored
<1>8. QED BY <1>1, <1>5, <1>6, <1>7 DEF u

\* At most one statement.
LEMMA Single ==
    ASSUME NEW x \in Statement, NEW b \in BOOLEAN, NEW s, s = IF b THEN <<x>> ELSE <<>>
    PROVE  s \in Seq(Statement) /\ (b => s # <<>> /\ Len(s) = 1 /\ s[1] = x) /\ (~b => s = <<>>)
           /\ \A n \in 1..Len(s) : s[n] = x /\ b
<1>1. CASE b BY <1>1
<1>2. CASE ~b BY <1>2
<1>3. QED BY <1>1, <1>2

\* The statements of one encrypted row.
LEMMA StatementsOfChange ==
    ASSUME NEW input \in Inputs, NEW key \in SecretKeys
    PROVE  LET stmts == ChangeStatements(input, key) change == input.changes[key] IN
           /\ stmts \in Seq(Statement)
           /\ key # SigningKey \/ change.value # "" \/ ~change.clear => KeyRestored(stmts)
           /\ key = SigningKey /\ change.value # "" => KeyComes(stmts)
<1> DEFINE change == input.changes[key]
           del == [op |-> "delete", key |-> key, value |-> ""]
           put == [op |-> "put", key |-> key, value |-> change.value]
           d == IF change.clear THEN <<del>> ELSE <<>>
           given == change.value # ""
           p == IF given THEN <<put>> ELSE <<>>
<1>1. change \in [value : Value, clear : BOOLEAN]
  BY SettingsAssumption DEF Input
<1>2. ChangeStatements(input, key) = d \o p
  BY DEF ChangeStatements
<1>3. del \in Statement /\ del.key = key /\ del.op = "delete"
  BY DEF Statement, Value
<1>4. put \in Statement /\ put.key = key /\ put.op = "put"
  BY <1>1 DEF Statement, Value
<1> HIDE DEF del, put
<1> HIDE DEF change
<1>5. d \in Seq(Statement) /\ \A n \in 1..Len(d) : d[n] = del /\ change.clear
  BY <1>1, <1>3, Single
<1>6. /\ p \in Seq(Statement) /\ \A n \in 1..Len(p) : p[n] = put
      /\ change.value # "" => p # <<>> /\ Len(p) = 1 /\ p[1] = put
  <2>1. given \in BOOLEAN
    OBVIOUS
  <2> HIDE DEF given
  <2>2. /\ p \in Seq(Statement) /\ \A n \in 1..Len(p) : p[n] = put
        /\ given => p # <<>> /\ Len(p) = 1 /\ p[1] = put
    BY <1>4, <2>1, Single
  <2>3. QED BY <2>2 DEF given
<1> HIDE DEF d, p
<1>8. KeyRestored(p)
  BY <1>4, <1>6 DEF KeyRestored, DropsKey
<1>9. key # SigningKey \/ ~change.clear => KeyRestored(d)
  BY <1>3, <1>5 DEF KeyRestored, DropsKey
<1>10. key # SigningKey \/ ~change.clear => KeyRestored(d \o p)
  BY <1>5, <1>6, <1>8, <1>9, Joined
<1>11. ASSUME key = SigningKey, change.value # "" PROVE KeyRestored(d \o p) /\ KeyComes(d \o p)
  <2>1. p # <<>> /\ Len(p) = 1 /\ PutsKey(p[1])
    BY <1>4, <1>6, <1>11 DEF PutsKey
  <2>2. KeyComes(p)
    BY <2>1 DEF KeyComes
  <2>3. QED BY <1>5, <1>6, <2>1, <2>2, Joined
<1>12. QED BY <1>2, <1>5, <1>6, <1>10, <1>11, Joined DEF change

\* The statements of a body: whoever deletes the signing key stores one, and a
\* body with notifications stores one where there is none.
LEMMA StatementsOfBody ==
    ASSUME NEW input \in Inputs
    PROVE  LET todo == SecretStatements(input, NeedsSigningKey(input)) IN
           /\ todo \in Seq(Statement) /\ KeyRestored(todo)
           /\ input.patches["notifications"] # NoRow => SigningKey \in secrets \/ KeyComes(todo)
<1> DEFINE first == ChangeStatements(input, "oidc_client_secret") \o ChangeStatements(input, "ai_api_key")
                      \o ChangeStatements(input, "notification_webhook")
           own == ChangeStatements(input, SigningKey)
           put == [op |-> "put", key |-> SigningKey, value |-> "good"]
           need == NeedsSigningKey(input)
           drawn == IF need THEN <<put>> ELSE <<>>
           change == input.changes[SigningKey]
<1>1. SecretStatements(input, need) = (first \o own) \o drawn
  BY DEF SecretStatements
<1>2. /\ "oidc_client_secret" \in SecretKeys \ {SigningKey} /\ "ai_api_key" \in SecretKeys \ {SigningKey}
      /\ "notification_webhook" \in SecretKeys \ {SigningKey} /\ SigningKey \in SecretKeys
  BY DEF SecretKeys, SigningKey
<1>3. first \in Seq(Statement) /\ KeyRestored(first)
  <2> DEFINE a == ChangeStatements(input, "oidc_client_secret")
             b == ChangeStatements(input, "ai_api_key")
             c == ChangeStatements(input, "notification_webhook")
  <2>1. /\ a \in Seq(Statement) /\ KeyRestored(a) /\ b \in Seq(Statement) /\ KeyRestored(b)
        /\ c \in Seq(Statement) /\ KeyRestored(c)
    BY <1>2, StatementsOfChange
  <2> HIDE DEF a, b, c
  <2>2. a \o b \in Seq(Statement) /\ KeyRestored(a \o b)
    BY <2>1, Joined
  <2>3. (a \o b) \o c \in Seq(Statement) /\ KeyRestored((a \o b) \o c)
    BY <2>1, <2>2, Joined
  <2>4. QED BY <2>3 DEF a, b, c
<1>4. /\ own \in Seq(Statement)
      /\ change.value # "" \/ ~change.clear => KeyRestored(own)
      /\ change.value # "" => KeyComes(own)
  BY <1>2, StatementsOfChange
<1>5. /\ drawn \in Seq(Statement)
      /\ ~need => drawn = <<>>
      /\ need => drawn # <<>> /\ Len(drawn) = 1 /\ drawn[1] = put
  <2>1. put \in Statement /\ need \in BOOLEAN
    BY <1>2 DEF Statement, Value, NeedsSigningKey
  <2> HIDE DEF put, need
  <2>2. QED BY <2>1, Single
<1>6. PutsKey(put)
  BY DEF PutsKey
<1>7. /\ ~need => \/ input.patches["notifications"] = NoRow /\ ~change.clear
                  \/ change.value # ""
                  \/ ~change.clear /\ SigningKey \in secrets
  BY SettingsAssumption DEF NeedsSigningKey
<1> HIDE DEF first, own, drawn, put, need, change
<1>8. first \o own \in Seq(Statement)
  BY <1>3, <1>4, Joined
<1>9. CASE need
  <2>1. KeyComes(drawn) /\ drawn # <<>> /\ PutsKey(drawn[Len(drawn)])
    BY <1>5, <1>6, <1>9 DEF KeyComes
  <2>2. QED BY <1>1, <1>5, <1>8, <2>1, Joined DEF need
<1>10. CASE ~need
  <2>1. KeyRestored(own)
    BY <1>4, <1>7, <1>10
  <2>2. KeyRestored(drawn)
    BY <1>5, <1>10 DEF KeyRestored
  <2>3. KeyRestored(first \o own) /\ (KeyComes(own) => KeyComes(first \o own))
    BY <1>3, <1>4, <2>1, Joined
  <2>4. LET todo == (first \o own) \o drawn IN
        todo \in Seq(Statement) /\ KeyRestored(todo) /\ (KeyComes(own) => KeyComes(todo))
    BY <1>5, <1>8, <2>2, <2>3, Joined
  <2>5. QED BY <1>1, <1>4, <1>7, <1>10, <2>4 DEF need
<1>11. QED BY <1>9, <1>10

-----------------------------------------------------------------------------
\* The settings.

\* An update that deletes the signing key stores one later on, and it is done
\* with its checks before it writes and with the encrypted rows before it
\* patches the others.
UpdateOK(u) ==
    /\ KeyRestored(u.todo)
    /\ u.cleared => u.pc = "write" /\ KeyComes(u.todo)
    /\ u.pc = "check" => u.check # <<>>
    /\ u.pc = "store" => u.todo = <<>>

\* An update that has still to store the row of notifications.
Notifies(u) == u.patches["notifications"] # NoRow \/ (u.pc = "store" /\ u.key = "notifications")

\* The signing key is there, or an update has deleted it and will store another,
\* or nothing is to be signed yet and whoever changes that stores a key.
KeySafe ==
    \/ SigningKey \in secrets
    \/ \E a \in Admins : upd[a] # Idle /\ upd[a].cleared
    \/ /\ rows["notifications"] = NoRow
       /\ \A a \in Admins : upd[a] # Idle /\ Notifies(upd[a]) => KeyComes(upd[a].todo)

SettingsInv ==
    /\ SettingsType /\ RowsValid
    /\ \A a \in Admins : upd[a] # Idle => UpdateOK(upd[a])
    /\ ~stranded => KeySafe

UpdPcs == {"check", "write", "store"}
Checks == Seq({"notifications", "ai", "mcp"})
Todos == Seq(Statement)

\* The type of an update, its fields' types by name.
LEMMA UpdateShape ==
    Update = [pc : UpdPcs, check : Checks, todo : Todos, cleared : BOOLEAN, patches : Patches, key : GeneralKeys, merged : Row]
BY DEF Update, UpdPcs, Checks, Todos

\* A step of one update that leaves the encrypted rows and its own statements:
\* it stops, and says so if it had deleted the signing key, or goes on with the
\* same rows to store and never back behind its checks.
LEMMA QuietUpdate ==
    ASSUME SettingsInv, NEW a \in Admins, upd[a] # Idle, NEW new \in Update \cup {Idle},
           upd' = [upd EXCEPT ![a] = new], UNCHANGED <<rows, secrets>>, stranded' \in BOOLEAN,
           stranded => stranded',
           new = Idle => stranded' \/ ~upd[a].cleared,
           new # Idle => /\ new.todo = upd[a].todo /\ new.cleared = upd[a].cleared /\ (Notifies(new) => Notifies(upd[a]))
                         /\ upd[a].pc = "write" /\ KeyComes(new.todo) => new.pc = "write"
                         /\ new.pc = "store" => new.todo = <<>>
                         /\ new.pc = "check" => new.check # <<>>
    PROVE  SettingsInv'
<1>1. SettingsType' /\ RowsValid'
  BY DEF SettingsInv, SettingsType, RowsValid
<1>2. \A b \in Admins : upd'[b] = IF b = a THEN new ELSE upd[b]
  BY DEF SettingsInv, SettingsType
<1>3. \A b \in Admins : upd'[b] # Idle => UpdateOK(upd'[b])
  BY <1>2 DEF SettingsInv, UpdateOK
<1>4. ASSUME ~stranded' PROVE KeySafe'
  <2>1. KeySafe
    BY <1>4 DEF SettingsInv
  <2>2. CASE SigningKey \in secrets
    BY <2>2 DEF KeySafe
  <2>3. ASSUME NEW b \in Admins, upd[b] # Idle, upd[b].cleared PROVE KeySafe'
    <3>1. upd'[b] # Idle /\ upd'[b].cleared
      BY <1>2, <1>4, <2>3
    <3>2. QED BY <3>1 DEF KeySafe
  <2>4. CASE rows["notifications"] = NoRow /\ \A b \in Admins : upd[b] # Idle /\ Notifies(upd[b]) => KeyComes(upd[b].todo)
    <3>1. \A b \in Admins : upd'[b] # Idle /\ Notifies(upd'[b]) => KeyComes(upd'[b].todo)
      BY <1>2, <2>4
    <3>2. QED BY <2>4, <3>1 DEF KeySafe
  <2>5. QED BY <2>1, <2>2, <2>3, <2>4 DEF KeySafe
<1>5. QED BY <1>1, <1>3, <1>4 DEF SettingsInv

LEMMA SubmitStep ==
    ASSUME SettingsInv, NEW a \in Admins, NEW input \in Inputs, Submit(a, input)
    PROVE  SettingsInv'
<1> DEFINE check == CheckOrder(input)
           pc == IF check = <<>> THEN "write" ELSE "check"
           todo == SecretStatements(input, NeedsSigningKey(input))
           new == [pc |-> pc, check |-> check, todo |-> todo, cleared |-> FALSE,
                   patches |-> input.patches, key |-> "oidc", merged |-> NoFields]
<1>1. upd[a] = Idle /\ upd' = [upd EXCEPT ![a] = new] /\ UNCHANGED <<rows, secrets, stranded>>
  BY DEF Submit
<1>2. todo \in Todos /\ KeyRestored(todo) /\ (input.patches["notifications"] # NoRow => SigningKey \in secrets \/ KeyComes(todo))
  BY StatementsOfBody DEF Todos
<1>3. check \in Checks
  <2> DEFINE of(key) == IF input.patches[key] # NoRow THEN <<key>> ELSE <<>>
  <2>1. \A key \in {"notifications", "ai", "mcp"} : of(key) \in Checks
    <3> SUFFICES ASSUME NEW key \in {"notifications", "ai", "mcp"} PROVE of(key) \in Checks
      OBVIOUS
    <3>1. <<key>> \in Checks /\ <<>> \in Checks
      BY DEF Checks
    <3>2. QED BY <3>1
  <2>2. check = of("notifications") \o of("ai") \o of("mcp")
    BY DEF CheckOrder
  <2> HIDE DEF of
  <2>3. QED BY <2>1, <2>2 DEF Checks
<1>4. pc \in UpdPcs /\ input.patches \in Patches /\ "oidc" \in GeneralKeys /\ NoFields \in Row
  BY SettingsAssumption DEF UpdPcs, Input, GeneralKeys, NoFields, Row
<1> HIDE DEF check, todo, pc
<1>5. new \in Update
  BY <1>2, <1>3, <1>4, UpdateShape, Zenon
<1>6. new.pc = pc /\ new.todo = todo /\ new.patches = input.patches /\ new.key = "oidc" /\ new.check = check /\ ~new.cleared
  OBVIOUS
<1>7. pc # "store" /\ (pc = "check" => check # <<>>)
  BY DEF pc
<1> HIDE DEF new
<1>8. new # Idle
  BY <1>5, SettingsAssumption
<1>9. \A b \in Admins : upd'[b] = IF b = a THEN new ELSE upd[b]
  BY <1>1 DEF SettingsInv, SettingsType
<1>10. SettingsType' /\ RowsValid' /\ \A b \in Admins : upd'[b] # Idle => UpdateOK(upd'[b])
  BY <1>1, <1>2, <1>5, <1>6, <1>7, <1>9 DEF SettingsInv, SettingsType, RowsValid, UpdateOK
<1>11. KeySafe => KeySafe'
  <2>1. CASE SigningKey \in secrets
    BY <1>1, <2>1 DEF KeySafe
  <2>2. ASSUME NEW b \in Admins, upd[b] # Idle, upd[b].cleared PROVE KeySafe'
    BY <1>1, <1>9, <2>2 DEF KeySafe
  <2>3. CASE /\ SigningKey \notin secrets /\ rows["notifications"] = NoRow
             /\ \A b \in Admins : upd[b] # Idle /\ Notifies(upd[b]) => KeyComes(upd[b].todo)
    <3>1. Notifies(new) => KeyComes(new.todo)
      BY <1>2, <1>6, <1>7, <2>3 DEF Notifies
    <3>2. QED BY <1>1, <1>9, <2>3, <3>1 DEF KeySafe
  <2>4. QED BY <2>1, <2>2, <2>3 DEF KeySafe
<1>12. QED BY <1>1, <1>10, <1>11 DEF SettingsInv

LEMMA CheckStep ==
    ASSUME SettingsInv, NEW a \in Admins, Check(a)
    PROVE  SettingsInv'
<1> DEFINE u == upd[a]
           rest == Tail(u.check)
           pc == IF rest = <<>> THEN "write" ELSE "check"
           new == [u EXCEPT !.pc = pc, !.check = rest]
<1>1. u # Idle /\ u.pc = "check" /\ u \in Update /\ UpdateOK(u) /\ UNCHANGED <<rows, secrets, stranded>>
  BY DEF Check, SettingsInv, SettingsType
<1>2. rest \in Checks /\ pc \in UpdPcs /\ pc # "store" /\ (pc = "check" => rest # <<>>)
  BY <1>1 DEF Update, UpdateOK, Checks, UpdPcs
<1>3. upd' = [upd EXCEPT ![a] = Idle] \/ upd' = [upd EXCEPT ![a] = new]
  BY DEF Check
<1> HIDE DEF rest, pc
<1>4. new \in Update
  BY <1>1, <1>2, UpdateShape, Zenon
<1>5. new.pc = pc /\ new.check = rest /\ new.todo = u.todo /\ new.cleared = u.cleared /\ new.patches = u.patches
  BY <1>1, UpdateShape, Zenon
<1>6. new # Idle
  BY <1>4, SettingsAssumption
<1> HIDE DEF new
<1>7. Notifies(new) => Notifies(u)
  BY <1>2, <1>5 DEF Notifies
<1>8. stranded \in BOOLEAN /\ ~u.cleared
  BY <1>1 DEF SettingsInv, SettingsType, UpdateOK
<1>9. CASE upd' = [upd EXCEPT ![a] = Idle]
  BY <1>1, <1>8, <1>9, QuietUpdate
<1>10. CASE upd' = [upd EXCEPT ![a] = new]
  BY <1>1, <1>2, <1>4, <1>5, <1>6, <1>7, <1>8, <1>10, QuietUpdate
<1>11. QED BY <1>3, <1>9, <1>10

LEMMA StopStep ==
    ASSUME SettingsInv, NEW a \in Admins, upd[a] # Idle, Stop(a), UNCHANGED <<rows, secrets>>
    PROVE  SettingsInv'
<1>1. /\ upd[a] # Idle /\ upd' = [upd EXCEPT ![a] = Idle] /\ UNCHANGED <<rows, secrets>>
      /\ stranded' \in BOOLEAN /\ (stranded => stranded') /\ (stranded' \/ ~upd[a].cleared)
  BY Zenon DEF Stop, SettingsInv, SettingsType
<1>2. QED BY <1>1, QuietUpdate

\* The row that PatchSetting stores: every field is of its type.
LEMMA MergedRow ==
    ASSUME NEW p \in Row \cup {NoRow}, NEW r \in Row \cup {NoRow}, p # NoRow
    PROVE  [f \in DOMAIN NoFields |-> Get(p, f, Get(r, f, Absent))] \in Row
BY SettingsAssumption DEF Row, Get, NoFields

LEMMA ReadForPatchStep ==
    ASSUME SettingsInv, NEW a \in Admins, ReadForPatch(a)
    PROVE  SettingsInv'
<1> DEFINE u == upd[a]
<1>1. u # Idle /\ u.pc = "write" /\ u.todo = <<>> /\ u \in Update /\ UNCHANGED <<rows, secrets, stranded>>
  BY DEF ReadForPatch, SettingsInv, SettingsType
<1>2. PICK k \in GeneralKeys :
          /\ u.patches[k] # NoRow
          /\ LET merged == [f \in DOMAIN NoFields |-> Get(upd[a].patches[k], f, Get(rows[k], f, Absent))]
                 left == [upd[a].patches EXCEPT ![k] = NoRow]
             IN  upd' = [upd EXCEPT ![a] = [@ EXCEPT !.pc = "store", !.key = k, !.merged = merged, !.patches = left]]
  BY DEF ReadForPatch
<1> DEFINE merged == [f \in DOMAIN NoFields |-> Get(u.patches[k], f, Get(rows[k], f, Absent))]
           patches == [u.patches EXCEPT ![k] = NoRow]
           new == [u EXCEPT !.pc = "store", !.key = k, !.merged = merged, !.patches = patches]
<1>3. merged \in Row
  <2>1. u.patches[k] \in Row \cup {NoRow} /\ rows[k] \in Row \cup {NoRow}
    BY <1>1 DEF SettingsInv, SettingsType, Update, Patches
  <2>2. QED BY <1>2, <2>1, MergedRow
<1>4. patches \in Patches /\ \A j \in GeneralKeys : patches[j] = IF j = k THEN NoRow ELSE u.patches[j]
  BY <1>1 DEF Update, Patches
<1>5. upd' = [upd EXCEPT ![a] = new]
  BY <1>2, Zenon
<1> HIDE DEF merged, patches
<1>6. new \in Update
  BY <1>1, <1>3, <1>4, UpdateShape, Zenon DEF UpdPcs
<1>7. new.pc = "store" /\ new.key = k /\ new.patches = patches /\ new.todo = u.todo /\ new.cleared = u.cleared
  BY <1>1, UpdateShape, Zenon
<1>8. new # Idle
  BY <1>6, SettingsAssumption
<1> HIDE DEF new
<1>9. Notifies(new) => Notifies(u)
  BY <1>2, <1>4, <1>7 DEF Notifies, GeneralKeys
<1>10. ~KeyComes(new.todo) /\ stranded \in BOOLEAN
  BY <1>1, <1>7 DEF KeyComes, SettingsInv, SettingsType
<1>11. QED BY <1>1, <1>5, <1>6, <1>7, <1>8, <1>9, <1>10, QuietUpdate

\* A statement on an encrypted row.
LEMMA WriteSecretStep ==
    ASSUME SettingsInv, NEW a \in Admins, WriteSecret(a)
    PROVE  SettingsInv'
<1> DEFINE u == upd[a]
           s == Head(u.todo)
           rest == Tail(u.todo)
           signing == s.key = SigningKey
           cleared == IF signing THEN s.op = "delete" ELSE u.cleared
           new == [u EXCEPT !.todo = rest, !.cleared = cleared]
<1>1. u # Idle /\ u.pc = "write" /\ u.todo # <<>> /\ u \in Update /\ UpdateOK(u) /\ UNCHANGED rows
  BY DEF WriteSecret, SettingsInv, SettingsType
<1>2. /\ s \in Statement /\ rest \in Todos /\ KeyRestored(rest)
      /\ KeyComes(u.todo) => PutsKey(s) \/ KeyComes(rest)
      /\ DropsKey(s) => KeyComes(rest)
  BY <1>1, AfterStatement DEF Update, UpdateOK, Todos
<1>3. CASE Stop(a) /\ UNCHANGED secrets
  BY <1>1, <1>3, StopStep
<1>4. CASE /\ secrets' = IF s.op = "put" THEN secrets \cup {s.key} ELSE secrets \ {s.key}
           /\ upd' = [upd EXCEPT ![a].todo = rest, ![a].cleared = IF signing THEN s.op = "delete" ELSE @]
           /\ stranded' = (stranded /\ ~(signing /\ s.op = "put"))
  <2>1. upd' = [upd EXCEPT ![a] = new]
    BY <1>4, Zenon DEF SettingsInv, SettingsType
  <2>10. cleared \in BOOLEAN /\ (DropsKey(s) => cleared) /\ (PutsKey(s) => ~cleared)
         /\ (~DropsKey(s) /\ ~PutsKey(s) => cleared = u.cleared)
    BY <1>1, <1>2 DEF Update, Statement, DropsKey, PutsKey
  <2>11. stranded' \in BOOLEAN /\ (stranded /\ ~PutsKey(s) => stranded')
    BY <1>4, Zenon DEF SettingsInv, SettingsType, PutsKey
  <2> HIDE DEF rest, s, cleared
  <2>2. new \in Update /\ new.pc = u.pc /\ new.todo = rest /\ new.cleared = cleared /\ new.patches = u.patches /\ new.key = u.key
    BY <1>1, <1>2, <2>10, UpdateShape, Zenon
  <2> HIDE DEF new
  <2>3. new # Idle
    BY <2>2, SettingsAssumption
  <2>4. \A b \in Admins : upd'[b] = IF b = a THEN new ELSE upd[b]
    BY <2>1 DEF SettingsInv, SettingsType
  <2>5. SettingsType'
    <3>1. secrets' \subseteq SecretKeys
      BY <1>2, <1>4 DEF SettingsInv, SettingsType, Statement
    <3>2. upd' \in [Admins -> Update \cup {Idle}]
      BY <2>1, <2>2 DEF SettingsInv, SettingsType
    <3>3. QED BY <1>1, <2>11, <3>1, <3>2 DEF SettingsInv, SettingsType
  <2>6. \A b \in Admins : upd'[b] # Idle => UpdateOK(upd'[b])
    <3>1. cleared => KeyComes(rest)
      BY <1>1, <1>2, <2>10 DEF UpdateOK
    <3>2. QED BY <1>1, <1>2, <2>2, <2>4, <3>1 DEF SettingsInv, UpdateOK
  <2>7. ASSUME PutsKey(s) \/ KeySafe PROVE KeySafe'
    <3>1. CASE PutsKey(s)
      BY <1>4, <3>1 DEF KeySafe, PutsKey
    <3>2. CASE DropsKey(s)
      BY <2>2, <2>3, <2>4, <2>10, <3>2 DEF KeySafe
    <3>3. CASE ~PutsKey(s) /\ ~DropsKey(s)
      <4>1. s.key # SigningKey
        BY <1>2, <3>3 DEF DropsKey, PutsKey, Statement
      <4>2. cleared = u.cleared /\ KeySafe
        BY <2>7, <2>10, <3>3
      <4>3. SigningKey \in secrets' <=> SigningKey \in secrets
        BY <1>4, <4>1
      <4>4. KeyComes(u.todo) => KeyComes(rest)
        BY <1>2, <3>3
      <4>5. CASE SigningKey \in secrets
        BY <4>3, <4>5 DEF KeySafe
      <4>6. ASSUME NEW b \in Admins, upd[b] # Idle, upd[b].cleared PROVE KeySafe'
        BY <2>2, <2>3, <2>4, <4>2, <4>6 DEF KeySafe
      <4>7. CASE /\ rows["notifications"] = NoRow
                 /\ \A b \in Admins : upd[b] # Idle /\ Notifies(upd[b]) => KeyComes(upd[b].todo)
        <5>1. Notifies(new) => Notifies(u)
          BY <2>2 DEF Notifies
        <5>2. \A b \in Admins : upd'[b] # Idle /\ Notifies(upd'[b]) => KeyComes(upd'[b].todo)
          BY <1>1, <2>2, <2>4, <4>4, <4>7, <5>1
        <5>3. QED BY <1>1, <4>7, <5>2 DEF KeySafe
      <4>8. QED BY <4>2, <4>5, <4>6, <4>7 DEF KeySafe
    <3>4. QED BY <3>1, <3>2, <3>3
  <2>8. ~stranded' => KeySafe'
    BY <2>7, <2>11 DEF SettingsInv
  <2>9. QED BY <1>1, <2>5, <2>6, <2>8 DEF SettingsInv, RowsValid
<1>5. QED BY <1>3, <1>4 DEF WriteSecret

\* A general row is stored only if it is valid, and the row of notifications
\* only when the signing key is there or coming.
LEMMA PutSettingStep ==
    ASSUME SettingsInv, NEW a \in Admins, PutSetting(a)
    PROVE  SettingsInv'
<1> DEFINE u == upd[a]
           new == IF \E k \in GeneralKeys : u.patches[k] # NoRow
                  THEN [u EXCEPT !.pc = "write", !.key = "oidc", !.merged = NoFields] ELSE Idle
<1>1. u # Idle /\ u.pc = "store" /\ u.todo = <<>> /\ u \in Update /\ UpdateOK(u) /\ UNCHANGED secrets
  BY DEF PutSetting, SettingsInv, SettingsType, UpdateOK
<1>2. CASE Stop(a) /\ UNCHANGED rows
  BY <1>1, <1>2, StopStep
<1>3. CASE /\ ValidSetting(u.key, u.merged) /\ rows' = [rows EXCEPT ![u.key] = u.merged]
           /\ NextPatch(a) /\ UNCHANGED stranded
  <2>1. upd' = [upd EXCEPT ![a] = new]
    BY <1>3 DEF NextPatch
  <2>2. u.key \in GeneralKeys /\ u.merged \in Row
    BY <1>1 DEF Update
  <2>3. rows' \in [GeneralKeys -> Row \cup {NoRow}] /\ \A k \in GeneralKeys : rows'[k] = IF k = u.key THEN u.merged ELSE rows[k]
    BY <1>3, <2>2 DEF SettingsInv, SettingsType
  <2>4. RowsValid'
    BY <1>3, <2>3 DEF RowsValid, SettingsInv
  <2>5. /\ new \in Update \cup {Idle}
        /\ new # Idle => new.pc = "write" /\ new.key = "oidc" /\ new.todo = <<>> /\ new.patches = u.patches /\ ~new.cleared
    <3> DEFINE next == [u EXCEPT !.pc = "write", !.key = "oidc", !.merged = NoFields]
    <3>1. "write" \in UpdPcs /\ "oidc" \in GeneralKeys /\ NoFields \in Row
      BY DEF UpdPcs, GeneralKeys, NoFields, Row
    <3>2. next \in Update
      BY <1>1, <3>1, UpdateShape, Zenon
    <3>3. next.pc = "write" /\ next.key = "oidc" /\ next.todo = u.todo /\ next.patches = u.patches /\ next.cleared = u.cleared
      BY <1>1, UpdateShape, Zenon
    <3> HIDE DEF next
    <3>4. new = next \/ new = Idle
      BY Zenon DEF next
    <3> HIDE DEF new
    <3>5. ~u.cleared
      BY <1>1 DEF UpdateOK, KeyComes
    <3>6. QED BY <1>1, <3>2, <3>3, <3>4, <3>5
  <2> HIDE DEF new
  <2>6. \A b \in Admins : upd'[b] = IF b = a THEN new ELSE upd[b]
    BY <2>1 DEF SettingsInv, SettingsType
  <2>7. SettingsType'
    BY <1>1, <1>3, <2>1, <2>3, <2>5 DEF SettingsInv, SettingsType
  <2>8. \A b \in Admins : upd'[b] # Idle => UpdateOK(upd'[b])
    BY <1>1, <2>5, <2>6 DEF SettingsInv, UpdateOK
  <2>9. KeySafe => KeySafe'
    <3>1. ~KeyComes(u.todo) /\ ~u.cleared
      BY <1>1 DEF KeyComes, UpdateOK
    <3>2. CASE SigningKey \in secrets
      BY <1>1, <3>2 DEF KeySafe
    <3>3. ASSUME NEW b \in Admins, upd[b] # Idle, upd[b].cleared PROVE KeySafe'
      BY <2>6, <3>1, <3>3 DEF KeySafe
    <3>4. CASE /\ rows["notifications"] = NoRow
               /\ \A b \in Admins : upd[b] # Idle /\ Notifies(upd[b]) => KeyComes(upd[b].todo)
      <4>1. ~Notifies(u)
        BY <1>1, <3>1, <3>4
      <4>2. rows'["notifications"] = NoRow /\ (new # Idle => ~Notifies(new))
        BY <1>1, <2>3, <2>5, <3>4, <4>1 DEF Notifies, GeneralKeys
      <4>3. \A b \in Admins : upd'[b] # Idle /\ Notifies(upd'[b]) => KeyComes(upd'[b].todo)
        BY <2>6, <3>4, <4>2
      <4>4. QED BY <4>2, <4>3 DEF KeySafe
    <3>5. QED BY <3>2, <3>3, <3>4 DEF KeySafe
  <2>10. QED BY <1>3, <2>4, <2>7, <2>8, <2>9 DEF SettingsInv
<1>4. QED BY <1>2, <1>3 DEF PutSetting

-----------------------------------------------------------------------------
\* The whole.

\* The inductive invariant: that of the settings and that of the calls, which
\* read the settings and are not read by them.
IInv == SettingsInv /\ CallsInv

LEMMA InitInv == Init => IInv
<1> SUFFICES ASSUME Init PROVE IInv
  OBVIOUS
<1>1. SettingsType /\ RowsValid /\ \A a \in Admins : upd[a] = Idle
  BY DEF Init, SettingsInit, SettingsType, RowsValid
<1>2. KeySafe
  <2>1. rows["notifications"] = NoRow
    BY DEF Init, SettingsInit, GeneralKeys
  <2>2. QED BY <1>1, <2>1 DEF KeySafe
<1>3. CallsInv
  BY DEF Init, CallsInv, ProvidersOK, CallsOK
<1>4. QED BY <1>1, <1>2, <1>3 DEF IInv, SettingsInv

LEMMA SettingsNextStep ==
    ASSUME SettingsInv, SettingsNext
    PROVE  SettingsInv'
BY SubmitStep, CheckStep, WriteSecretStep, ReadForPatchStep, PutSettingStep, StopStep DEF SettingsNext, StatementFails

LEMMA SettingsUntouched ==
    ASSUME SettingsInv, UNCHANGED settingVars
    PROVE  SettingsInv'
BY DEF settingVars, SettingsInv, SettingsType, RowsValid, KeySafe

LEMMA CallsUntouched ==
    ASSUME CallsInv, UNCHANGED <<providers, call>>
    PROVE  CallsInv'
BY DEF CallsInv, ProvidersOK, CallsOK

LEMMA NextInv == IInv /\ [Next]_vars => IInv'
<1> SUFFICES ASSUME IInv, [Next]_vars PROVE IInv'
  OBVIOUS
<1>1. SettingsInv /\ SettingsType /\ CallsInv
  BY DEF IInv, SettingsInv
<1>2. CASE SettingsNext /\ UNCHANGED <<providers, call>>
  BY <1>1, <1>2, SettingsNextStep, CallsUntouched DEF IInv
<1>3. CASE UNCHANGED vars
  BY <1>1, <1>3, SettingsUntouched, CallsUntouched DEF vars, IInv
<1>4. ASSUME NEW c \in Calls, NEW t \in Tokens, ReadMCPSetting(c, t) PROVE IInv'
  <2>1. UNCHANGED settingVars BY <1>4 DEF ReadMCPSetting
  <2>2. QED BY <1>1, <1>4, <2>1, ReadMCPSettingStep, SettingsUntouched DEF IInv
<1>5. ASSUME NEW c \in Calls, ReadOIDCSetting(c) PROVE IInv'
  <2>1. UNCHANGED settingVars BY <1>5, Zenon DEF ReadOIDCSetting
  <2>2. QED BY <1>1, <1>5, <2>1, ReadOIDCSettingStep, SettingsUntouched DEF IInv
<1>6. ASSUME NEW c \in Calls, OAuthProvider(c) PROVE IInv'
  <2>1. UNCHANGED settingVars BY <1>6 DEF OAuthProvider
  <2>2. QED BY <1>1, <1>6, <2>1, OAuthProviderStep, SettingsUntouched DEF IInv
<1>7. ASSUME NEW c \in Calls, UserByOIDCSubject(c) PROVE IInv'
  <2>1. UNCHANGED settingVars BY <1>7 DEF UserByOIDCSubject
  <2>2. QED BY <1>1, <1>7, <2>1, UserByOIDCSubjectStep, SettingsUntouched DEF IInv
<1>8. ASSUME NEW c \in Calls, NEW tool \in Tools, ToolCall(c, tool) PROVE IInv'
  <2>1. UNCHANGED settingVars BY <1>8, Zenon DEF ToolCall
  <2>2. QED BY <1>1, <1>8, <2>1, ToolCallStep, SettingsUntouched DEF IInv
<1>9. ASSUME NEW c \in Calls, Respond(c) PROVE IInv'
  <2>1. UNCHANGED settingVars /\ UNCHANGED providers /\ Refuse(c) BY <1>9 DEF Respond
  <2>2. QED BY <1>1, <2>1, RefuseStep, SettingsUntouched DEF IInv
<1>10. QED BY <1>2, <1>3, <1>4, <1>5, <1>6, <1>7, <1>8, <1>9, Zenon DEF Next

\* The invariant of the settings and of the calls (updateSettings, PatchSetting,
\* PutSetting, withMCPAuth, oauthSession, mcpToolCall), whatever bodies are
\* sent, however the statements interleave and wherever they fail.
THEOREM MCPInvariance == Spec => []IInv
<1>1. QED BY InitInv, NextInv, PTL DEF Spec

\* Every stored row is valid as a whole, although the merge was made from a row
\* read earlier (settings.go PatchSetting, PutSetting).
THEOREM RowsAlwaysValid == Spec => []RowsValid
<1>1. IInv => RowsValid
  BY DEF IInv, SettingsInv
<1>2. QED BY <1>1, MCPInvariance, PTL

\* Notifications that were ever configured keep a signing key through every
\* interleaving of updates that clear, rotate and store it
\* (resource_handlers.go updateSettings, signingProvided).
THEOREM SigningKeyAlwaysKept == Spec => []SigningKeyKept
<1>1. IInv => SigningKeyKept
  BY DEF IInv, SettingsInv, KeySafe, SigningKeyKept
<1>2. QED BY <1>1, MCPInvariance, PTL

\* A call over single sign-on runs as the account of its token's own issuer and
\* subject, through every change of the issuer setting between its reads
\* (mcp_oauth.go mcpOAuthProvider, oauthSession).
THEOREM AccountAlwaysOfToken == Spec => []AccountOfToken
<1>1. IInv => AccountOfToken
  <2> SUFFICES ASSUME IInv, NEW c \in Calls, call[c] # NoCall, call[c].user # NoCall
               PROVE  /\ Accounts[call[c].user].issuer = call[c].token.iss
                      /\ Accounts[call[c].user].subject = call[c].token.sub
    BY DEF AccountOfToken
  <2>1. CallOK(call[c])
    BY DEF IInv, CallsInv, CallsOK
  <2>2. QED BY <2>1 DEF CallOK
<1>2. QED BY <1>1, MCPInvariance, PTL

\* A tool runs over single sign-on within the saved ceiling and the token's own
\* scopes (mcp_oauth.go mcpGrantedScopes, mcp.go mcpToolCall).
THEOREM CeilingAlwaysHeld == Spec => []CeilingHeld
<1>1. IInv => CeilingHeld
  <2> SUFFICES ASSUME IInv, NEW c \in Calls, call[c] # NoCall, call[c].pc = "ran"
               PROVE  /\ ToolScope(call[c].tool) \in Ceiling(call[c].oauth)
                      /\ call[c].token.scope # {} => ToolScope(call[c].tool) \in call[c].token.scope
    BY DEF CeilingHeld, At
  <2>1. CallOK(call[c])
    BY DEF IInv, CallsInv, CallsOK
  <2>2. QED BY <2>1 DEF CallOK, GrantedScopes
<1>2. QED BY <1>1, MCPInvariance, PTL
=============================================================================
