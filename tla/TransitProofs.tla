---------------------------- MODULE TransitProofs ----------------------------
(***************************************************************************)
(* Ciphertexts open for ever, and no plaintext leaves unaudited, for any   *)
(* number of keys, versions, requests, callers and items of a batch.       *)
(*                                                                         *)
(* A step changes the tables of keys in one of four ways (not at all, a    *)
(* first version, a further version, other permissions) and one call.  The *)
(* two halves are lemmas of their own; every action is one of each.        *)
(***************************************************************************)
EXTENDS Transit, SequenceTheorems, TLAPS

TablesOK ==
    /\ keys \in [Names -> KeyRow \cup {NoRow}]
    /\ versions \in [Names -> [Versions -> Nat]]
    /\ drawn \in Nat

\* Rows of keys are never removed, nor the key of a version replaced.
Grows ==
    /\ \A n \in Names : keys[n] # NoRow => keys'[n] # NoRow
    /\ \A n \in Names, v \in Versions : versions[n][v] # 0 => versions'[n][v] = versions[n][v]

\* Both tables are as they should be after a step, and have only grown.
TablesStep == TablesOK' /\ RingWhole' /\ Grows

-----------------------------------------------------------------------------
\* The tables implement KeyRing.

\* The first versions of a name, as a sequence.
LEMMA Prefix ==
    ASSUME NEW f \in [Versions -> Nat], NEW len \in 0..MaxVersion, NEW s, s = [v \in 1..len |-> f[v]]
    PROVE  /\ s \in Seq(Nat) /\ Len(s) = len
           /\ \A i \in 1..len : i \in Versions /\ s[i] = f[i]
<1>1. \A i \in 1..len : i \in Versions /\ f[i] \in Nat
  BY TransitAssumption DEF Versions
<1>2. QED BY <1>1

\* The ring of a key is as long as its version, and holds its version rows.
LEMMA RingOf ==
    ASSUME TablesOK, NEW n \in Names
    PROVE  LET len == IF keys[n] = NoRow THEN 0 ELSE keys[n].version
           IN  /\ len \in 0..MaxVersion /\ Ring[n] = [v \in 1..len |-> versions[n][v]]
               /\ Ring[n] \in Seq(Nat) /\ Len(Ring[n]) = len
               /\ \A i \in 1..len : i \in Versions /\ Ring[n][i] = versions[n][i]
<1> DEFINE len == IF keys[n] = NoRow THEN 0 ELSE keys[n].version
<1>1. len \in 0..MaxVersion
  BY TransitAssumption DEF TablesOK, KeyRow, Versions
<1>3. versions[n] \in [Versions -> Nat]
  BY DEF TablesOK
<1>2. Ring[n] = [v \in 1..len |-> versions[n][v]]
  <2>1. CASE keys[n] = NoRow
    <3> DEFINE e == [v \in 1..0 |-> versions[n][v]]
    <3>1. e \in Seq(Nat) /\ Len(e) = 0
      BY <1>3, Prefix, TransitAssumption
    <3>2. e = <<>>
      BY <3>1, EmptySeq
    <3>3. QED BY <2>1, <3>2 DEF Ring
  <2>2. CASE keys[n] # NoRow
    BY <2>2 DEF Ring
  <2>3. QED BY <2>1, <2>2
<1> HIDE DEF len
<1>4. QED BY <1>1, <1>2, <1>3, Prefix DEF len

\* A key that was just drawn is appended to the ring of one name.
LEMMA RingExtended ==
    ASSUME TablesOK, RingWhole, TablesOK', NEW n \in Names,
           NEW w \in Versions, w = IF keys[n] = NoRow THEN 1 ELSE keys[n].version + 1,
           keys'[n] # NoRow, keys'[n].version = w, \A m \in Names : m # n => keys'[m] = keys[m],
           versions' = [versions EXCEPT ![n][w] = drawn + 1], Made' = Made
    PROVE  Abstract!Extend(n)
<1> DEFINE k == drawn + 1
           s == Ring[n]
           t == Ring'[n]
<1>1. \A m \in Names, v \in Versions : versions'[m][v] = IF m = n /\ v = w THEN k ELSE versions[m][v]
  BY DEF TablesOK
<1>2. w \in Nat \ {0} /\ w \in 0..MaxVersion /\ k \in Nat
  BY TransitAssumption DEF Versions, TablesOK
<1>3. s \in Seq(Nat) /\ Len(s) = w - 1 /\ \A i \in 1..(w - 1) : i \in Versions /\ s[i] = versions[n][i]
  <2>1. w - 1 = IF keys[n] = NoRow THEN 0 ELSE keys[n].version
    BY DEF TablesOK, KeyRow, Versions
  <2>2. QED BY <2>1, RingOf
<1>4. t \in Seq(Nat) /\ Len(t) = w /\ \A i \in 1..w : i \in Versions /\ t[i] = versions'[n][i]
  <2>1. t = [v \in 1..w |-> versions'[n][v]]
    BY DEF Ring
  <2> DEFINE f == versions'[n]
  <2>2. f \in [Versions -> Nat] /\ t = [v \in 1..w |-> f[v]]
    BY <2>1 DEF TablesOK
  <2> HIDE DEF t, f
  <2>3. t \in Seq(Nat) /\ Len(t) = w /\ \A i \in 1..w : i \in Versions /\ t[i] = f[i]
    BY <1>2, <2>2, Prefix
  <2>4. QED BY <2>3 DEF f
<1>5. t[w] = k
  BY <1>1, <1>2, <1>4
<1>6. t = Append(s, k)
  <2>1. ASSUME NEW i \in 1..(w - 1) PROVE t[i] = s[i]
    <3>1. i \in Versions /\ i \in 1..w /\ i # w /\ s[i] = versions[n][i]
      BY <1>2, <1>3
    <3>2. t[i] = versions'[n][i]
      BY <1>4, <3>1
    <3>3. QED BY <1>1, <3>1, <3>2
  <2> HIDE DEF s, t, k
  <2>2. Append(s, k) \in Seq(Nat) /\ Len(Append(s, k)) = w
    BY <1>2, <1>3
  <2>3. \A i \in 1..w : Append(s, k)[i] = t[i]
    BY <1>2, <1>3, <1>5, <2>1
  <2>4. QED BY <1>4, <2>2, <2>3, SeqEqual
<1>7. \A m \in Names : m # n => Ring'[m] = Ring[m]
  <2> SUFFICES ASSUME NEW m \in Names, m # n PROVE Ring'[m] = Ring[m]
    OBVIOUS
  <2>1. CASE keys[m] = NoRow
    BY <2>1 DEF Ring
  <2>2. CASE keys[m] # NoRow
    <3>1. keys[m].version \in 0..MaxVersion /\ \A v \in 1..keys[m].version : versions'[m][v] = versions[m][v]
      BY <2>2, <1>1, TransitAssumption DEF TablesOK, KeyRow, Versions
    <3>2. Ring[m] = [v \in 1..keys[m].version |-> versions[m][v]]
      BY <2>2 DEF Ring
    <3>3. Ring'[m] = [v \in 1..keys[m].version |-> versions'[m][v]]
      BY <2>2 DEF Ring
    <3>4. QED BY <3>1, <3>2, <3>3
  <2>3. QED BY <2>1, <2>2
<1>8. Ring' = [Ring EXCEPT ![n] = Append(@, k)]
  <2>1. Ring' = [m \in Names |-> Ring'[m]] /\ Ring = [m \in Names |-> Ring[m]]
    BY DEF Ring
  <2> HIDE DEF k
  <2>2. QED BY <1>6, <1>7, <2>1
<1>9. \A m \in Names : \A i \in DOMAIN Ring[m] : Ring[m][i] # k
  <2> SUFFICES ASSUME NEW m \in Names, NEW i \in DOMAIN Ring[m] PROVE Ring[m][i] # k
    OBVIOUS
  <2>1. i \in Versions /\ Ring[m][i] = versions[m][i]
    <3> DEFINE len == IF keys[m] = NoRow THEN 0 ELSE keys[m].version
    <3>1. /\ Ring[m] = [v \in 1..len |-> versions[m][v]]
          /\ \A j \in 1..len : j \in Versions /\ Ring[m][j] = versions[m][j]
      BY RingOf
    <3> HIDE DEF len
    <3>2. QED BY <3>1
  <2>2. versions[m][i] <= drawn /\ versions[m][i] \in Nat
    BY <2>1 DEF RingWhole, TablesOK
  <2>3. QED BY <2>1, <2>2 DEF TablesOK
<1>10. k = t[Len(s) + 1] /\ Len(t) = Len(s) + 1
  BY <1>2, <1>3, <1>4, <1>5
<1> HIDE DEF k
<1>11. QED BY <1>8, <1>9, <1>10 DEF Abstract!Extend

-----------------------------------------------------------------------------
\* What a step does to the tables.

LEMMA TablesKept ==
    ASSUME TablesOK, RingWhole, UNCHANGED <<keys, versions>>, drawn' = drawn \/ drawn' = drawn + 1
    PROVE  TablesStep /\ Ring' = Ring
<1>1. TablesOK' /\ Ring' = Ring
  BY DEF TablesOK, Ring
<1>2. RingWhole'
  <2>1. \A n \in Names, v \in Versions : versions[n][v] \in Nat
    BY DEF TablesOK
  <2>2. \A n \in Names, v \in Versions : versions'[n][v] <= drawn'
    BY <2>1 DEF RingWhole, TablesOK
  <2>3. QED BY <2>2 DEF RingWhole
<1>3. QED BY <1>1, <1>2 DEF TablesStep, Grows

\* The first version of a key, sealed with a key that was just drawn.
LEMMA TablesInserted ==
    ASSUME TablesOK, RingWhole, NEW n \in Names, NEW P \in SUBSET Operations,
           keys[n] = NoRow, drawn' = drawn + 1, InsertRows(n, drawn + 1, P)
    PROVE  TablesStep /\ keys'[n] # NoRow /\ (Made' = Made => Abstract!Extend(n))
<1> DEFINE row == [version |-> 1, key |-> drawn + 1, permissions |-> P]
<1>1. 1 \in Versions
  BY TransitAssumption DEF Versions
<1>2. row \in KeyRow /\ row # NoRow /\ row.version = 1 /\ row.key = drawn + 1
  BY <1>1, TransitNulls DEF KeyRow, TablesOK
<1>3. keys' = [keys EXCEPT ![n] = row] /\ versions' = [versions EXCEPT ![n][1] = drawn + 1]
  BY DEF InsertRows
<1> HIDE DEF row
<1>4. TablesOK' /\ keys'[n] = row
  BY <1>1, <1>2, <1>3 DEF TablesOK
<1>5. \A m \in Names, v \in Versions :
         versions'[m][v] = IF m = n /\ v = 1 THEN drawn + 1 ELSE versions[m][v]
  BY <1>1, <1>3 DEF TablesOK
<1>6. \A m \in Names : m # n => keys'[m] = keys[m]
  BY <1>3 DEF TablesOK
<1>7. \A v \in Versions : versions[n][v] = 0
  BY DEF RingWhole
<1>8. \A m \in Names, v \in Versions : versions[m][v] \in Nat /\ versions[m][v] <= drawn
  BY DEF RingWhole, TablesOK
<1>9. RingWhole'
  <2>1. ASSUME NEW m \in Names
        PROVE  IF keys'[m] = NoRow
               THEN \A v \in Versions : versions'[m][v] = 0
               ELSE /\ \A v \in Versions : versions'[m][v] # 0 <=> v <= keys'[m].version
                    /\ versions'[m][keys'[m].version] = keys'[m].key
    <3>1. CASE m = n
      <4>1. \A v \in Versions : versions'[m][v] # 0 <=> v = 1
        BY <3>1, <1>5, <1>7 DEF TablesOK
      <4>2. \A v \in Versions : v = 1 <=> v <= 1
        BY DEF Versions
      <4>3. QED BY <3>1, <4>1, <4>2, <1>1, <1>2, <1>4, <1>5
    <3>2. CASE m # n
      <4>1. \A v \in Versions : versions'[m][v] = versions[m][v]
        BY <3>2, <1>5
      <4>2. keys'[m] # NoRow => keys'[m].version \in Versions
        BY <1>4 DEF TablesOK, KeyRow
      <4>3. QED BY <3>2, <4>1, <4>2, <1>6 DEF RingWhole
    <3>3. QED BY <3>1, <3>2
  <2>2. \A m \in Names, v \in Versions : versions'[m][v] <= drawn'
    BY <1>5, <1>8 DEF TablesOK
  <2>3. ASSUME NEW m \in Names, NEW l \in Names, NEW v \in Versions, NEW w \in Versions,
               versions'[m][v] # 0, versions'[m][v] = versions'[l][w]
        PROVE  m = l /\ v = w
    <3>1. versions[m][v] # drawn + 1 /\ versions[l][w] # drawn + 1
      BY <1>8 DEF TablesOK
    <3>2. QED BY <2>3, <3>1, <1>5 DEF RingWhole
  <2>4. QED BY <2>1, <2>2, <2>3 DEF RingWhole
<1>10. Grows
  BY <1>2, <1>4, <1>5, <1>6, <1>7 DEF Grows
<1>11. Made' = Made => Abstract!Extend(n)
  BY <1>1, <1>2, <1>3, <1>4, <1>6, RingExtended
<1>12. QED BY <1>2, <1>4, <1>9, <1>10, <1>11 DEF TablesStep

\* A further version of a key that exists.
LEMMA TablesRotated ==
    ASSUME TablesOK, RingWhole, NEW n \in Names, keys[n] # NoRow, keys[n].version + 1 <= MaxVersion,
           NEW row \in KeyRow, row.version = keys[n].version + 1, row.key = drawn + 1,
           drawn' = drawn + 1, keys' = [keys EXCEPT ![n] = row],
           versions' = [versions EXCEPT ![n][keys[n].version + 1] = drawn + 1]
    PROVE  TablesStep /\ (Made' = Made => Abstract!Extend(n))
<1> DEFINE w == keys[n].version + 1
<1>1. keys[n] \in KeyRow /\ keys[n].version \in Versions
  BY DEF TablesOK, KeyRow
<1>2. w \in Versions /\ w # keys[n].version
  BY <1>1, TransitAssumption DEF Versions
<1>3. keys'[n] \in KeyRow /\ keys'[n] # NoRow /\ keys'[n].version = w /\ keys'[n].key = drawn + 1
  BY TransitNulls DEF TablesOK
<1>4. \A m \in Names : m # n => keys'[m] = keys[m]
  BY DEF TablesOK
<1>5. TablesOK'
  BY <1>1, <1>2, <1>3 DEF TablesOK
<1>6. \A m \in Names, v \in Versions :
         versions'[m][v] = IF m = n /\ v = w THEN drawn + 1 ELSE versions[m][v]
  BY <1>2 DEF TablesOK
<1>7. \A v \in Versions : versions[n][v] # 0 <=> v <= keys[n].version
  BY DEF RingWhole
<1>8. \A m \in Names, v \in Versions : versions[m][v] \in Nat /\ versions[m][v] <= drawn
  BY DEF RingWhole, TablesOK
<1>9. ~(w <= keys[n].version) /\ \A v \in Versions : v <= w <=> v <= keys[n].version \/ v = w
  BY <1>1, TransitAssumption DEF Versions
<1> HIDE DEF w
<1>10. RingWhole'
  <2>1. ASSUME NEW m \in Names
        PROVE  IF keys'[m] = NoRow
               THEN \A v \in Versions : versions'[m][v] = 0
               ELSE /\ \A v \in Versions : versions'[m][v] # 0 <=> v <= keys'[m].version
                    /\ versions'[m][keys'[m].version] = keys'[m].key
    <3>1. CASE m = n
      <4>1. drawn + 1 # 0
        BY DEF TablesOK
      <4>2. \A v \in Versions : versions'[n][v] # 0 <=> v <= w
        BY <4>1, <1>6, <1>7, <1>9
      <4>3. versions'[n][w] = drawn + 1
        BY <1>2, <1>6
      <4>4. QED BY <3>1, <4>2, <4>3, <1>3
    <3>2. CASE m # n
      <4>1. \A v \in Versions : versions'[m][v] = versions[m][v]
        BY <3>2, <1>6
      <4>2. keys[m] # NoRow => keys[m].version \in Versions
        BY DEF TablesOK, KeyRow
      <4>3. QED BY <3>2, <4>1, <4>2, <1>4 DEF RingWhole
    <3>3. QED BY <3>1, <3>2
  <2>2. \A m \in Names, v \in Versions : versions'[m][v] <= drawn'
    BY <1>6, <1>8 DEF TablesOK
  <2>3. ASSUME NEW m \in Names, NEW l \in Names, NEW v \in Versions, NEW x \in Versions,
               versions'[m][v] # 0, versions'[m][v] = versions'[l][x]
        PROVE  m = l /\ v = x
    <3>1. versions[m][v] # drawn + 1 /\ versions[l][x] # drawn + 1
      BY <1>8 DEF TablesOK
    <3>2. QED BY <2>3, <3>1, <1>6 DEF RingWhole
  <2>4. QED BY <2>1, <2>2, <2>3 DEF RingWhole
<1>11. Grows
  <2>1. versions[n][w] = 0
    BY <1>2, <1>7, <1>9
  <2>2. QED BY <2>1, <1>3, <1>4, <1>6 DEF Grows
<1>12. Made' = Made => Abstract!Extend(n)
  BY <1>2, <1>3, <1>4, <1>5, RingExtended DEF w
<1>13. QED BY <1>5, <1>10, <1>11, <1>12 DEF TablesStep

\* Other permissions.
LEMMA TablesPermitted ==
    ASSUME TablesOK, RingWhole, NEW n \in Names, NEW P \in SUBSET Operations, keys[n] # NoRow,
           keys' = [keys EXCEPT ![n].permissions = P], UNCHANGED <<versions, drawn>>
    PROVE  TablesStep /\ Ring' = Ring
<1>1. keys[n] \in KeyRow
  BY DEF TablesOK
<1>2. keys'[n] \in KeyRow /\ keys'[n] # NoRow /\ keys'[n].version = keys[n].version /\ keys'[n].key = keys[n].key
  BY <1>1, TransitNulls DEF KeyRow, TablesOK
<1>3. \A m \in Names : m # n => keys'[m] = keys[m]
  BY DEF TablesOK
<1>4. TablesOK'
  BY <1>2 DEF TablesOK
<1>5. RingWhole'
  <2>1. ASSUME NEW m \in Names
        PROVE  IF keys'[m] = NoRow
               THEN \A v \in Versions : versions'[m][v] = 0
               ELSE /\ \A v \in Versions : versions'[m][v] # 0 <=> v <= keys'[m].version
                    /\ versions'[m][keys'[m].version] = keys'[m].key
    BY <1>2, <1>3 DEF RingWhole
  <2>2. QED BY <2>1 DEF RingWhole
<1>6. Grows
  BY <1>2, <1>3 DEF Grows
<1>7. Ring' = Ring
  BY <1>2, <1>3 DEF Ring
<1>8. QED BY <1>4, <1>5, <1>6, <1>7 DEF TablesStep

-----------------------------------------------------------------------------
\* What a step does to a call.

Pcs == {"work", "create", "reload", "audit", "answer", "rotate", "manage", "done"}
Ops == {"encrypt", "decrypt", "create", "rotate", "manage"}
Apis == {"single", "batch", "mcp", "admin"}
Lefts == Seq(Plaintexts \cup Presented \cup {Bad})
Outs == SUBSET (Ciphertext \cup Plaintexts)
Statuses == {0, 200, 400, 403, 404, 409, 500, 503}

\* The type of a call, its fields' types by name: a proof that changes several
\* fields at once does not look into them.
LEMMA CallShape ==
    Call = [pc : Pcs, op : Ops, api : Apis, name : Names, left : Lefts, out : Outs,
            fault : BOOLEAN, status : Statuses]
BY DEF Call, Pcs, Ops, Apis, Lefts, Outs, Statuses

\* A ciphertext that opens still opens after the tables have grown.
LEMMA StillOpens ==
    ASSUME TypeOK, Grows, NEW c \in Ciphertext, CanOpen(c)
    PROVE  CanOpen(c)'
<1>1. c.name \in Names /\ c.version \in Versions /\ c.key # 0
  BY DEF Ciphertext
<1>2. QED BY <1>1 DEF CanOpen, Opens, Grows

\* What was made is ciphertexts.
LEMMA MadeIsCiphertext ==
    ASSUME TypeOK, CallsConsistent
    PROVE  Made \subseteq Ciphertext
<1>1. ASSUME NEW r \in Requests PROVE Out(r) \subseteq Ciphertext
  BY DEF Out, CallsConsistent, WellFormed
<1>2. QED BY <1>1 DEF Made, TypeOK

\* A step that replaces the call of r by one that is consistent with the audit
\* log and with the tables, and gives only ciphertexts that open.
LEMMA CallStep ==
    ASSUME IInv, TablesStep, NEW r \in Requests, NEW new \in Call,
           req' = [req EXCEPT ![r] = new], WellFormed(new),
           new.pc = "reload" => keys'[new.name] # NoRow,
           new.op = "encrypt" => \A c \in new.out : c \in Made \/ CanOpen(c)',
           issued' \subseteq Made,
           audit' = audit \/ \E b \in BOOLEAN : audit' = audit \cup {[request |-> r, success |-> b]},
           \A a \in audit' : a.request = r => new.pc \in {"answer", "done"},
           DisclosureOK(r, req[r])'
    PROVE  IInv'
<1>0. req'[r] = new /\ new # NoRow /\ \A s \in Requests : s # r => req'[s] = req[s]
  BY TransitNulls DEF IInv, TypeOK
<1>1. TypeOK'
  <2>1. issued' \subseteq Ciphertext
    BY MadeIsCiphertext DEF IInv
  <2>2. audit' \subseteq [request : Requests, success : BOOLEAN]
    <3>1. \A b \in BOOLEAN : [request |-> r, success |-> b] \in [request : Requests, success : BOOLEAN]
      BY Zenon
    <3>2. audit \subseteq [request : Requests, success : BOOLEAN]
      BY DEF IInv, TypeOK
    <3>3. QED BY <3>1, <3>2, Zenon
  <2>3. req' \in [Requests -> Call \cup {NoRow}]
    BY DEF IInv, TypeOK
  <2>4. QED BY <2>1, <2>2, <2>3 DEF TypeOK, TablesStep, TablesOK
<1>2. CallsConsistent'
  <2>1. ASSUME NEW s \in Requests, req'[s] # NoRow
        PROVE  WellFormed(req[s])' /\ (req'[s].pc = "reload" => keys'[req'[s].name] # NoRow)
    <3>1. CASE s = r
      BY <3>1, <1>0 DEF WellFormed
    <3>2. CASE s # r
      <4>1. req'[s] = req[s] /\ req[s] # NoRow /\ req[s] \in Call
        BY <2>1, <3>2, <1>0 DEF IInv, TypeOK
      <4>2. req[s].name \in Names
        BY <4>1 DEF Call
      <4>3. QED BY <4>1, <4>2 DEF IInv, CallsConsistent, TablesStep, Grows, WellFormed
    <3>3. QED BY <3>1, <3>2
  <2>2. ASSUME NEW a \in audit' PROVE req'[a.request] # NoRow /\ req'[a.request].pc \in {"answer", "done"}
    <3>1. CASE a.request = r
      BY <2>2, <3>1, <1>0
    <3>2. CASE a.request # r
      <4>1. a \in audit /\ a.request \in Requests
        BY <2>2, <3>2 DEF IInv, TypeOK
      <4>2. QED BY <3>2, <4>1, <1>0 DEF IInv, CallsConsistent
    <3>3. QED BY <3>1, <3>2
  <2>3. QED BY <2>1, <2>2 DEF CallsConsistent
<1>3. CiphertextsOpen'
  <2>1. ASSUME NEW c \in Made PROVE CanOpen(c)'
    <3>1. c \in Ciphertext /\ CanOpen(c)
      BY <2>1, MadeIsCiphertext DEF IInv, CiphertextsOpen
    <3>2. QED BY <3>1, StillOpens DEF IInv, TablesStep
  <2>2. ASSUME NEW c \in Made' PROVE c \in Made \/ CanOpen(c)'
    <3>1. CASE c \in issued'
      BY <3>1
    <3>2. ASSUME NEW s \in Requests, c \in Out(s)' PROVE c \in Made \/ CanOpen(c)'
      <4>1. CASE s = r
        BY <3>2, <4>1, <1>0 DEF Out
      <4>2. CASE s # r
        BY <3>2, <4>2, <1>0 DEF Out, Made
      <4>3. QED BY <4>1, <4>2
    <3>3. QED BY <2>2, <3>1, <3>2 DEF Made
  <2>3. QED BY <2>1, <2>2 DEF CiphertextsOpen
<1>4. DisclosureAudited'
  <2>1. ASSUME NEW s \in Requests, req'[s] # NoRow PROVE DisclosureOK(s, req[s])'
    <3>1. CASE s = r
      BY <3>1
    <3>2. CASE s # r
      <4>1. req'[s] = req[s] /\ DisclosureOK(s, req[s])
        BY <2>1, <3>2, <1>0 DEF IInv, DisclosureAudited
      <4>2. [request |-> s, success |-> TRUE] \in audit' => [request |-> s, success |-> TRUE] \in audit
        BY <3>2
      <4>3. QED BY <4>1, <4>2 DEF DisclosureOK
    <3>3. QED BY <3>1, <3>2
  <2>2. QED BY <2>1 DEF DisclosureAudited
<1>5. QED BY <1>1, <1>2, <1>3, <1>4 DEF IInv, TablesStep

\* A step of a call that has no audit row yet and writes none: it must not let a
\* plaintext out, nor end an MCP decryption as if it were on record.
LEMMA QuietStep ==
    ASSUME IInv, TablesStep, NEW r \in Requests, NEW new \in Call,
           req' = [req EXCEPT ![r] = new], WellFormed(new),
           new.pc = "reload" => keys'[new.name] # NoRow,
           new.op = "encrypt" => \A c \in new.out : c \in Made \/ CanOpen(c)',
           UNCHANGED <<issued, audit>>,
           req[r] # NoRow => req[r].pc \notin {"answer", "done"},
           new.op = "decrypt" /\ new.pc \in {"answer", "done"} =>
              new.out = {} /\ (new.api # "mcp" \/ (new.pc = "done" /\ new.status = 503))
    PROVE  IInv'
<1>1. \A a \in audit : a.request # r
  BY DEF IInv, CallsConsistent
<1>2. [request |-> r, success |-> TRUE] \notin audit
  BY <1>1
<1>3. req'[r] = new
  BY DEF IInv, TypeOK
<1>4. DisclosureOK(r, req[r])'
  BY <1>2, <1>3 DEF DisclosureOK
<1>5. issued' \subseteq Made
  BY DEF Made
<1>6. audit' = audit /\ \A a \in audit' : a.request = r => new.pc \in {"answer", "done"}
  BY <1>1
<1>7. QED BY <1>4, <1>5, <1>6, CallStep

\* What a step makes: what the call gives now and did not give before.
LEMMA MakesStep ==
    ASSUME IInv, NEW r \in Requests, NEW new \in Call, req' = [req EXCEPT ![r] = new], NEW gave,
           (IF new.op = "encrypt" THEN new.out ELSE {}) = Out(r) \cup gave,
           issued \subseteq issued', issued' \subseteq issued \cup Out(r)
    PROVE  Made' = Made \cup gave
<1>1. Out(r)' = Out(r) \cup gave
  BY TransitNulls DEF Out, IInv, TypeOK
<1>2. \A s \in Requests : s # r => Out(s)' = Out(s)
  BY DEF Out, IInv, TypeOK
<1>3. QED BY <1>1, <1>2 DEF Made

\* A step of an encryption that gives no further ciphertext, or of another call.
LEMMA MakesNothing ==
    ASSUME IInv, NEW r \in Requests, req[r] # NoRow, NEW new \in Call, req' = [req EXCEPT ![r] = new],
           new.op = req[r].op, new.op = "encrypt" => new.out = req[r].out, issued' = issued
    PROVE  Made' = Made
<1>1. Out(r) = IF req[r].op = "encrypt" THEN req[r].out ELSE {}
  BY DEF Out
<1>2. (IF new.op = "encrypt" THEN new.out ELSE {}) = Out(r) \cup {}
  BY <1>1
<1>3. Made' = Made \cup {}
  BY <1>2, MakesStep
<1>4. QED BY <1>3

\* What every step is shown to do: keep the invariant, and be a step of KeyRing or
\* none.
StepOK == IInv' /\ (Abstract!Next \/ UNCHANGED <<Ring, Made>>)

\* The tables are as the invariant says and do not change.
LEMMA SameTables ==
    ASSUME IInv, UNCHANGED <<keys, versions, drawn>>
    PROVE  TablesStep /\ Ring' = Ring
BY TablesKept DEF IInv, TypeOK, TablesOK

\* The first item of a call, and the rest of its items.
LEMMA Items ==
    ASSUME NEW S, NEW q \in Seq(S), q # <<>>
    PROVE  Head(q) \in S /\ Tail(q) \in Seq(S)
BY HeadTailProperties

\* The ciphertexts of a call so far are made ones.
LEMMA SoFarMade ==
    ASSUME NEW r \in Requests, req[r] # NoRow, req[r].op = "encrypt"
    PROVE  req[r].out \subseteq Made
BY DEF Made, Out

-----------------------------------------------------------------------------
\* One item is behind the call: it gave plaintexts of a decryption, or ciphertexts
\* that open, or nothing.
LEMMA AfterItem ==
    ASSUME IInv, NEW r \in Requests, NEW gave, req[r] # NoRow, req[r].pc \in {"work", "create", "reload"},
           req[r].left # <<>>,
           IF req[r].op = "encrypt" THEN gave \subseteq Ciphertext /\ \A c \in gave : CanOpen(c)
                                    ELSE gave \subseteq Plaintexts,
           NEW new \in Call, req' = [req EXCEPT ![r] = new], new.pc = "work", new.op = req[r].op,
           new.left = Tail(req[r].left), new.out = req[r].out \cup gave,
           UNCHANGED <<keys, versions, drawn, issued, audit>>
    PROVE  /\ IInv' /\ Ring' = Ring
           /\ Made' = Made \cup (IF req[r].op = "encrypt" THEN gave ELSE {})
<1> DEFINE c == req[r]
<1>1. WellFormed(c) /\ c.op \in {"encrypt", "decrypt"}
  BY DEF IInv, CallsConsistent, WellFormed
<1>2. WellFormed(new)
  <2>1. CASE c.op = "encrypt"
    <3>1. Tail(c.left) \in Seq(Plaintexts \cup {Bad})
      BY <2>1, <1>1, Items DEF WellFormed
    <3>2. QED BY <2>1, <3>1, <1>1 DEF WellFormed
  <2>2. CASE c.op = "decrypt"
    <3>1. Tail(c.left) \in Seq(Presented \cup {Bad})
      BY <2>2, <1>1, Items DEF WellFormed
    <3>2. QED BY <2>2, <3>1, <1>1 DEF WellFormed
  <2>3. QED BY <1>1, <2>1, <2>2
<1>3. new.op = "encrypt" => \A d \in new.out : d \in Made \/ CanOpen(d)'
  <2>1. ASSUME NEW d, CanOpen(d) PROVE CanOpen(d)'
    BY <2>1 DEF CanOpen, Opens
  <2>2. QED BY <2>1, SoFarMade
<1>4. Made' = Made \cup (IF c.op = "encrypt" THEN gave ELSE {})
  <2> DEFINE made == IF c.op = "encrypt" THEN gave ELSE {}
  <2>1. Out(r) = IF c.op = "encrypt" THEN c.out ELSE {}
    BY DEF Out
  <2>2. (IF new.op = "encrypt" THEN new.out ELSE {}) = Out(r) \cup made
    BY <2>1
  <2> HIDE DEF made
  <2>3. Made' = Made \cup made
    BY <2>2, MakesStep
  <2>4. QED BY <2>3 DEF made
<1>5. QED BY <1>2, <1>3, <1>4, SameTables, QuietStep

\* What is left of a call after its first item, and what it has given then.
LEMMA RestOfCall ==
    ASSUME IInv, NEW r \in Requests, req[r] # NoRow, req[r].left # <<>>,
           NEW gave \in SUBSET (Ciphertext \cup Plaintexts)
    PROVE  /\ req[r] \in Call
           /\ Tail(req[r].left) \in Lefts
           /\ req[r].out \cup gave \in Outs
           /\ "work" \in Pcs
<1>1. req[r] \in Call
  BY DEF IInv, TypeOK
<1>2. req[r].left \in Lefts /\ req[r].out \in Outs
  BY <1>1, CallShape
<1>3. QED BY <1>1, <1>2, Items DEF Lefts, Outs, Pcs

LEMMA ItemStep ==
    ASSUME IInv, NEW r \in Requests, NEW gave, req[r] # NoRow, req[r].pc \in {"work", "create", "reload"},
           req[r].left # <<>>, ItemDone(r, gave),
           IF req[r].op = "encrypt" THEN gave \subseteq Ciphertext /\ \A c \in gave : CanOpen(c)
                                    ELSE gave \subseteq Plaintexts,
           UNCHANGED <<keys, versions, drawn, issued, audit>>
    PROVE  /\ IInv' /\ Ring' = Ring
           /\ Made' = Made \cup (IF req[r].op = "encrypt" THEN gave ELSE {})
<1> DEFINE c == req[r]
           rest == Tail(c.left)
           all == c.out \cup gave
           new == [c EXCEPT !.pc = "work", !.left = rest, !.out = all]
<1>1. req' = [req EXCEPT ![r] = new]
  BY DEF ItemDone, IInv, TypeOK
<1>2. c \in Call /\ rest \in Lefts /\ all \in Outs /\ "work" \in Pcs
  BY RestOfCall
<1> HIDE DEF rest, all
<1>3. new \in Call
  BY <1>2, CallShape, Zenon
<1>4. new.pc = "work" /\ new.op = c.op /\ new.left = rest /\ new.out = all
  BY <1>2, CallShape, Zenon
<1> HIDE DEF new
<1>5. QED BY <1>1, <1>3, <1>4, AfterItem DEF rest, all

\* The current version of a key that is there seals ciphertexts that open.
LEMMA SealedOpens ==
    ASSUME IInv, NEW n \in Names, keys[n] # NoRow, NEW p \in Plaintexts
    PROVE  LET v == keys[n].version
               c == Sealed(n, v, versions[n][v], p)
           IN  c \in Ciphertext /\ CanOpen(c)
<1> DEFINE v == keys[n].version
           c == Sealed(n, v, versions[n][v], p)
<1>1. v \in Versions
  BY DEF IInv, TypeOK, KeyRow
<1>2. versions[n][v] \in Nat \ {0}
  <2>1. versions[n][v] \in Nat
    BY <1>1 DEF IInv, TypeOK
  <2>2. v <= v
    BY <1>1 DEF Versions
  <2>3. QED BY <1>1, <2>1, <2>2 DEF IInv, RingWhole
<1>3. c \in Ciphertext
  BY <1>1, <1>2 DEF Sealed, Ciphertext
<1>4. CanOpen(c)
  BY DEF CanOpen, Opens, Sealed
<1>5. QED BY <1>3, <1>4

LEMMA CurrentStep ==
    ASSUME IInv, NEW r \in Requests, req[r] # NoRow, req[r].pc \in {"work", "reload"}, req[r].op = "encrypt",
           req[r].left # <<>>, Head(req[r].left) # Bad, keys[req[r].name] # NoRow,
           EncryptWithCurrent(r), UNCHANGED <<keys, versions, drawn, issued, audit>>
    PROVE  StepOK
<1> DEFINE n == req[r].name
           v == keys[n].version
           c == Sealed(n, v, versions[n][v], Head(req[r].left))
<1>1. n \in Names /\ req[r].left \in Seq(Plaintexts \cup {Bad})
  BY DEF IInv, TypeOK, Call, CallsConsistent, WellFormed
<1>2. Head(req[r].left) \in Plaintexts
  BY <1>1, Items
<1>3. c \in Ciphertext /\ CanOpen(c)
  BY <1>1, <1>2, SealedOpens
<1>4. ItemDone(r, {c})
  BY DEF EncryptWithCurrent
<1> HIDE DEF c
<1>5. IInv' /\ Ring' = Ring /\ Made' = Made \cup {c}
  BY <1>3, <1>4, ItemStep
<1>6. Abstract!Seal(n, Head(req[r].left))
  <2>a. v \in Nat \ {0} /\ TablesOK
    BY <1>1 DEF IInv, TypeOK, TablesOK, KeyRow, Versions
  <2>b. Len(Ring[n]) = v /\ \A i \in 1..v : Ring[n][i] = versions[n][i]
    BY <1>1, <2>a, RingOf
  <2>1. Len(Ring[n]) = v /\ Ring[n][v] = versions[n][v] /\ Ring[n] # <<>>
    BY <2>a, <2>b
  <2>2. QED BY <1>5, <2>1 DEF Abstract!Seal, c, Sealed
<1>7. QED BY <1>1, <1>2, <1>5, <1>6 DEF StepOK, Abstract!Next

-----------------------------------------------------------------------------
\* One lemma for every action.

LEMMA Batch ==
    ASSUME NEW S, NEW q \in Batches(S)
    PROVE  q \in Seq(S)
BY DEF Batches

\* A request arrives: it has given nothing, and an MCP decryption is not over.
LEMMA FirstStep ==
    ASSUME IInv, TablesStep, NEW r \in Requests, req[r] = NoRow, NEW new \in Call,
           req' = [req EXCEPT ![r] = new], WellFormed(new), new.out = {},
           new.pc \notin {"reload", "answer"},
           new.pc = "done" /\ new.op = "decrypt" => new.api # "mcp",
           UNCHANGED <<issued, audit>>
    PROVE  IInv' /\ Made' = Made
<1>1. IInv'
  BY QuietStep
<1>2. Out(r) = {} /\ (IF new.op = "encrypt" THEN new.out ELSE {}) = {}
  BY DEF Out
<1>3. Made' = Made \cup {}
  BY <1>2, MakesStep
<1>4. QED BY <1>1, <1>3

LEMMA ArriveStep ==
    ASSUME IInv, NEW r \in Requests, NEW u \in Callers, NEW n \in Names, NEW op \in {"encrypt", "decrypt"},
           NEW api \in {"single", "batch", "mcp"}, NEW items,
           items \in Seq(IF op = "encrypt" THEN Plaintexts \cup {Bad} ELSE Presented \cup {Bad}),
           Arrive(r, u, n, op, api, items)
    PROVE  StepOK
<1>1. PICK status \in {Verdict(u, n, op, items), 500} :
         LET pc == IF status = 0 THEN "work"
                   ELSE IF api = "mcp" /\ op = "decrypt" THEN "audit" ELSE "done"
         IN  req' = [req EXCEPT ![r] = [pc |-> pc, op |-> op, api |-> api, name |-> n,
                                        left |-> IF pc = "work" THEN items ELSE <<>>,
                                        out |-> {}, fault |-> FALSE, status |-> status]]
  BY DEF Arrive
<1> DEFINE pc == IF status = 0 THEN "work"
                 ELSE IF api = "mcp" /\ op = "decrypt" THEN "audit" ELSE "done"
           left == IF pc = "work" THEN items ELSE <<>>
           new == [pc |-> pc, op |-> op, api |-> api, name |-> n, left |-> left,
                   out |-> {}, fault |-> FALSE, status |-> status]
<1>2. status \in Statuses
  BY DEF Verdict, Statuses
<1>3. left \in Seq(IF op = "encrypt" THEN Plaintexts \cup {Bad} ELSE Presented \cup {Bad})
  BY EmptySeq
<1>4. left \in Seq(Plaintexts \cup Presented \cup {Bad})
  <2>1. CASE op = "encrypt"
    BY <2>1, <1>3
  <2>2. CASE op = "decrypt"
    BY <2>2, <1>3
  <2>3. QED BY <2>1, <2>2
<1>5. pc \in {"work", "audit", "done"} /\ (pc = "audit" => op = "decrypt")
         /\ (pc = "done" /\ op = "decrypt" => api # "mcp")
  OBVIOUS
<1> HIDE DEF left, pc
<1>6. new \in Call
  BY <1>2, <1>4, <1>5 DEF Call, Statuses
<1>7. WellFormed(new)
  BY <1>3, <1>5 DEF WellFormed
<1>8. new.pc = pc /\ new.op = op /\ new.api = api /\ new.out = {}
  OBVIOUS
<1>9. req' = [req EXCEPT ![r] = new]
  BY <1>1 DEF left, pc
<1> HIDE DEF new
<1>10. req[r] = NoRow /\ UNCHANGED <<keys, versions, drawn, issued, audit>>
  BY DEF Arrive
<1>11. TablesStep /\ Ring' = Ring
  BY <1>10, SameTables
<1>12. new.pc \notin {"reload", "answer"} /\ (new.pc = "done" /\ new.op = "decrypt" => new.api # "mcp")
  BY <1>5, <1>8
<1>13. IInv' /\ Made' = Made
  BY <1>6, <1>7, <1>8, <1>9, <1>10, <1>11, <1>12, FirstStep
<1>14. QED BY <1>11, <1>13 DEF StepOK

LEMMA RefuseItemStep ==
    ASSUME IInv, NEW r \in Requests, RefuseItem(r)
    PROVE  StepOK
<1>1. IInv' /\ Ring' = Ring /\ Made' = Made \cup {}
  BY ItemStep DEF RefuseItem, At
<1>2. QED BY <1>1 DEF StepOK

LEMMA FailItemStep ==
    ASSUME IInv, NEW r \in Requests, FailItem(r)
    PROVE  StepOK
<1> DEFINE c == req[r]
           rest == Tail(c.left)
           new == [c EXCEPT !.pc = "work", !.left = rest, !.fault = TRUE]
<1>1. c # NoRow /\ c.left # <<>> /\ c.pc \in {"work", "create", "reload"}
  BY DEF FailItem, At, IInv, CallsConsistent, WellFormed
<1>2. req' = [req EXCEPT ![r] = new]
  BY DEF FailItem, IInv, TypeOK
<1>3. c \in Call /\ rest \in Lefts /\ "work" \in Pcs /\ c.out \cup {} = c.out
  BY <1>1, RestOfCall
<1> HIDE DEF rest
<1>4. new \in Call
  BY <1>3, CallShape, Zenon
<1>5. new.pc = "work" /\ new.op = c.op /\ new.left = rest /\ new.out = c.out
  BY <1>3, CallShape, Zenon
<1> HIDE DEF new
<1>6. UNCHANGED <<keys, versions, drawn, issued, audit>>
  BY DEF FailItem
<1>7. new.out = c.out \cup {} /\ new.left = Tail(c.left)
  BY <1>3, <1>5 DEF rest
<1>8. QED BY <1>1, <1>2, <1>4, <1>5, <1>6, <1>7, AfterItem DEF StepOK

LEMMA ReloadStep ==
    ASSUME IInv, NEW r \in Requests, Reload(r)
    PROVE  StepOK
BY CurrentStep DEF Reload, At, IInv, CallsConsistent, WellFormed

LEMMA TransitDecryptStep ==
    ASSUME IInv, NEW r \in Requests, TransitDecrypt(r)
    PROVE  StepOK
<1>1. req[r].op = "decrypt" /\ req[r] # NoRow /\ req[r].pc = "work" /\ req[r].left # <<>>
  BY DEF TransitDecrypt, At
<1>2. Head(req[r].left) \in Presented
  BY <1>1, Items DEF TransitDecrypt, IInv, CallsConsistent, WellFormed
<1>3. Head(req[r].left).cipher.plain \in Plaintexts
  BY <1>2 DEF Presented, Ciphertext
<1>4. QED BY <1>1, <1>3, ItemStep DEF TransitDecrypt, StepOK

\* Only the pc of a call that still works changes, to a step of a first encryption.
LEMMA PcStep ==
    ASSUME IInv, TablesStep, NEW r \in Requests, req[r] # NoRow, req[r].op = "encrypt",
           req[r].pc \notin {"answer", "done"}, req[r].left # <<>>, Head(req[r].left) # Bad,
           NEW pc \in {"create", "reload"}, req' = [req EXCEPT ![r].pc = pc],
           pc = "reload" => keys'[req[r].name] # NoRow,
           UNCHANGED <<issued, audit>>
    PROVE  IInv' /\ Made' = Made
<1> DEFINE c == req[r]
           new == [c EXCEPT !.pc = pc]
<1>1. c \in Call /\ WellFormed(c) /\ pc \in Pcs
  BY DEF IInv, TypeOK, CallsConsistent, Pcs
<1>2. req' = [req EXCEPT ![r] = new]
  BY DEF IInv, TypeOK
<1>3. new \in Call
  BY <1>1, CallShape, Zenon
<1>4. new.pc = pc /\ new.op = c.op /\ new.left = c.left /\ new.out = c.out /\ new.name = c.name
  BY <1>1, CallShape, Zenon
<1> HIDE DEF new
<1>5. WellFormed(new)
  BY <1>1, <1>4 DEF WellFormed
<1>6. \A d \in new.out : d \in Made
  BY <1>4, SoFarMade
<1>7. Made' = Made
  BY <1>2, <1>3, <1>4, MakesNothing
<1>8. QED BY <1>2, <1>3, <1>4, <1>5, <1>6, <1>7, QuietStep

LEMMA TransitEncryptStep ==
    ASSUME IInv, NEW r \in Requests, TransitEncrypt(r)
    PROVE  StepOK
<1>1. CASE keys[req[r].name] # NoRow
  BY <1>1, CurrentStep DEF TransitEncrypt, At
<1>2. CASE keys[req[r].name] = NoRow
  <2>1. req' = [req EXCEPT ![r].pc = "create"]
    BY <1>2 DEF TransitEncrypt
  <2>2. TablesStep /\ Ring' = Ring
    BY SameTables DEF TransitEncrypt
  <2>3. QED BY <2>1, <2>2, PcStep DEF TransitEncrypt, At, StepOK
<1>3. QED BY <1>1, <1>2

LEMMA CreateLazilyStep ==
    ASSUME IInv, NEW r \in Requests, CreateLazily(r)
    PROVE  StepOK
<1> DEFINE n == req[r].name
<1>1. n \in Names /\ TablesOK /\ RingWhole /\ drawn' = drawn + 1
  BY DEF CreateLazily, At, IInv, TypeOK, Call, TablesOK
<1>2. TablesStep /\ keys'[n] # NoRow /\ (Made' = Made => Abstract!Extend(n) \/ Ring' = Ring)
  <2>1. CASE keys[n] = NoRow
    <3>1. InsertRows(n, drawn + 1, Operations)
      BY <2>1 DEF CreateLazily
    <3>2. QED BY <1>1, <2>1, <3>1, TablesInserted
  <2>2. CASE keys[n] # NoRow
    BY <1>1, <2>2, TablesKept DEF CreateLazily
  <2>3. QED BY <2>1, <2>2
<1>3. req[r] # NoRow /\ req[r].pc = "create" /\ req[r].op = "encrypt" /\ req[r].left # <<>> /\ Head(req[r].left) # Bad
  BY DEF CreateLazily, At, IInv, CallsConsistent, WellFormed
<1>4. IInv' /\ Made' = Made
  BY <1>2, <1>3, PcStep DEF CreateLazily
<1>5. QED BY <1>1, <1>2, <1>4 DEF StepOK, Abstract!Next

LEMMA FinishStep ==
    ASSUME IInv, NEW r \in Requests, Finish(r)
    PROVE  StepOK
<1> DEFINE c == req[r]
           pc == IF NeedsAudit(r) THEN "audit" ELSE "answer"
           status == BatchStatus(r)
           new == [c EXCEPT !.pc = pc, !.status = status]
<1>1. c \in Call /\ c # NoRow /\ WellFormed(c) /\ c.pc = "work"
  BY DEF IInv, TypeOK, CallsConsistent, Finish, At
<1>2. req' = [req EXCEPT ![r] = new] /\ UNCHANGED <<keys, versions, drawn, issued, audit>>
  BY DEF Finish, IInv, TypeOK
<1>3. pc \in Pcs /\ status \in Statuses
  BY DEF Pcs, Statuses, BatchStatus
<1>4. IF c.op = "decrypt" /\ (c.api = "mcp" \/ c.out # {}) THEN pc = "audit" ELSE pc = "answer"
  BY DEF NeedsAudit
<1> HIDE DEF pc, status
<1>5. new \in Call
  BY <1>1, <1>3, CallShape, Zenon
<1>6. new.pc = pc /\ new.op = c.op /\ new.api = c.api /\ new.left = c.left /\ new.out = c.out
  BY <1>1, CallShape, Zenon
<1> HIDE DEF new
<1>7. WellFormed(new)
  BY <1>1, <1>4, <1>6 DEF WellFormed
<1>8. new.op = "encrypt" => \A d \in new.out : d \in Made
  BY <1>1, <1>6, SoFarMade
<1>9. new.pc # "reload" /\ (new.op = "decrypt" /\ new.pc \in {"answer", "done"} => new.out = {} /\ new.api # "mcp")
  BY <1>4, <1>6
<1>10. Made' = Made
  BY <1>1, <1>2, <1>5, <1>6, MakesNothing
<1>11. QED BY <1>1, <1>2, <1>5, <1>7, <1>8, <1>9, <1>10, SameTables, QuietStep DEF StepOK

\* A refusal ends the call with nothing given.
LEMMA RefuseStep ==
    ASSUME IInv, TablesStep, NEW r \in Requests, NEW status \in Statuses, req[r] # NoRow,
           req[r].pc \in {"audit", "rotate", "manage"}, req[r].pc = "audit" => status = 503,
           Refuse(r, status), UNCHANGED <<issued, audit>>
    PROVE  IInv' /\ Made' = Made
<1> DEFINE c == req[r]
           none == {}
           new == [c EXCEPT !.pc = "done", !.status = status, !.out = none]
<1>1. c \in Call /\ WellFormed(c) /\ "done" \in Pcs /\ none \in Outs
  BY DEF IInv, TypeOK, CallsConsistent, Pcs, Outs
<1>2. req' = [req EXCEPT ![r] = new]
  BY Zenon DEF Refuse
<1> HIDE DEF none
<1>3. new \in Call
  BY <1>1, CallShape, Zenon
<1>4. new.pc = "done" /\ new.op = c.op /\ new.left = c.left /\ new.out = none /\ new.status = status
  BY <1>1, CallShape, Zenon
<1> HIDE DEF new
<1>5. WellFormed(new)
  BY <1>1, <1>4 DEF WellFormed, none
<1>6. new.op = "decrypt" => new.status = 503
  BY <1>1, <1>4 DEF WellFormed
<1>7. new.pc # "reload" /\ new.out = {} /\ \A d \in new.out : d \in Made
  BY <1>4 DEF none
<1>8. Made' = Made
  <2>1. c.op # "encrypt"
    BY <1>1 DEF WellFormed
  <2>2. QED BY <1>2, <1>3, <1>4, <2>1, MakesNothing
<1>9. QED BY <1>2, <1>3, <1>4, <1>5, <1>6, <1>7, <1>8, QuietStep

LEMMA RecordStep ==
    ASSUME IInv, NEW r \in Requests, Record(r)
    PROVE  StepOK
<1> DEFINE c == req[r]
           b == c.out # {}
           new == [c EXCEPT !.pc = "answer"]
<1>1. c \in Call /\ c # NoRow /\ WellFormed(c) /\ c.pc = "audit" /\ c.op = "decrypt"
  BY DEF IInv, TypeOK, CallsConsistent, Record, At, WellFormed
<1>2. TablesStep /\ Ring' = Ring /\ UNCHANGED issued
  BY SameTables DEF Record
<1>3. CASE Refuse(r, 503) /\ UNCHANGED audit
  <2>1. 503 \in Statuses
    BY DEF Statuses
  <2>2. QED BY <1>1, <1>2, <1>3, <2>1, RefuseStep DEF StepOK
<1>4. CASE audit' = audit \cup {[request |-> r, success |-> b]} /\ req' = [req EXCEPT ![r].pc = "answer"]
  <2>1. req' = [req EXCEPT ![r] = new] /\ "answer" \in Pcs
    BY <1>4 DEF IInv, TypeOK, Pcs
  <2>2. new \in Call
    BY <1>1, <2>1, CallShape, Zenon
  <2>3. new.pc = "answer" /\ new.op = "decrypt" /\ new.left = c.left /\ new.out = c.out /\ new.api = c.api
    BY <1>1, CallShape, Zenon
  <2> HIDE DEF new
  <2>4. WellFormed(new)
    BY <1>1, <2>3 DEF WellFormed
  <2>5. \A a \in audit : a.request # r
    BY <1>1 DEF IInv, CallsConsistent
  <2>6. req'[r] = new
    BY <2>1 DEF IInv, TypeOK
  <2>7. DisclosureOK(r, req[r])'
    <3>1. \A a \in audit' : a.request = r => a.success = b
      BY <1>4, <2>5
    <3>2. [request |-> r, success |-> b] \in audit' /\ b \in BOOLEAN
      BY <1>4
    <3>3. [request |-> r, success |-> TRUE] \in audit' <=> b
      BY <3>1, <3>2
    <3>4. \E a \in audit' : a.request = r
      BY <3>2
    <3>5. QED BY <2>3, <2>6, <3>3, <3>4 DEF DisclosureOK
  <2>8. \E d \in BOOLEAN : audit' = audit \cup {[request |-> r, success |-> d]}
    BY <1>4
  <2>9. issued' \subseteq Made
    BY <1>2 DEF Made
  <2>10. \A a \in audit' : a.request = r => new.pc \in {"answer", "done"}
    BY <2>3
  <2>11. Made' = Made
    BY <1>1, <1>2, <2>1, <2>2, <2>3, MakesNothing
  <2>12. IInv'
    BY <1>2, <2>1, <2>2, <2>3, <2>4, <2>7, <2>8, <2>9, <2>10, CallStep
  <2>13. QED BY <1>2, <2>11, <2>12 DEF StepOK
<1>5. QED BY <1>3, <1>4 DEF Record

LEMMA AnswerStep ==
    ASSUME IInv, NEW r \in Requests, Answer(r)
    PROVE  StepOK
<1> DEFINE c == req[r]
           new == [c EXCEPT !.pc = "done"]
<1>1. c \in Call /\ c # NoRow /\ WellFormed(c) /\ c.pc = "answer" /\ "done" \in Pcs
  BY DEF IInv, TypeOK, CallsConsistent, Answer, At, Pcs
<1>2. req' = [req EXCEPT ![r] = new]
  BY DEF Answer, IInv, TypeOK
<1>3. TablesStep /\ Ring' = Ring /\ audit' = audit
  BY SameTables DEF Answer
<1>4. issued' \subseteq Made
  <2>1. issued' = issued \cup (IF c.op = "encrypt" THEN c.out ELSE {})
    BY DEF Answer
  <2>2. c.op = "encrypt" => c.out \subseteq Made
    BY <1>1, SoFarMade
  <2>3. issued \subseteq Made
    BY DEF Made
  <2>4. QED BY <2>1, <2>2, <2>3
<1>5. new \in Call
  BY <1>1, CallShape, Zenon
<1>6. new.pc = "done" /\ new.op = c.op /\ new.left = c.left /\ new.out = c.out /\ new.api = c.api
  BY <1>1, CallShape, Zenon
<1> HIDE DEF new
<1>7. WellFormed(new)
  BY <1>1, <1>6 DEF WellFormed
<1>8. new.op = "encrypt" => \A d \in new.out : d \in Made
  BY <1>1, <1>6, SoFarMade
<1>9. DisclosureOK(r, req[r])'
  <2>1. req'[r] = new
    BY <1>2 DEF IInv, TypeOK
  <2>2. DisclosureOK(r, c)
    BY <1>1 DEF IInv, DisclosureAudited
  <2>3. QED BY <1>1, <1>3, <1>6, <2>1, <2>2 DEF DisclosureOK
<1>10. new.pc \in {"answer", "done"} /\ new.pc # "reload"
  BY <1>6
<1>11. Made' = Made \cup {}
  <2>1. issued' = issued \cup Out(r)
    BY <1>1 DEF Answer, Out
  <2>2. QED BY <1>1, <1>2, <1>5, <1>6, <2>1, MakesStep DEF Out
<1>12. IInv'
  BY <1>2, <1>3, <1>4, <1>5, <1>7, <1>8, <1>9, <1>10, CallStep
<1>13. QED BY <1>3, <1>11, <1>12 DEF StepOK

-----------------------------------------------------------------------------
LEMMA PermissionsClean ==
    ASSUME NEW input \in Inputs
    PROVE  \A clean \in NormalizePermissions(input) \cup NewPermissions(input) : clean \in SUBSET Operations
BY TransitAssumption DEF NormalizePermissions, NewPermissions, Operations

\* A request of an administrator or a manager arrives.
LEMMA NewCallStep ==
    ASSUME IInv, TablesStep, NEW r \in Requests, req[r] = NoRow, NEW n \in Names,
           NEW op \in {"create", "rotate", "manage"}, NEW pc \in {"done", op}, pc # "create",
           NEW status \in Statuses, NewCall(r, n, op, pc, status), UNCHANGED <<issued, audit>>
    PROVE  IInv' /\ Made' = Made
<1> DEFINE new == [pc |-> pc, op |-> op, api |-> "admin", name |-> n,
                   left |-> <<>>, out |-> {}, fault |-> FALSE, status |-> status]
<1>1. req' = [req EXCEPT ![r] = new]
  BY DEF NewCall
<1>2. <<>> \in Seq(Plaintexts \cup Presented \cup {Bad})
  BY EmptySeq
<1>3. new \in Call
  BY <1>2 DEF Call, Statuses
<1>4. WellFormed(new) /\ new.out = {} /\ new.pc \notin {"reload", "answer"} /\ new.op # "decrypt"
  BY DEF WellFormed
<1> HIDE DEF new
<1>5. QED BY <1>1, <1>3, <1>4, FirstStep

LEMMA CreateKeyStep ==
    ASSUME IInv, NEW r \in Requests, NEW u \in Callers, NEW n \in Names, NEW input \in Inputs,
           CreateKey(r, u, n, input)
    PROVE  StepOK
<1>1. {200, 409, 500} \subseteq Statuses
  BY DEF Statuses
<1>2. TablesOK /\ RingWhole /\ req[r] = NoRow /\ UNCHANGED <<issued, audit>>
  BY DEF IInv, TypeOK, TablesOK, CreateKey
<1>3. CASE /\ keys[n] = NoRow
           /\ \E status \in {200, 500} : NewCall(r, n, "create", "done", status)
           /\ drawn' = drawn + 1
           /\ \E clean \in NewPermissions(input) : InsertRows(n, drawn + 1, clean)
  <2>1. TablesStep /\ (Made' = Made => Abstract!Extend(n))
    BY <1>2, <1>3, PermissionsClean, TablesInserted
  <2>2. IInv' /\ Made' = Made
    BY <1>1, <1>2, <1>3, <2>1, NewCallStep
  <2>3. QED BY <2>1, <2>2 DEF StepOK, Abstract!Next
<1>4. CASE /\ NewCall(r, n, "create", "done", IF keys[n] = NoRow THEN 500 ELSE 409)
           /\ UNCHANGED <<keys, versions, drawn>>
  BY <1>1, <1>2, <1>4, SameTables, NewCallStep DEF StepOK
<1>5. QED BY <1>3, <1>4 DEF CreateKey

LEMMA StartManagementStep ==
    ASSUME IInv, NEW r \in Requests, NEW u \in Callers, NEW n \in Names, NEW op \in {"rotate", "manage"},
           StartManagement(r, u, n, op)
    PROVE  StepOK
<1>1. TablesStep /\ Ring' = Ring /\ {0, 403} \subseteq Statuses
  BY SameTables DEF StartManagement, Statuses
<1>2. QED BY <1>1, NewCallStep DEF StartManagement, StepOK

\* A request of an administrator or a manager has committed.
LEMMA ManagedStep ==
    ASSUME IInv, TablesStep, NEW r \in Requests, req[r] # NoRow, req[r].pc \in {"rotate", "manage"},
           req' = [req EXCEPT ![r].pc = "done", ![r].status = 200], UNCHANGED <<issued, audit>>
    PROVE  IInv' /\ Made' = Made
<1> DEFINE c == req[r]
           new == [c EXCEPT !.pc = "done", !.status = 200]
<1>1. c \in Call /\ WellFormed(c) /\ "done" \in Pcs /\ 200 \in Statuses
  BY DEF IInv, TypeOK, CallsConsistent, Pcs, Statuses
<1>2. req' = [req EXCEPT ![r] = new]
  BY DEF IInv, TypeOK
<1>3. new \in Call
  BY <1>1, CallShape, Zenon
<1>4. new.pc = "done" /\ new.op = c.op
  BY <1>1, CallShape, Zenon
<1> HIDE DEF new
<1>5. c.op \in {"rotate", "manage"}
  BY <1>1 DEF WellFormed
<1>6. WellFormed(new)
  BY <1>4, <1>5 DEF WellFormed
<1>7. Made' = Made
  BY <1>2, <1>3, <1>4, <1>5, MakesNothing
<1>8. QED BY <1>2, <1>3, <1>4, <1>5, <1>6, <1>7, QuietStep

LEMMA RotateStep ==
    ASSUME IInv, NEW r \in Requests, RotateTransitKey(r)
    PROVE  StepOK
<1> DEFINE n == req[r].name
           v == keys[n].version + 1
<1>1. n \in Names /\ req[r] # NoRow /\ req[r].pc = "rotate" /\ TablesOK /\ RingWhole
  BY DEF RotateTransitKey, At, IInv, TypeOK, Call, TablesOK
<1>2. UNCHANGED <<issued, audit>> /\ {404, 500} \subseteq Statuses
  BY DEF RotateTransitKey, Statuses
<1>3. CASE /\ keys[n] # NoRow /\ v <= MaxVersion
           /\ drawn' = drawn + 1
           /\ versions' = [versions EXCEPT ![n][v] = drawn + 1]
           /\ keys' = [keys EXCEPT ![n].version = v, ![n].key = drawn + 1]
           /\ req' = [req EXCEPT ![r].pc = "done", ![r].status = 200]
  <2> DEFINE k == drawn + 1
             row == [keys[n] EXCEPT !.version = v, !.key = k]
  <2>1. keys[n] \in KeyRow
    BY <1>1, <1>3 DEF TablesOK
  <2>2. v \in Versions
    BY <1>3, <2>1 DEF KeyRow, Versions
  <2>3. k \in Nat \ {0}
    BY <1>1 DEF TablesOK
  <2>4. keys' = [keys EXCEPT ![n] = row]
    <3>1. keys \in [Names -> KeyRow \cup {NoRow}]
      BY <1>1 DEF TablesOK
    <3>2. keys' = [keys EXCEPT ![n].version = v, ![n].key = drawn + 1]
      BY <1>3
    <3>3. QED BY <3>1, <3>2, Zenon
  <2>5. drawn' = k /\ versions' = [versions EXCEPT ![n][v] = k]
    BY <1>3
  <2> HIDE DEF v, k
  <2>6. row \in KeyRow
    BY <2>1, <2>2, <2>3, Zenon DEF KeyRow
  <2>7. row.version = v /\ row.key = k
    BY <2>1, Zenon DEF KeyRow
  <2> HIDE DEF row
  <2>8. keys[n] # NoRow /\ keys[n].version + 1 <= MaxVersion
    BY <1>3 DEF v
  <2>9. TablesStep /\ (Made' = Made => Abstract!Extend(n))
    BY <1>1, <2>4, <2>5, <2>6, <2>7, <2>8, TablesRotated DEF v, k
  <2>10. req' = [req EXCEPT ![r].pc = "done", ![r].status = 200]
    BY <1>3
  <2>11. IInv' /\ Made' = Made
    BY <1>1, <1>2, <2>9, <2>10, ManagedStep
  <2>12. QED BY <1>1, <2>9, <2>11 DEF StepOK, Abstract!Next
<1>4. CASE Refuse(r, IF keys[n] = NoRow THEN 404 ELSE 500) /\ UNCHANGED <<keys, versions, drawn>>
  BY <1>1, <1>2, <1>4, SameTables, RefuseStep DEF StepOK
<1>5. QED BY <1>3, <1>4 DEF RotateTransitKey

LEMMA UpdatePermissionsStep ==
    ASSUME IInv, NEW r \in Requests, NEW input \in Inputs, UpdateTransitPermissions(r, input)
    PROVE  StepOK
<1> DEFINE n == req[r].name
<1>1. n \in Names /\ req[r] # NoRow /\ req[r].pc = "manage" /\ TablesOK /\ RingWhole
  BY DEF UpdateTransitPermissions, At, IInv, TypeOK, Call, TablesOK
<1>2. UNCHANGED <<versions, drawn, issued, audit>> /\ {404, 500} \subseteq Statuses
  BY DEF UpdateTransitPermissions, Statuses
<1>3. CASE /\ keys[n] # NoRow
           /\ \E clean \in NormalizePermissions(input) : keys' = [keys EXCEPT ![n].permissions = clean]
           /\ req' = [req EXCEPT ![r].pc = "done", ![r].status = 200]
  <2>1. TablesStep /\ Ring' = Ring
    <3>1. PICK clean \in NormalizePermissions(input) : keys' = [keys EXCEPT ![n].permissions = clean]
      BY <1>3
    <3>2. clean \in SUBSET Operations
      BY PermissionsClean
    <3> HIDE DEF n
    <3>3. QED BY <1>1, <1>2, <1>3, <3>1, <3>2, TablesPermitted
  <2>2. req' = [req EXCEPT ![r].pc = "done", ![r].status = 200]
    BY <1>3
  <2>3. QED BY <1>1, <1>2, <2>1, <2>2, ManagedStep DEF StepOK
<1>4. CASE Refuse(r, IF keys[n] = NoRow THEN 404 ELSE 500) /\ UNCHANGED keys
  BY <1>1, <1>2, <1>4, SameTables, RefuseStep DEF StepOK
<1>5. QED BY <1>3, <1>4 DEF UpdateTransitPermissions

-----------------------------------------------------------------------------
LEMMA InvInit == Init => IInv
<1> SUFFICES ASSUME Init PROVE IInv
  OBVIOUS
<1>1. TypeOK
  BY DEF Init, TypeOK
<1>2. RingWhole
  BY DEF Init, RingWhole
<1>3. Made = {}
  BY DEF Init, Made, Out
<1>4. QED BY <1>1, <1>2, <1>3 DEF Init, IInv, CallsConsistent, CiphertextsOpen, DisclosureAudited

LEMMA InvStutter == IInv /\ UNCHANGED vars => IInv'
BY DEF vars, IInv, TypeOK, RingWhole, CallsConsistent, WellFormed, CiphertextsOpen, Made, Out, CanOpen, Opens,
       DisclosureAudited, DisclosureOK

LEMMA InvNext ==
    ASSUME IInv, Next
    PROVE  StepOK
<1>1. ASSUME NEW r \in Requests, NEW u \in Callers, NEW n \in Names, NEW api \in {"single", "batch", "mcp"},
             NEW items \in Batches(Plaintexts \cup {Bad}), Arrive(r, u, n, "encrypt", api, items)
      PROVE  StepOK
  BY <1>1, Batch, ArriveStep
<1>2. ASSUME NEW r \in Requests, NEW u \in Callers, NEW n \in Names, NEW api \in {"single", "batch", "mcp"},
             NEW items \in Batches(PresentedNow \cup {Bad}), Arrive(r, u, n, "decrypt", api, items)
      PROVE  StepOK
  <2>1. items \in Seq(PresentedNow \cup {Bad})
    BY Batch
  <2>2. PresentedNow \cup {Bad} \subseteq Presented \cup {Bad}
    BY DEF IInv, TypeOK, PresentedNow, Presented
  <2>3. items \in Seq(Presented \cup {Bad})
    BY <2>1, <2>2
  <2>4. QED BY <1>2, <2>3, ArriveStep
<1>3. ASSUME NEW r \in Requests, Step(r) PROVE StepOK
  BY <1>3, RefuseItemStep, FailItemStep, TransitEncryptStep, CreateLazilyStep, ReloadStep, TransitDecryptStep,
     FinishStep, RecordStep, AnswerStep, RotateStep, UpdatePermissionsStep DEF Step
<1>4. QED BY <1>1, <1>2, <1>3, CreateKeyStep, StartManagementStep DEF Next

\* The inductive invariant holds in every reachable state: the rows of a key are
\* exactly its versions, no key is drawn twice, every call is as its pc says, and
\* what was made opens and what was disclosed is on record.
THEOREM TransitInvariance == Spec => []IInv
<1>1. IInv /\ [Next]_vars => IInv'
  BY InvNext, InvStutter DEF StepOK
<1>2. QED BY <1>1, InvInit, PTL DEF Spec

\* Every ciphertext the server made opens for ever, whichever of the racing first
\* encryptions stored the key and however often it was rotated since.
THEOREM CiphertextsOpenAlways == Spec => []CiphertextsOpen
<1>1. IInv => CiphertextsOpen
  BY DEF IInv
<1>2. QED BY <1>1, TransitInvariance, PTL

\* No plaintext leaves before its audit row is stored, a success row is about a call
\* that gave something, and every decryption over MCP is on record.
THEOREM DisclosuresAudited == Spec => []DisclosureAudited
<1>1. IInv => DisclosureAudited
  BY DEF IInv
<1>2. QED BY <1>1, TransitInvariance, PTL

-----------------------------------------------------------------------------
\* Permissions.

\* A step that leaves the permissions of every key that is there as they are.
LEMMA SamePermissions ==
    ASSUME \A n \in Names : keys[n] # NoRow => keys'[n] # NoRow /\ keys'[n].permissions = keys[n].permissions
    PROVE  PermissionsKept
BY DEF PermissionsKept

LEMMA PermissionsNext ==
    ASSUME IInv, Next
    PROVE  PermissionsKept
<1>1. CASE UNCHANGED keys
  BY <1>1, SamePermissions
<1>2. ASSUME NEW n \in Names, NEW k, NEW P, keys[n] = NoRow, InsertRows(n, k, P)
      PROVE  PermissionsKept
  <2>1. \A m \in Names : keys[m] # NoRow => keys'[m] = keys[m]
    BY <1>2 DEF InsertRows, IInv, TypeOK
  <2>2. QED BY <2>1, SamePermissions
<1>3. ASSUME NEW r \in Requests, RotateTransitKey(r) PROVE PermissionsKept
  <2> DEFINE n == req[r].name
             v == keys[n].version + 1
             k == drawn + 1
             row == [keys[n] EXCEPT !.version = v, !.key = k]
  <2>1. CASE /\ keys[n] # NoRow /\ v <= MaxVersion
             /\ keys' = [keys EXCEPT ![n].version = v, ![n].key = k]
    <3>1. keys \in [Names -> KeyRow \cup {NoRow}]
      BY DEF IInv, TypeOK
    <3>2. n \in Names
      BY <1>3 DEF RotateTransitKey, At, IInv, TypeOK, Call
    <3>3. keys[n] \in KeyRow /\ v \in Versions /\ k \in Nat \ {0}
      BY <2>1, <3>1, <3>2 DEF KeyRow, Versions, IInv, TypeOK
    <3>4. keys' = [keys EXCEPT ![n] = row]
      BY <2>1, <3>1, Zenon
    <3> HIDE DEF v, k
    <3>5. row.permissions = keys[n].permissions /\ row.version = v
      BY <3>3, Zenon DEF KeyRow
    <3>6. row # NoRow
      <4>1. row \in KeyRow
        BY <3>3, Zenon DEF KeyRow
      <4>2. QED BY <4>1, TransitNulls
    <3> HIDE DEF row
    <3>7. \A m \in Names : keys'[m] = IF m = n THEN row ELSE keys[m]
      BY <3>1, <3>4
    <3>8. QED BY <3>5, <3>6, <3>7, SamePermissions
  <2>2. QED BY <1>1, <1>3, <2>1 DEF RotateTransitKey
<1>4. ASSUME NEW r \in Requests, NEW input \in Inputs, UpdateTransitPermissions(r, input) PROVE PermissionsKept
  <2> DEFINE n == req[r].name
  <2>1. ASSUME keys[n] # NoRow, NEW clean \in NormalizePermissions(input),
               keys' = [keys EXCEPT ![n].permissions = clean],
               req' = [req EXCEPT ![r].pc = "done", ![r].status = 200]
        PROVE  PermissionsKept
    <3>1. At(r, "manage") /\ n \in Names
      BY <1>4 DEF UpdateTransitPermissions, At, IInv, TypeOK, Call
    <3>2. keys'[n] # NoRow
      <4>1. keys[n] \in KeyRow /\ keys \in [Names -> KeyRow \cup {NoRow}] /\ clean \in SUBSET Operations
        BY <2>1, <3>1, PermissionsClean DEF IInv, TypeOK
      <4> HIDE DEF n
      <4>2. keys'[n] \in KeyRow
        BY <2>1, <3>1, <4>1 DEF KeyRow
      <4>3. QED BY <4>2, TransitNulls
    <3>3. \A m \in Names : m # n => keys'[m] = keys[m]
      BY <2>1 DEF IInv, TypeOK
    <3>4. req'[r].pc = "done"
      <4>1. req[r] \in Call /\ req \in [Requests -> Call \cup {NoRow}]
        BY <3>1 DEF At, IInv, TypeOK
      <4>2. QED BY <2>1, <4>1, CallShape, Zenon
    <3>5. QED BY <3>1, <3>2, <3>3, <3>4 DEF PermissionsKept
  <2>2. QED BY <1>1, <1>4, <2>1 DEF UpdateTransitPermissions
<1>5. ASSUME NEW r \in Requests, CreateLazily(r) PROVE PermissionsKept
  <2>1. req[r].name \in Names
    BY <1>5 DEF CreateLazily, At, IInv, TypeOK, Call
  <2>2. QED BY <1>1, <1>2, <1>5, <2>1 DEF CreateLazily
<1>6. ASSUME NEW r \in Requests, Step(r) PROVE PermissionsKept
  BY <1>1, <1>3, <1>4, <1>5, <1>6
     DEF Step, RefuseItem, FailItem, TransitEncrypt, Reload, TransitDecrypt, Finish, Record, Answer
<1>7. ASSUME NEW r \in Requests, NEW u \in Callers, NEW n \in Names, NEW input \in Inputs, CreateKey(r, u, n, input)
      PROVE  PermissionsKept
  BY <1>1, <1>2, <1>7 DEF CreateKey
<1>8. QED BY <1>1, <1>6, <1>7 DEF Next, Arrive, StartManagement

\* Neither a rotation nor a first encryption that lost the race against an
\* administrator's creation touches the permissions the administrator set.
THEOREM PermissionsOnlyManaged == Spec => PermissionsStable
<1>1. IInv /\ [Next]_vars => [PermissionsKept]_vars
  BY PermissionsNext
<1>2. QED BY <1>1, TransitInvariance, PTL DEF Spec, PermissionsStable

-----------------------------------------------------------------------------
\* The transit engine implements the ring of keys that only grows: whatever the
\* requests race for, a name's keys are appended one at a time, each of them fresh,
\* and items are sealed with the newest key of the ring as it is at that moment.
THEOREM KeyRingImplemented == Spec => ImplementsKeyRing
<1>1. Init => Abstract!Init
  <2> SUFFICES ASSUME Init PROVE Abstract!Init
    OBVIOUS
  <2>1. Made = {}
    BY DEF Init, Made, Out
  <2>2. Ring = [n \in Names |-> <<>>]
    BY DEF Init, Ring
  <2>3. QED BY <2>1, <2>2 DEF Abstract!Init
<1>2. IInv /\ [Next]_vars => [Abstract!Next]_(Abstract!vars)
  <2>1. CASE Next
    BY <2>1, InvNext DEF StepOK, Abstract!vars
  <2>2. CASE UNCHANGED vars
    BY <2>2 DEF vars, Ring, Made, Out, Abstract!vars
  <2>3. QED BY <2>1, <2>2
<1>3. QED BY <1>1, <1>2, TransitInvariance, PTL DEF Spec, ImplementsKeyRing, Abstract!Spec
=============================================================================
