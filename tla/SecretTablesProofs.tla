------------------------- MODULE SecretTablesProofs -------------------------
(***************************************************************************)
(* Every statement of SecretTables preserves TablesInv, for any number of  *)
(* accounts, paths, ids and versions.  The modules that compose the        *)
(* statements into handlers use these lemmas for their own theorems.       *)
(***************************************************************************)
EXTENDS SecretTables, TLAPS

\* The invariant of the tables implies that live versions decrypt.
LEMMA TablesReadable ==
    ASSUME TablesInv PROVE LiveReadable
<1> SUFFICES ASSUME NEW p \in Paths, NEW v \in Versions, secrets[p] # NoSecret,
                    v <= secrets[p].current, ~secret_versions[secrets[p].id][v].destroyed
             PROVE  Decrypts(secrets[p].id, v)
  BY DEF LiveReadable
<1> DEFINE row == secret_versions[secrets[p].id][v]
<1>1. secrets[p].id \in Ids
  BY DEF TablesInv, TablesTypeOK, SecretRow
<1>2. row \in VersionRow
  BY <1>1 DEF TablesInv, TablesTypeOK, HistoryComplete
<1>3. row.owner \in Users /\ row.keyv \in KeyVersions
  BY <1>2 DEF VersionRow
<1>4. row.keyv <= personal_key_version[row.owner] /\ row.aad = <<secrets[p].id, v>> /\ row.data \in Data
  BY DEF TablesInv, Sealed
<1>5. QED
  BY <1>3, <1>4 DEF TablesInv, KeysKept, Decrypts

\* The initial tables satisfy the invariant.
LEMMA TablesInvInit ==
    ASSUME TablesInit PROVE TablesInv
<1>1. TablesTypeOK
  <2>1. NewUserKey \in KeyRow
    BY DEF NewUserKey, KeyRow
  <2>2. 1 \in KeyVersions
    BY BoundsAssumption DEF KeyVersions
  <2>3. user_keys \in [Users -> [KeyVersions -> KeyRow \cup {NoKey}]]
    <3>1. ASSUME NEW u \in Users
          PROVE  [k \in KeyVersions |-> IF k = 1 THEN NewUserKey ELSE NoKey]
                     \in [KeyVersions -> KeyRow \cup {NoKey}]
      BY <2>1
    <3>2. QED
      BY <3>1 DEF TablesInit
  <2>4. secrets \in [Paths -> SecretRow \cup {NoSecret}] /\ personal_key_version \in [Users -> KeyVersions]
    BY <2>2 DEF TablesInit
  <2>5. secret_versions \in [Ids -> [Versions -> VersionRow \cup {NoVersion}]] /\ issued \subseteq Ids
    BY DEF TablesInit
  <2>6. QED
    BY <2>3, <2>4, <2>5 DEF TablesTypeOK
<1>2. KeysKept
  <2>1. NewUserKey # NoKey /\ NewUserKey.decrypt
    <3>1. NewUserKey \in KeyRow /\ NewUserKey.decrypt
      BY DEF NewUserKey, KeyRow
    <3>2. QED
      BY <3>1, NullAssumption
  <2>2. QED
    BY <2>1, BoundsAssumption DEF TablesInit, KeysKept, KeyVersions
<1>3. HistoryComplete /\ Sealed /\ IdsDrawn
  BY DEF TablesInit, HistoryComplete, Sealed, IdsDrawn
<1>4. QED
  BY <1>1, <1>2, <1>3 DEF TablesInv

\* The writes of a transaction keep the tables well typed.
LEMMA PutTyped ==
    ASSUME TablesTypeOK, NEW p \in Paths, NEW i \in Ids, NEW u \in Users, NEW k \in KeyVersions,
           NEW d \in Data, NEW attrs \in Labels, NEW m \in Labels,
           DrawId(p, i), InsertSecretVersion(p, PutRow(p, i, attrs), u, k, d, m),
           UNCHANGED <<user_keys, personal_key_version>>
    PROVE  TablesTypeOK' /\ PutRow(p, i, attrs) \in SecretRow
<1> DEFINE row == PutRow(p, i, attrs)
           v == row.current + 1
           new == [data |-> d, aad |-> <<row.id, v>>, owner |-> u, keyv |-> k,
                   meta |-> m, deletion |-> FALSE, destroyed |-> FALSE]
<1>1. row \in SecretRow
  <2>1. CASE secrets[p] = NoSecret
    BY <2>1, BoundsAssumption DEF PutRow, SecretRow
  <2>2. CASE secrets[p] # NoSecret
    <3>1. secrets[p] \in SecretRow
      BY <2>2 DEF TablesTypeOK
    <3>2. QED
      BY <2>2, <3>1 DEF PutRow, SecretRow
  <2>3. QED
    BY <2>1, <2>2
<1>2. v \in Versions
  BY DEF InsertSecretVersion
<1>3. new \in VersionRow
  BY <1>1, <1>2 DEF VersionRow, SecretRow
<1>4. secret_versions' \in [Ids -> [Versions -> VersionRow \cup {NoVersion}]]
  <2>1. row.id \in Ids
    BY <1>1 DEF SecretRow
  <2>2. secret_versions' = [secret_versions EXCEPT ![row.id][v] = new]
    BY DEF InsertSecretVersion
  <2> HIDE DEF row, v, new
  <2>3. QED
    BY <1>2, <1>3, <2>1, <2>2 DEF TablesTypeOK
<1>5. secrets' \in [Paths -> SecretRow \cup {NoSecret}]
  <2>1. secrets' = [secrets EXCEPT ![p] = [row EXCEPT !.current = v]]
    BY DEF InsertSecretVersion
  <2>2. [row EXCEPT !.current = v] \in SecretRow
    <3> HIDE DEF row, v
    <3>1. QED BY <1>1, <1>2 DEF SecretRow, Versions
  <2> HIDE DEF row, v
  <2>3. QED
    BY <2>1, <2>2 DEF TablesTypeOK
<1>6. issued' \subseteq Ids
  BY DEF DrawId, TablesTypeOK
<1>7. QED
  BY <1>1, <1>4, <1>5, <1>6 DEF TablesTypeOK

\* The metadata copied by a /v1 write is a label: the current version exists.
LEMMA CurrentMetaTyped ==
    ASSUME TablesInv, NEW p \in Paths
    PROVE  CurrentMeta(p) \in Labels
<1>1. CASE secrets[p] = NoSecret
  BY <1>1, ValuesAssumption DEF CurrentMeta
<1>2. CASE secrets[p] # NoSecret
  <2>1. secrets[p] \in SecretRow
    BY <1>2 DEF TablesInv, TablesTypeOK
  <2>2. secrets[p].id \in Ids /\ secrets[p].current \in Versions
    BY <1>2, <2>1, BoundsAssumption DEF SecretRow, Versions, TablesInv, HistoryComplete
  <2>3. secret_versions[secrets[p].id][secrets[p].current] \in VersionRow
    <3>1. secrets[p].current <= secrets[p].current
      BY <2>2 DEF Versions
    <3>2. QED
      BY <1>2, <2>2, <3>1 DEF TablesInv, TablesTypeOK, HistoryComplete
  <2>4. QED
    BY <1>2, <2>3, ValuesAssumption DEF CurrentMeta, VersionRow
<1>3. QED
  BY <1>1, <1>2

\* The number of versions of a path.
Written(p) == IF secrets[p] = NoSecret THEN 0 ELSE secrets[p].current

\* What a put does to the tables: one more version of p, written where nothing
\* was, and nothing else.
PutDone(p, u, k, d, attrs, m) ==
    LET s == secrets'[p] IN
    /\ s \in SecretRow
    /\ s.current = Written(p) + 1 /\ s.current \in Versions
    /\ s.deleted = FALSE /\ s.attrs = attrs
    /\ secrets[p] # NoSecret => s.id = secrets[p].id
    /\ \A q \in Paths : q # p => secrets'[q] = secrets[q] /\ (secrets[q] # NoSecret => secrets[q].id # s.id)
    /\ secret_versions[s.id][s.current] = NoVersion
    /\ \A j \in Ids, w \in Versions :
          secret_versions'[j][w] =
             IF j = s.id /\ w = s.current
             THEN [data |-> d, aad |-> <<s.id, s.current>>, owner |-> u, keyv |-> k,
                   meta |-> m, deletion |-> FALSE, destroyed |-> FALSE]
             ELSE secret_versions[j][w]

\* A put that seals with a key its author has keeps the invariant: the new
\* version is the next one, and it is written where nothing was.
LEMMA PutKeepsTables ==
    ASSUME TablesInv, NEW p \in Paths, NEW i \in Ids, NEW u \in Users, NEW k \in KeyVersions,
           NEW d \in Data, NEW attrs \in Labels, NEW m \in Labels,
           DrawId(p, i), InsertSecretVersion(p, PutRow(p, i, attrs), u, k, d, m),
           k <= personal_key_version[u],
           UNCHANGED <<user_keys, personal_key_version>>
    PROVE  TablesInv' /\ PutDone(p, u, k, d, attrs, m)
<1> DEFINE row == PutRow(p, i, attrs)
           v == row.current + 1
           new == [data |-> d, aad |-> <<row.id, v>>, owner |-> u, keyv |-> k,
                   meta |-> m, deletion |-> FALSE, destroyed |-> FALSE]
           out == [row EXCEPT !.current = v]
<1>1. TablesTypeOK' /\ row \in SecretRow
  BY PutTyped DEF TablesInv
<1>2. v \in Versions /\ row.current \in Nat /\ row.id \in Ids
  BY <1>1 DEF InsertSecretVersion, SecretRow
<1>3. secrets' = [secrets EXCEPT ![p] = out] /\ secret_versions' = [secret_versions EXCEPT ![row.id][v] = new]
  BY DEF InsertSecretVersion
<1>4. out.current = v /\ out.id = row.id /\ out \in SecretRow /\ out # NoSecret
  <2> HIDE DEF row, v
  <2>1. QED BY <1>1, <1>2, NullAssumption DEF SecretRow, Versions
<1>5. \A w \in Versions : secret_versions[row.id][w] # NoVersion <=> w <= row.current
  <2>1. CASE secrets[p] = NoSecret
    BY <2>1 DEF PutRow, DrawId, TablesInv, IdsDrawn, Versions
  <2>2. CASE secrets[p] # NoSecret
    <3>1. row.id = secrets[p].id /\ row.current = secrets[p].current
      BY <2>2 DEF PutRow, TablesInv, TablesTypeOK, SecretRow
    <3>2. QED
      BY <2>2, <3>1 DEF TablesInv, HistoryComplete
  <2>3. QED BY <2>1, <2>2
<1>6. \A q \in Paths : (q # p /\ secrets[q] # NoSecret) => secrets[q].id # row.id
  <2>1. CASE secrets[p] = NoSecret
    BY <2>1 DEF PutRow, DrawId, TablesInv, IdsDrawn
  <2>2. CASE secrets[p] # NoSecret
    <3>1. row.id = secrets[p].id
      BY <2>2 DEF PutRow, TablesInv, TablesTypeOK, SecretRow
    <3>2. QED
      BY <2>2, <3>1 DEF TablesInv, IdsDrawn
  <2>3. QED BY <2>1, <2>2
<1>7. row.id \in issued'
  <2>1. CASE secrets[p] = NoSecret
    BY <2>1 DEF PutRow, DrawId
  <2>2. CASE secrets[p] # NoSecret
    <3>1. row.id = secrets[p].id
      BY <2>2 DEF PutRow, TablesInv, TablesTypeOK, SecretRow
    <3>2. QED
      BY <2>2, <3>1 DEF TablesInv, IdsDrawn, DrawId
  <2>3. QED BY <2>1, <2>2
<1>8. issued \subseteq issued'
  BY DEF DrawId
<1>9. new # NoVersion
  <2>1. new \in VersionRow
    <3> HIDE DEF row, v
    <3>1. QED BY <1>2 DEF VersionRow
  <2>2. QED
    BY <2>1, NullAssumption
<1>10. /\ new.keyv = k /\ new.owner = u /\ new.data \in Data /\ new.aad = <<row.id, v>>
  OBVIOUS
<1>11. \A q \in Paths : secrets'[q] = IF q = p THEN out ELSE secrets[q]
  BY <1>3 DEF TablesInv, TablesTypeOK
<1>12. \A j \in Ids, w \in Versions :
         secret_versions'[j][w] = IF j = row.id /\ w = v THEN new ELSE secret_versions[j][w]
  <2> HIDE DEF row, v, new
  <2>1. QED BY <1>2, <1>3 DEF TablesInv, TablesTypeOK
<1>13. \A q \in Paths : secrets[q] # NoSecret => secrets[q].id \in Ids /\ secrets[q].current \in Nat
  BY DEF TablesInv, TablesTypeOK, SecretRow
<1>14. v = row.current + 1
  OBVIOUS
<1> HIDE DEF row, v, new, out
<1>15. HistoryComplete'
  <2> SUFFICES ASSUME NEW q \in Paths, secrets'[q] # NoSecret
               PROVE  /\ secrets'[q].current > 0
                      /\ \A w \in Versions : secret_versions'[secrets'[q].id][w] # NoVersion <=> w <= secrets'[q].current
    BY DEF HistoryComplete
  <2>1. CASE q = p
    <3>1. secrets'[q].id = row.id /\ secrets'[q].current = v
      BY <2>1, <1>4, <1>11
    <3>2. \A w \in Versions : secret_versions'[row.id][w] = IF w = v THEN new ELSE secret_versions[row.id][w]
      BY <1>2, <1>12
    <3>3. QED
      BY <3>1, <3>2, <1>2, <1>5, <1>9, <1>14 DEF Versions
  <2>2. CASE q # p
    <3>1. secrets'[q] = secrets[q] /\ secrets[q].id # row.id /\ secrets[q].id \in Ids
      BY <2>2, <1>6, <1>11, <1>13
    <3>2. \A w \in Versions : secret_versions'[secrets[q].id][w] = secret_versions[secrets[q].id][w]
      BY <3>1, <1>12
    <3>3. QED
      BY <3>1, <3>2 DEF TablesInv, HistoryComplete
  <2>3. QED BY <2>1, <2>2
<1>16. Sealed'
  <2> SUFFICES ASSUME NEW q \in Paths, NEW w \in Versions, secrets'[q] # NoSecret, w <= secrets'[q].current
               PROVE  LET r == secret_versions'[secrets'[q].id][w] IN
                      /\ r.keyv <= personal_key_version'[r.owner]
                      /\ r.aad = <<secrets'[q].id, w>>
                      /\ ~r.destroyed => r.data \in Data
    BY DEF Sealed
  <2>1. CASE q = p /\ w = v
    BY <2>1, <1>2, <1>4, <1>10, <1>11, <1>12
  <2>2. CASE q = p /\ w # v
    <3>1. secrets'[q].id = row.id /\ w <= row.current
      BY <2>2, <1>2, <1>4, <1>11, <1>14 DEF Versions
    <3>2. secret_versions'[row.id][w] = secret_versions[row.id][w]
      BY <2>2, <1>2, <1>12
    <3>3. secrets[p] # NoSecret /\ secrets[p].id = row.id /\ secrets[p].current = row.current
      <4>1. secrets[p] # NoSecret
        <5>1. SUFFICES ASSUME secrets[p] = NoSecret PROVE FALSE
          OBVIOUS
        <5>2. row.current = 0
          BY <5>1 DEF row, PutRow
        <5>3. QED BY <3>1, <5>2 DEF Versions
      <4>2. QED
        BY <4>1 DEF row, PutRow, TablesInv, TablesTypeOK, SecretRow
    <3>4. QED
      BY <3>1, <3>2, <3>3 DEF TablesInv, Sealed
  <2>3. CASE q # p
    <3>1. secrets'[q] = secrets[q] /\ secrets[q].id # row.id /\ secrets[q].id \in Ids
      BY <2>3, <1>6, <1>11, <1>13
    <3>2. secret_versions'[secrets[q].id][w] = secret_versions[secrets[q].id][w]
      BY <3>1, <1>12
    <3>3. QED
      BY <3>1, <3>2 DEF TablesInv, Sealed
  <2>4. QED BY <2>1, <2>2, <2>3
<1>17. IdsDrawn'
  <2>1. \A q \in Paths : secrets'[q] # NoSecret => secrets'[q].id \in issued'
    BY <1>4, <1>7, <1>8, <1>11 DEF TablesInv, IdsDrawn
  <2>2. \A q, r \in Paths : (q # r /\ secrets'[q] # NoSecret /\ secrets'[r] # NoSecret) => secrets'[q].id # secrets'[r].id
    BY <1>4, <1>6, <1>11 DEF TablesInv, IdsDrawn
  <2>3. \A j \in Ids \ issued', w \in Versions : secret_versions'[j][w] = NoVersion
    BY <1>7, <1>8, <1>12 DEF TablesInv, IdsDrawn
  <2>4. QED BY <2>1, <2>2, <2>3 DEF IdsDrawn
<1>18. KeysKept'
  BY DEF TablesInv, KeysKept
<1>19. PutDone(p, u, k, d, attrs, m)
  <2>1. row.current = Written(p) /\ row.attrs = attrs /\ row.deleted = FALSE
          /\ (secrets[p] # NoSecret => row.id = secrets[p].id)
    <3>1. CASE secrets[p] = NoSecret
      BY <3>1 DEF row, PutRow, Written
    <3>2. CASE secrets[p] # NoSecret
      <4>1. secrets[p] \in SecretRow
        BY <3>2 DEF TablesInv, TablesTypeOK
      <4>2. row = [secrets[p] EXCEPT !.deleted = FALSE, !.attrs = attrs]
        BY <3>2 DEF row, PutRow
      <4>3. row.current = secrets[p].current /\ row.attrs = attrs /\ row.deleted = FALSE /\ row.id = secrets[p].id
        BY <4>1, <4>2, Zenon DEF SecretRow
      <4>4. QED BY <3>2, <4>3 DEF Written
    <3>3. QED BY <3>1, <3>2
  <2>2. out.deleted = FALSE /\ out.attrs = attrs
    BY <1>1, <2>1 DEF out, SecretRow
  <2>3. secrets'[p] = out /\ \A q \in Paths : q # p => secrets'[q] = secrets[q]
    BY <1>11
  <2>4. secret_versions[row.id][v] = NoVersion
    BY <1>2, <1>5, <1>14
  <2>5. out.current = Written(p) + 1
    BY <1>4, <1>14, <2>1
  <2> DEFINE o == secrets'[p]
             row2 == [data |-> d, aad |-> <<o.id, o.current>>, owner |-> u, keyv |-> k,
                      meta |-> m, deletion |-> FALSE, destroyed |-> FALSE]
  <2>6. o.id = row.id /\ o.current = v /\ o = out
    BY <1>4, <2>3
  <2>7. row2 = new
    BY <2>6 DEF new
  <2>8. \A j \in Ids, w \in Versions :
           secret_versions'[j][w] = IF j = o.id /\ w = o.current THEN row2 ELSE secret_versions[j][w]
    <3> HIDE DEF row2
    <3>1. QED BY <1>12, <2>6, <2>7
  <2>9. /\ o \in SecretRow
        /\ o.current = Written(p) + 1 /\ o.current \in Versions
        /\ o.deleted = FALSE /\ o.attrs = attrs
        /\ secrets[p] # NoSecret => o.id = secrets[p].id
        /\ \A q \in Paths : q # p => secrets'[q] = secrets[q] /\ (secrets[q] # NoSecret => secrets[q].id # o.id)
        /\ secret_versions[o.id][o.current] = NoVersion
    BY <1>2, <1>4, <1>6, <2>1, <2>2, <2>3, <2>4, <2>5, <2>6
  <2>10. QED
    BY <2>8, <2>9, Zenon DEF PutDone
<1>20. QED
  BY <1>1, <1>15, <1>16, <1>17, <1>18, <1>19 DEF TablesInv

\* The put of the Admin API and of an approved request, with the personal key.
LEMMA PutSecretKeeps ==
    ASSUME TablesInv, NEW p \in Paths, NEW u \in Users, NEW d \in Data, NEW attrs \in Labels, NEW m \in Labels,
           PutSecretTx(p, u, personal_key_version[u], d, attrs, m),
           UNCHANGED <<user_keys, personal_key_version>>
    PROVE  TablesInv' /\ PutDone(p, u, personal_key_version[u], d, attrs, m)
<1>1. personal_key_version[u] \in KeyVersions /\ personal_key_version[u] <= personal_key_version[u]
  BY DEF TablesInv, TablesTypeOK, KeyVersions
<1>2. QED BY <1>1, PutKeepsTables DEF PutSecretTx

\* The put of /v1, which keeps the labels.
LEMMA PutOpenBaoKeeps ==
    ASSUME TablesInv, NEW p \in Paths, NEW u \in Users, NEW k \in KeyVersions, NEW d \in Data,
           k <= personal_key_version[u], PutOpenBaoSecretTx(p, u, k, d),
           UNCHANGED <<user_keys, personal_key_version>>
    PROVE  /\ TablesInv'
           /\ PutDone(p, u, k, d, IF secrets[p] = NoSecret THEN Blank ELSE secrets[p].attrs, CurrentMeta(p))
<1> DEFINE attrs == IF secrets[p] = NoSecret THEN Blank ELSE secrets[p].attrs
           m == CurrentMeta(p)
<1>1. attrs \in Labels /\ m \in Labels
  BY CurrentMetaTyped, ValuesAssumption DEF TablesInv, TablesTypeOK, SecretRow
<1>2. PICK i \in Ids : DrawId(p, i) /\ InsertSecretVersion(p, PutRow(p, i, attrs), u, k, d, m)
  BY DEF PutOpenBaoSecretTx
<1> HIDE DEF attrs, m
<1>3. TablesInv' /\ PutDone(p, u, k, d, attrs, m)
  BY <1>1, <1>2, PutKeepsTables
<1>4. QED BY <1>3 DEF attrs, m

\* Marking or destroying versions of a secret that exists keeps the invariant.
LEMMA MutateKeepsTables ==
    ASSUME TablesInv, NEW p \in Paths, NEW vs, NEW op \in {"delete", "undelete", "destroy"},
           secrets[p] # NoSecret, MutateVersions(p, vs, op),
           UNCHANGED <<secrets, user_keys, personal_key_version, issued>>
    PROVE  TablesInv'
<1> DEFINE i == secrets[p].id
           after(row) == IF row.destroyed THEN row ELSE MutatedVersion(row, op)
<1>1. i \in Ids
  BY DEF TablesInv, TablesTypeOK, SecretRow
<1>2. \A j \in Ids, v \in Versions :
        secret_versions'[j][v] = IF j = i /\ v \in vs /\ secret_versions[j][v] # NoVersion
                                 THEN after(secret_versions[j][v]) ELSE secret_versions[j][v]
  BY <1>1 DEF MutateVersions, TablesInv, TablesTypeOK
<1>3. \A row \in VersionRow :
        /\ after(row) \in VersionRow
        /\ after(row).owner = row.owner /\ after(row).keyv = row.keyv /\ after(row).aad = row.aad
        /\ ~after(row).destroyed => (~row.destroyed /\ after(row).data = row.data)
  BY DEF MutatedVersion, VersionRow
<1> HIDE DEF after
<1>4. \A j \in Ids, v \in Versions : secret_versions'[j][v] \in VersionRow \cup {NoVersion}
  BY <1>2, <1>3 DEF TablesInv, TablesTypeOK
<1>5. TablesTypeOK'
  <2>1. secret_versions' \in [Ids -> [Versions -> VersionRow \cup {NoVersion}]]
    <3>1. secret_versions' = [secret_versions EXCEPT ![i] = secret_versions'[i]]
      BY <1>1 DEF MutateVersions, TablesInv, TablesTypeOK
    <3>2. secret_versions'[i] \in [Versions -> VersionRow \cup {NoVersion}]
      <4>1. secret_versions'[i] = [v \in Versions |-> secret_versions'[i][v]]
        BY <1>1 DEF MutateVersions, TablesInv, TablesTypeOK
      <4>2. QED BY <1>1, <1>4, <4>1
    <3> HIDE DEF i
    <3>3. QED BY <1>1, <3>1, <3>2 DEF TablesInv, TablesTypeOK
  <2>2. QED BY <2>1 DEF TablesInv, TablesTypeOK
<1>6. \A j \in Ids, v \in Versions : secret_versions'[j][v] # NoVersion <=> secret_versions[j][v] # NoVersion
  BY <1>2, <1>3, NullAssumption DEF TablesInv, TablesTypeOK
<1>7. \A q \in Paths : secrets[q] # NoSecret => secrets[q].id \in Ids
  BY DEF TablesInv, TablesTypeOK, SecretRow
<1>8. HistoryComplete'
  BY <1>6, <1>7 DEF TablesInv, HistoryComplete
<1>9. Sealed'
  <2> SUFFICES ASSUME NEW q \in Paths, NEW w \in Versions, secrets[q] # NoSecret, w <= secrets[q].current
               PROVE  LET r == secret_versions'[secrets[q].id][w] IN
                      /\ r.keyv <= personal_key_version[r.owner]
                      /\ r.aad = <<secrets[q].id, w>>
                      /\ ~r.destroyed => r.data \in Data
    BY DEF Sealed
  <2>1. secret_versions[secrets[q].id][w] \in VersionRow
    BY <1>7 DEF TablesInv, TablesTypeOK, HistoryComplete
  <2>2. LET o == secret_versions[secrets[q].id][w]
            r == secret_versions'[secrets[q].id][w]
        IN  /\ r.owner = o.owner /\ r.keyv = o.keyv /\ r.aad = o.aad
            /\ ~r.destroyed => (~o.destroyed /\ r.data = o.data)
    BY <1>2, <1>3, <1>7, <2>1
  <2>3. QED
    BY <2>2 DEF TablesInv, Sealed
<1>10. IdsDrawn'
  BY <1>2, <1>6 DEF TablesInv, IdsDrawn
<1>11. KeysKept'
  BY DEF TablesInv, KeysKept
<1>12. QED
  BY <1>5, <1>8, <1>9, <1>10, <1>11 DEF TablesInv

\* What a soft delete does to the secrets: the row of p is marked, no other.
SoftDeleteDone(p) ==
    LET s == secrets'[p] IN
    /\ secrets[p] # NoSecret /\ secrets[p].deleted # TRUE /\ s \in SecretRow
    /\ s.id = secrets[p].id /\ s.current = secrets[p].current /\ s.attrs = secrets[p].attrs /\ s.deleted = TRUE
    /\ \A q \in Paths : q # p => secrets'[q] = secrets[q]

\* Soft-deleting a secret keeps the invariant.
LEMMA SoftDeleteKeepsTables ==
    ASSUME TablesInv, NEW p \in Paths, SoftDelete(p),
           UNCHANGED <<secret_versions, user_keys, personal_key_version, issued>>
    PROVE  TablesInv' /\ SoftDeleteDone(p)
<1> DEFINE out == [secrets[p] EXCEPT !.deleted = TRUE]
<1>1. secrets[p] \in SecretRow /\ secrets[p] # NoSecret
  BY DEF SoftDelete, SecretExists, TablesInv, TablesTypeOK
<1>2. out \in SecretRow /\ out # NoSecret /\ out.id = secrets[p].id /\ out.current = secrets[p].current
  <2>1. out \in SecretRow /\ out.id = secrets[p].id /\ out.current = secrets[p].current
    BY <1>1 DEF SecretRow
  <2>2. QED
    BY <2>1, NullAssumption
<1>3. secrets' = [secrets EXCEPT ![p] = out]
  BY <1>1 DEF SoftDelete, TablesInv, TablesTypeOK
<1>9. out.attrs = secrets[p].attrs /\ out.deleted = TRUE
  BY <1>1, Zenon DEF SecretRow
<1> HIDE DEF out
<1>4. \A q \in Paths : secrets'[q] = IF q = p THEN out ELSE secrets[q]
  BY <1>3 DEF TablesInv, TablesTypeOK
<1>5. \A q \in Paths : /\ secrets'[q] # NoSecret <=> secrets[q] # NoSecret
                       /\ secrets'[q].id = secrets[q].id /\ secrets'[q].current = secrets[q].current
  BY <1>1, <1>2, <1>4
<1>6. TablesTypeOK'
  BY <1>2, <1>3 DEF TablesInv, TablesTypeOK
<1>7. HistoryComplete' /\ Sealed' /\ IdsDrawn' /\ KeysKept'
  BY <1>5 DEF TablesInv, HistoryComplete, Sealed, IdsDrawn, KeysKept
<1>8. SoftDeleteDone(p)
  <2>1. secrets[p].deleted # TRUE
    BY DEF SoftDelete, SecretExists
  <2>2. QED BY <1>1, <1>2, <1>4, <1>9, <2>1 DEF SoftDeleteDone
<1>11. QED
  BY <1>6, <1>7, <1>8 DEF TablesInv

\* Purging a secret with all its versions keeps the invariant.
LEMMA PurgeKeepsTables ==
    ASSUME TablesInv, NEW p \in Paths, PurgeSecret(p),
           UNCHANGED <<user_keys, personal_key_version, issued>>
    PROVE  TablesInv'
<1> DEFINE i == secrets[p].id
<1>1. i \in Ids /\ secrets[p] # NoSecret
  BY DEF PurgeSecret, TablesInv, TablesTypeOK, SecretRow
<1>2. \A q \in Paths : secrets'[q] = IF q = p THEN NoSecret ELSE secrets[q]
  BY DEF PurgeSecret, TablesInv, TablesTypeOK
<1>3. \A j \in Ids, v \in Versions :
        secret_versions'[j][v] = IF j = i THEN NoVersion ELSE secret_versions[j][v]
  BY <1>1 DEF PurgeSecret, TablesInv, TablesTypeOK
<1>4. TablesTypeOK'
  BY DEF PurgeSecret, TablesInv, TablesTypeOK
<1>5. \A q \in Paths : secrets'[q] # NoSecret =>
        secrets'[q] = secrets[q] /\ secrets[q].id \in Ids /\ secrets[q].id # i
  BY <1>1, <1>2 DEF TablesInv, TablesTypeOK, SecretRow, IdsDrawn
<1>6. HistoryComplete'
  BY <1>3, <1>5 DEF TablesInv, HistoryComplete
<1>7. Sealed'
  BY <1>3, <1>5 DEF TablesInv, Sealed
<1>8. IdsDrawn'
  BY <1>2, <1>3, <1>5 DEF TablesInv, IdsDrawn
<1>9. KeysKept'
  BY DEF TablesInv, KeysKept
<1>10. QED
  BY <1>4, <1>6, <1>7, <1>8, <1>9 DEF TablesInv

\* Rotating a personal key keeps every older key decryptable.
LEMMA RotateKeepsTables ==
    ASSUME TablesInv, NEW u \in Users, NEW k \in KeyVersions, NEW all, RotateUserKey(u, k, all),
           UNCHANGED <<secrets, secret_versions, issued>>
    PROVE  TablesInv' /\ \A w \in Users : personal_key_version[w] <= personal_key_version'[w]
<1> DEFINE next == personal_key_version[u] + 1
           retired(row) == [row EXCEPT !.active = FALSE]
<1>1. next \in KeyVersions /\ \A w \in Users : personal_key_version[w] \in KeyVersions
  BY DEF RotateUserKey, TablesInv, TablesTypeOK
<1>2. \A w \in Users : personal_key_version'[w] = IF w = u THEN next ELSE personal_key_version[w]
  BY DEF RotateUserKey, TablesInv, TablesTypeOK
<1>3. \A w \in Users, j \in KeyVersions :
        user_keys'[w][j] = IF w # u THEN user_keys[w][j]
                           ELSE IF j = next /\ user_keys[u][j] = NoKey THEN NewUserKey
                           ELSE IF user_keys[u][j] = NoKey THEN NoKey
                           ELSE retired(user_keys[u][j])
  BY DEF RotateUserKey, TablesInv, TablesTypeOK
<1>4. NewUserKey \in KeyRow /\ NewUserKey.decrypt
  BY DEF NewUserKey, KeyRow
<1>5. \A row \in KeyRow : retired(row) \in KeyRow /\ retired(row).decrypt = row.decrypt
  BY DEF KeyRow
<1> HIDE DEF retired
<1>6. \A w \in Users, j \in KeyVersions : user_keys[w][j] \in KeyRow \cup {NoKey}
  BY DEF TablesInv, TablesTypeOK
<1>7. \A w \in Users, j \in KeyVersions : user_keys'[w][j] \in KeyRow \cup {NoKey}
  BY <1>3, <1>4, <1>5, <1>6
<1>8. TablesTypeOK'
  <2>1. personal_key_version' \in [Users -> KeyVersions]
    BY <1>1 DEF RotateUserKey, TablesInv, TablesTypeOK
  <2>2. user_keys' = [user_keys EXCEPT ![u] = user_keys'[u]]
    BY DEF RotateUserKey, TablesInv, TablesTypeOK
  <2>3. user_keys'[u] \in [KeyVersions -> KeyRow \cup {NoKey}]
    <3>1. user_keys'[u] = [j \in KeyVersions |-> user_keys'[u][j]]
      BY DEF RotateUserKey, TablesInv, TablesTypeOK
    <3>2. QED BY <1>7, <3>1
  <2>4. QED BY <2>1, <2>2, <2>3 DEF TablesInv, TablesTypeOK
<1>9. \A w \in Users : personal_key_version[w] <= personal_key_version'[w]
  BY <1>1, <1>2 DEF KeyVersions
<1>10. KeysKept'
  <2>0. next = personal_key_version[u] + 1
    OBVIOUS
  <2> HIDE DEF next
  <2> SUFFICES ASSUME NEW w \in Users, NEW j \in KeyVersions
               PROVE  /\ user_keys'[w][j] # NoKey <=> j <= personal_key_version'[w]
                      /\ user_keys'[w][j] # NoKey => user_keys'[w][j].decrypt
    BY DEF KeysKept
  <2>1. CASE w # u
    <3>1. user_keys'[w][j] = user_keys[w][j] /\ personal_key_version'[w] = personal_key_version[w]
      BY <2>1, <1>2, <1>3
    <3>2. QED
      BY <3>1 DEF TablesInv, KeysKept
  <2>2. CASE w = u /\ user_keys[u][j] = NoKey
    <3>1. ~(j <= personal_key_version[u])
      BY <2>2 DEF TablesInv, KeysKept
    <3>2. user_keys'[u][j] = IF j = next THEN NewUserKey ELSE NoKey
      BY <2>2, <1>3
    <3>3. NewUserKey # NoKey
      BY <1>4, NullAssumption
    <3>4. j <= next <=> j = next
      BY <2>0, <3>1, <1>1 DEF KeyVersions
    <3>5. QED
      BY <2>2, <3>2, <3>3, <3>4, <1>2, <1>4
  <2>3. CASE w = u /\ user_keys[u][j] # NoKey
    <3>1. user_keys[u][j] \in KeyRow
      BY <2>3, <1>6
    <3>2. user_keys'[u][j] \in KeyRow /\ user_keys'[u][j].decrypt = user_keys[u][j].decrypt
      BY <2>3, <3>1, <1>3, <1>5
    <3>3. j <= personal_key_version[u] /\ user_keys[u][j].decrypt
      BY <2>3 DEF TablesInv, KeysKept
    <3>4. user_keys'[u][j] # NoKey
      BY <3>2, NullAssumption
    <3>5. j <= personal_key_version'[u]
      BY <2>0, <3>3, <1>1, <1>2 DEF KeyVersions
    <3>6. QED
      BY <2>3, <3>2, <3>3, <3>4, <3>5
  <2>4. QED BY <2>1, <2>2, <2>3
<1>11. Sealed'
  <2> SUFFICES ASSUME NEW q \in Paths, NEW w \in Versions, secrets[q] # NoSecret, w <= secrets[q].current
               PROVE  LET r == secret_versions[secrets[q].id][w] IN
                      /\ r.keyv <= personal_key_version'[r.owner]
                      /\ r.aad = <<secrets[q].id, w>>
                      /\ ~r.destroyed => r.data \in Data
    BY DEF Sealed
  <2> DEFINE r == secret_versions[secrets[q].id][w]
  <2>1. r \in VersionRow
    BY DEF TablesInv, TablesTypeOK, HistoryComplete, SecretRow
  <2>2. r.owner \in Users /\ r.keyv \in KeyVersions
    BY <2>1 DEF VersionRow
  <2>3. /\ r.keyv <= personal_key_version[r.owner] /\ r.aad = <<secrets[q].id, w>>
        /\ ~r.destroyed => r.data \in Data
    BY DEF TablesInv, Sealed
  <2> HIDE DEF r
  <2>4. r.keyv <= personal_key_version'[r.owner]
    BY <1>1, <1>2, <2>2, <2>3 DEF KeyVersions
  <2>5. QED BY <2>3, <2>4 DEF r
<1>12. HistoryComplete' /\ IdsDrawn'
  BY DEF TablesInv, HistoryComplete, IdsDrawn
<1>13. QED
  BY <1>8, <1>9, <1>10, <1>11, <1>12 DEF TablesInv

\* A permission change that cleanUserKeyPermissions accepts keeps decrypt.
LEMMA PermissionsKeepTables ==
    ASSUME TablesInv, NEW u \in Users, NEW k \in KeyVersions, NEW perms, UpdateKeyPermissions(u, k, perms),
           UNCHANGED <<secrets, secret_versions, personal_key_version, issued>>
    PROVE  TablesInv'
<1> DEFINE out == [active |-> TRUE, encrypt |-> "encrypt" \in perms,
                   decrypt |-> "decrypt" \in perms, rotate |-> "rotate" \in perms]
<1>1. out \in KeyRow /\ out.decrypt
  <2>1. out.active \in BOOLEAN /\ out.encrypt \in BOOLEAN /\ out.decrypt \in BOOLEAN /\ out.rotate \in BOOLEAN
    OBVIOUS
  <2>2. out.decrypt
    BY DEF UpdateKeyPermissions, CleanUserKeyPermissions
  <2>3. out \in KeyRow
    BY <2>1, Zenon DEF KeyRow
  <2>4. QED
    BY <2>2, <2>3
<1>2. user_keys' = [user_keys EXCEPT ![u][k] = out] /\ user_keys[u][k] # NoKey
  BY DEF UpdateKeyPermissions
<1> HIDE DEF out
<1>3. \A w \in Users, j \in KeyVersions :
        user_keys'[w][j] = IF w = u /\ j = k THEN out ELSE user_keys[w][j]
  BY <1>2 DEF TablesInv, TablesTypeOK
<1>4. TablesTypeOK'
  BY <1>1, <1>2 DEF TablesInv, TablesTypeOK
<1>5. KeysKept'
  BY <1>1, <1>2, <1>3, NullAssumption DEF TablesInv, KeysKept
<1>6. HistoryComplete' /\ Sealed' /\ IdsDrawn'
  BY DEF TablesInv, HistoryComplete, Sealed, IdsDrawn
<1>7. QED
  BY <1>4, <1>5, <1>6 DEF TablesInv

\* What marking versions does: those of p that exist and are not destroyed.
MutateDone(p, vs, op) ==
    /\ secrets[p].id \in Ids
    /\ \A j \in Ids, v \in Versions :
          secret_versions'[j][v] =
             IF j = secrets[p].id /\ v \in vs /\ secret_versions[j][v] # NoVersion /\ ~secret_versions[j][v].destroyed
             THEN MutatedVersion(secret_versions[j][v], op) ELSE secret_versions[j][v]

LEMMA MutateEffect ==
    ASSUME TablesInv, NEW p \in Paths, NEW vs, NEW op, secrets[p] # NoSecret, MutateVersions(p, vs, op)
    PROVE  MutateDone(p, vs, op)
<1>1. secrets[p].id \in Ids
  BY DEF TablesInv, TablesTypeOK, SecretRow
<1>2. QED BY <1>1 DEF MutateVersions, MutateDone, TablesInv, TablesTypeOK

\* What a purge does: the row goes, and all its versions.
PurgeDone(p) ==
    /\ secrets[p] # NoSecret
    /\ \A q \in Paths : secrets'[q] = IF q = p THEN NoSecret ELSE secrets[q]
    /\ \A j \in Ids, v \in Versions :
          secret_versions'[j][v] = IF j = secrets[p].id THEN NoVersion ELSE secret_versions[j][v]

LEMMA PurgeEffect ==
    ASSUME TablesInv, NEW p \in Paths, PurgeSecret(p)
    PROVE  PurgeDone(p)
<1>1. secrets[p].id \in Ids
  BY DEF PurgeSecret, TablesInv, TablesTypeOK, SecretRow
<1>2. QED BY <1>1 DEF PurgeSecret, PurgeDone, TablesInv, TablesTypeOK

\* The secret of a path, and its versions, are the same after a step.
SecretSame(p) ==
    /\ secrets'[p] = secrets[p]
    /\ secrets[p] # NoSecret =>
          \A v \in Versions : secret_versions'[secrets[p].id][v] = secret_versions[secrets[p].id][v]

\* A write to one path leaves the others alone.
LEMMA OthersSame ==
    ASSUME TablesInv, NEW p \in Paths,
           \/ \E u, k, d, attrs, m : PutDone(p, u, k, d, attrs, m)
           \/ SoftDeleteDone(p) /\ UNCHANGED secret_versions
           \/ secrets[p] # NoSecret /\ (\E vs, op : MutateDone(p, vs, op)) /\ UNCHANGED secrets
           \/ PurgeDone(p)
    PROVE  \A q \in Paths : q # p => SecretSame(q)
<1>1. ASSUME NEW u, NEW k, NEW d, NEW attrs, NEW m, PutDone(p, u, k, d, attrs, m), NEW q \in Paths, q # p
      PROVE  SecretSame(q)
  <2> DEFINE s == secrets'[p]
             new == [data |-> d, aad |-> <<s.id, s.current>>, owner |-> u, keyv |-> k,
                     meta |-> m, deletion |-> FALSE, destroyed |-> FALSE]
  <2>1. secrets'[q] = secrets[q] /\ (secrets[q] # NoSecret => secrets[q].id # s.id)
    BY <1>1 DEF PutDone
  <2>2. \A j \in Ids, w \in Versions :
           secret_versions'[j][w] = IF j = s.id /\ w = s.current THEN new ELSE secret_versions[j][w]
    BY <1>1 DEF PutDone
  <2> HIDE DEF new, s
  <2>3. secrets[q] # NoSecret => secrets[q].id \in Ids
    BY DEF TablesInv, TablesTypeOK, SecretRow
  <2>4. QED BY <2>1, <2>2, <2>3 DEF SecretSame
<1>2. \A q \in Paths : secrets[q] # NoSecret => secrets[q].id \in Ids
  BY DEF TablesInv, TablesTypeOK, SecretRow
<1>3. \A q \in Paths : q # p /\ secrets[q] # NoSecret /\ secrets[p] # NoSecret => secrets[q].id # secrets[p].id
  BY DEF TablesInv, IdsDrawn
<1>4. CASE SoftDeleteDone(p) /\ UNCHANGED secret_versions
  BY <1>4 DEF SoftDeleteDone, SecretSame
<1>5. CASE secrets[p] # NoSecret /\ (\E vs, op : MutateDone(p, vs, op)) /\ UNCHANGED secrets
  BY <1>2, <1>3, <1>5 DEF MutateDone, SecretSame
<1>6. CASE PurgeDone(p)
  BY <1>2, <1>3, <1>6 DEF PurgeDone, SecretSame
<1>7. QED BY <1>1, <1>4, <1>5, <1>6
=============================================================================
