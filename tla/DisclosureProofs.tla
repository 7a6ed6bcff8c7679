-------------------------- MODULE DisclosureProofs --------------------------
(***************************************************************************)
(* Policies and the requests that read secrets, for any number of paths,   *)
(* users, versions, policies and calls: the evaluators of policies agree,  *)
(* a value is audited before it leaves, and what is read in several        *)
(* statements fits together.                                               *)
(***************************************************************************)
EXTENDS Disclosure, SecretTablesProofs, SequenceTheorems, WellFoundedInduction

-----------------------------------------------------------------------------
\* Matching a pattern: what pathMatches and the SQL compute.

Strings == Seq(Alphabet)

LEMMA HasLeast ==
    ASSUME NEW n \in Nat, NEW T, T \subseteq 1..n, T # {}
    PROVE  /\ \E i \in T : \A j \in T : i <= j
           /\ \E i \in T : \A j \in T : i >= j
<1>1. ASSUME NEW R, R \subseteq Nat, R # {} PROVE \E i \in R : \A j \in R : i <= j
  <2>1. PICK x \in R : \A y \in R : ~(<<y, x>> \in OpToRel(<, Nat))
    BY <1>1, NatLessThanWellFounded, WFMin
  <2>2. \A y \in R : ~(y < x)
    BY <1>1, <2>1 DEF OpToRel
  <2>3. QED BY <1>1, <2>2
<1>2. \E i \in T : \A j \in T : i <= j
  <2>1. T \subseteq Nat
    OBVIOUS
  <2>2. QED BY <1>1, <2>1
<1>3. \E i \in T : \A j \in T : i >= j
  <2> DEFINE R == {n - i : i \in T}
  <2>1. R \subseteq Nat /\ R # {}
    <3>1. \A i \in T : n - i \in Nat
      OBVIOUS
    <3>2. R # {}
      OBVIOUS
    <3>3. QED BY <3>1, <3>2
  <2>2. PICK r \in R : \A q \in R : r <= q
    BY <1>1, <2>1
  <2>3. PICK i \in T : r = n - i
    OBVIOUS
  <2>4. \A j \in T : n - j \in R
    OBVIOUS
  <2> HIDE DEF R
  <2>5. \A j \in T : n - i <= n - j
    BY <2>2, <2>3, <2>4
  <2>6. \A j \in T : i >= j
    BY <2>5
  <2>7. QED BY <2>6
<1>4. QED BY <1>2, <1>3

\* Trimming gives a text.
LEMMA TrimIsText ==
    ASSUME NEW s \in Strings
    PROVE  Trim(s) \in Strings
<1> DEFINE kept == {i \in 1..Len(s) : s[i] # Slash}
           a == CHOOSE i \in kept : \A j \in kept : i <= j
           b == CHOOSE i \in kept : \A j \in kept : i >= j
<1>1. CASE kept = {}
  BY <1>1 DEF Trim, Strings
<1>2. CASE kept # {}
  <2>1. Len(s) \in Nat /\ kept \subseteq 1..Len(s)
    BY DEF Strings
  <2>2. a \in kept /\ b \in kept
    <3> HIDE DEF kept
    <3>1. (\E i \in kept : \A j \in kept : i <= j) /\ (\E i \in kept : \A j \in kept : i >= j)
      BY <1>2, <2>1, HasLeast
    <3>2. QED BY <3>1, Zenon
  <2>3. a \in 1..Len(s) /\ b \in 1..Len(s)
    BY <2>1, <2>2
  <2>4. Trim(s) = SubSeq(s, a, b)
    BY <1>2 DEF Trim
  <2> HIDE DEF a, b, kept
  <2>5. QED BY <2>1, <2>3, <2>4 DEF Strings
<1>3. QED BY <1>1, <1>2

\* A text that ends in a star, by its characters.
LEMMA StarredIs ==
    ASSUME NEW path \in Strings, NEW p \in Strings
    PROVE  (\E n \in 0..Len(path) : p = SubSeq(path, 1, n) \o <<Star>>)
             <=> /\ Len(p) > 0 /\ Len(p) - 1 <= Len(path) /\ p[Len(p)] = Star
                 /\ \A i \in 1..(Len(p) - 1) : p[i] = path[i]
<1>1. ASSUME NEW n \in 0..Len(path), p = SubSeq(path, 1, n) \o <<Star>>
      PROVE  /\ Len(p) > 0 /\ Len(p) - 1 <= Len(path) /\ p[Len(p)] = Star
             /\ \A i \in 1..(Len(p) - 1) : p[i] = path[i]
  <2> DEFINE q == SubSeq(path, 1, n)
  <2>1. q \in Strings /\ Len(q) = n /\ \A i \in 1..n : q[i] = path[i]
    BY DEF Strings
  <2> HIDE DEF q
  <2>2. p = q \o <<Star>>
    BY <1>1 DEF q
  <2>3. Len(p) = n + 1 /\ p[n + 1] = Star /\ \A i \in 1..n : p[i] = q[i]
    <3>1. Star \in Alphabet
      BY PolicyAssumption
    <3>2. <<Star>> \in Strings /\ Len(<<Star>>) = 1 /\ <<Star>>[1] = Star
      BY <3>1 DEF Strings
    <3>3. QED BY <2>1, <2>2, <3>2 DEF Strings
  <2>4. QED BY <2>1, <2>3 DEF Strings
<1>2. ASSUME Len(p) > 0, Len(p) - 1 <= Len(path), p[Len(p)] = Star, \A i \in 1..(Len(p) - 1) : p[i] = path[i]
      PROVE  \E n \in 0..Len(path) : p = SubSeq(path, 1, n) \o <<Star>>
  <2> DEFINE n == Len(p) - 1
             q == SubSeq(path, 1, n)
             r == q \o <<Star>>
  <2>0. Len(p) \in Nat /\ Len(path) \in Nat
    BY DEF Strings
  <2>1. n \in 0..Len(path) /\ n \in Nat /\ n <= Len(path) /\ Len(p) = n + 1
    BY <1>2, <2>0
  <2> HIDE DEF n
  <2>2. q \in Strings /\ Len(q) = n /\ \A i \in 1..n : q[i] = path[i]
    BY <2>1 DEF Strings
  <2> HIDE DEF q
  <2>3. r \in Strings /\ Len(r) = n + 1 /\ r[n + 1] = Star /\ \A i \in 1..n : r[i] = q[i]
    <3>1. Star \in Alphabet
      BY PolicyAssumption
    <3>2. <<Star>> \in Strings /\ Len(<<Star>>) = 1 /\ <<Star>>[1] = Star
      BY <3>1 DEF Strings
    <3>3. QED BY <2>1, <2>2, <3>2 DEF Strings
  <2> HIDE DEF r
  <2>4. \A i \in 1..Len(p) : p[i] = r[i]
    <3>1. \A i \in 1..n : p[i] = path[i]
      BY <1>2 DEF n
    <3>2. p[n + 1] = Star
      BY <1>2, <2>1
    <3>3. \A i \in 1..Len(p) : i \in 1..n \/ i = n + 1
      BY <2>1
    <3>4. QED BY <2>2, <2>3, <3>1, <3>2, <3>3
  <2>5. p = r
    BY <2>0, <2>1, <2>3, <2>4, SeqEqual DEF Strings
  <2>6. QED BY <2>1, <2>5 DEF r, q
<1>3. QED BY <1>1, <1>2

\* A pattern with a star at its end covers what begins with the rest.
LEMMA PrefixIs ==
    ASSUME NEW path \in Strings, NEW p \in Strings, Len(p) > 0, p[Len(p)] = Star
    PROVE  LET q == SubSeq(p, 1, Len(p) - 1)
               begins == Len(p) - 1 <= Len(path) /\ \A i \in 1..(Len(p) - 1) : p[i] = path[i]
           IN  /\ HasPrefix(path, q) <=> begins
               /\ Left(path, Len(p) - 1) = Left(p, Len(p) - 1) <=> begins
<1> DEFINE n == Len(p) - 1
           q == SubSeq(p, 1, n)
           begins == n <= Len(path) /\ \A i \in 1..n : p[i] = path[i]
<1>1. n \in Nat /\ Len(p) = n + 1 /\ Len(path) \in Nat /\ n <= Len(p)
  BY DEF Strings
<1>2. q \in Strings /\ Len(q) = n /\ \A i \in 1..n : q[i] = p[i]
  BY <1>1 DEF Strings
<1>3. Left(p, n) = q
  BY <1>1 DEF Left
<1> HIDE DEF n, q
<1>4. ASSUME n <= Len(path) PROVE (SubSeq(path, 1, n) = q) <=> \A i \in 1..n : p[i] = path[i]
  <2> DEFINE s == SubSeq(path, 1, n)
  <2>1. s \in Strings /\ Len(s) = n /\ \A i \in 1..n : s[i] = path[i]
    BY <1>1, <1>4 DEF Strings
  <2> HIDE DEF s
  <2>2. (\A i \in 1..n : s[i] = q[i]) => s = q
    BY <1>1, <1>2, <2>1, SeqEqual DEF Strings
  <2>3. s = q => \A i \in 1..n : p[i] = path[i]
    BY <1>2, <2>1
  <2>4. (\A i \in 1..n : p[i] = path[i]) => s = q
    BY <1>2, <2>1, <2>2
  <2>5. QED BY <2>3, <2>4 DEF s
<1>5. HasPrefix(path, q) <=> begins
  BY <1>2, <1>4 DEF HasPrefix
<1>6. (Left(path, n) = q) <=> begins
  <2>1. CASE n > Len(path)
    <3>1. Left(path, n) = path
      BY <2>1 DEF Left
    <3>2. path # q /\ ~begins
      BY <1>1, <1>2, <2>1
    <3>3. QED BY <3>1, <3>2
  <2>2. CASE ~(n > Len(path))
    <3>1. n <= Len(path) /\ Left(path, n) = SubSeq(path, 1, n)
      BY <1>1, <2>2 DEF Left
    <3>2. QED BY <1>4, <3>1
  <2>3. QED BY <2>1, <2>2
<1>7. QED BY <1>3, <1>5, <1>6 DEF n, q

\* Both matchers are the documented relation, for every pattern and path.
LEMMA Matchers ==
    ASSUME NEW pattern \in Strings, NEW path \in Strings, ValidPath(path)
    PROVE  /\ PathMatches(pattern, path) <=> Covers(pattern, path)
           /\ SQLMatches(pattern, path) <=> Covers(pattern, path)
<1> DEFINE p == Trim(pattern)
           begins == Len(p) - 1 <= Len(path) /\ \A i \in 1..(Len(p) - 1) : p[i] = path[i]
           starred == Len(p) > 0 /\ p[Len(p)] = Star
           cut == SubSeq(p, 1, Len(p) - 1)
<1>1. p \in Strings /\ Len(p) \in Nat /\ Len(path) \in Nat /\ Len(path) > 0
  <2>1. p \in Strings
    BY TrimIsText
  <2> HIDE DEF p
  <2>2. QED BY <2>1, EmptySeq DEF Strings, ValidPath
<1>2. p # <<>> <=> Len(p) > 0
  <2> HIDE DEF p
  <2>1. QED BY <1>1, EmptySeq DEF Strings
<1>3. Trim(path) = path /\ path[Len(path)] # Star
  BY <1>1 DEF ValidPath
<1>4. Covers(pattern, path) <=> path = p \/ (starred /\ begins)
  <2>1. Covers(pattern, path) <=> path = p \/ \E n \in 0..Len(path) : p = SubSeq(path, 1, n) \o <<Star>>
    BY DEF Covers
  <2> HIDE DEF p
  <2>2. (\E n \in 0..Len(path) : p = SubSeq(path, 1, n) \o <<Star>>) <=> starred /\ begins
    BY <1>1, StarredIs
  <2>3. QED BY <2>1, <2>2
<1>5. PathMatches(pattern, path) <=> \/ p = <<Star>>
                                     \/ p # <<>> /\ p[Len(p)] = Star /\ HasPrefix(path, cut)
                                     \/ path = p /\ (p # <<>> => p[Len(p)] # Star)
  BY <1>3 DEF PathMatches
<1>6. SQLMatches(pattern, path) <=> \/ p = <<Star>>
                                    \/ p # <<>> /\ p[Len(p)] = Star /\ Left(path, Len(p) - 1) = Left(p, Len(p) - 1)
                                    \/ path = p
  BY DEF SQLMatches
<1> HIDE DEF p
<1>7. p = <<Star>> => starred /\ begins
  <2> SUFFICES ASSUME p = <<Star>> PROVE starred /\ begins
    OBVIOUS
  <2>1. Len(p) = 1 /\ p[1] = Star
    OBVIOUS
  <2>2. QED BY <1>1, <2>1
<1>8. starred => /\ HasPrefix(path, cut) <=> begins
                 /\ Left(path, Len(p) - 1) = Left(p, Len(p) - 1) <=> begins
  BY <1>1, PrefixIs
<1>9. path = p => p[Len(p)] # Star
  BY <1>3
<1>10. PathMatches(pattern, path) <=> Covers(pattern, path)
  <2> HIDE DEF begins, cut
  <2>1. QED BY <1>2, <1>4, <1>5, <1>7, <1>8, <1>9
<1>11. SQLMatches(pattern, path) <=> Covers(pattern, path)
  <2> DEFINE same == Left(path, Len(p) - 1) = Left(p, Len(p) - 1)
  <2>1. starred => (same <=> begins)
    BY <1>8
  <2>2. SQLMatches(pattern, path) <=> p = <<Star>> \/ (starred /\ same) \/ path = p
    BY <1>2, <1>6
  <2> HIDE DEF begins, same
  <2>3. QED BY <1>4, <1>7, <2>1, <2>2
<1>12. QED BY <1>10, <1>11

-----------------------------------------------------------------------------
\* The inductive invariant.

\* Only a policy that exists has users.
Assigned == \A u \in Users, i \in PolicyIds : <<u, i>> \in user_policies => policies[i] # NoPolicy

PoliciesInv == PoliciesTypeOK /\ Assigned

\* Versions belong to a secret: a purge leaves none behind.
NoOrphans ==
    \A i \in Ids : (\A p \in Paths : secrets[p] = NoSecret \/ secrets[p].id # i)
        => \A v \in Versions : secret_versions[i][v] = NoVersion

\* The row a call has read is of a secret that was drawn, whose versions were
\* at most added to, and which its path still has unless it was purged.
RowOK(k) ==
    k.row # NoSecret =>
        /\ k.row.current > 0 /\ k.row.id \in issued
        /\ \A p \in Paths : secrets[p] # NoSecret /\ secrets[p].id = k.row.id => secrets[p].current >= k.row.current
        /\ ~k.purged => secrets[k.path] # NoSecret /\ secrets[k.path].id = k.row.id

\* What a call knows at each of its steps.
StepOK(k) ==
    /\ k.op \in AdminOps => k.row = NoSecret
    /\ k.pc \in {"authorize", "row"} => k.row = NoSecret
    /\ k.pc \in {"authorize", "row", "versions", "value"} => k.value = NoValue
    /\ k.pc = "row" => k.op \notin AdminOps
    /\ k.pc = "versions" => k.op \in AdminOps \/ k.row # NoSecret
    /\ k.pc = "value" => k.op \in {"get", "reveal", "bao_read"}
    /\ k.pc = "audit" => k.value # NoValue
    /\ k.value # NoValue => k.op \in {"bao_read", "reveal"}

\* The metadata a call has read, and the value that goes with it.
ReadOK(k) ==
    /\ k.op = "bao_read" /\ (k.pc = "value" \/ k.value # NoValue)
          => k.row # NoSecret /\ k.version \in Versions /\ k.states[k.version] = "live"
    /\ k.op = "bao_read" /\ k.value # NoValue => k.value.version = k.version /\ (k.purged \/ k.value.id = k.row.id)
    /\ k.pc \in {"value", "audit", "answer"} /\ k.row # NoSecret /\ (k.op \in BaoOps \/ ~k.purged)
          => \A v \in 1..k.row.current : k.states[v] # "none"

CallOK(k) == RowOK(k) /\ StepOK(k) /\ ReadOK(k)

CallsOK == \A c \in Calls : call[c] # NoCall => CallOK(call[c])

IInv ==
    /\ TypeOK /\ TablesInv /\ Assigned /\ NoOrphans
    /\ CallsOK /\ ValueAudited

-----------------------------------------------------------------------------
\* Policies.

\* The three changes of the policies keep what is stored valid, and take the
\* users of a policy away with it.
LEMMA PoliciesStep ==
    ASSUME PoliciesInv, [PoliciesNext]_policyVars
    PROVE  PoliciesInv' /\ [StartsUnassigned]_policyVars
<1>1. CASE UNCHANGED policyVars
  BY <1>1 DEF PoliciesInv, PoliciesTypeOK, Assigned, policyVars
<1>2. ASSUME NEW i \in PolicyIds, NEW input \in PolicyInputs, PutPolicy(i, input)
      PROVE  PoliciesInv' /\ StartsUnassigned
  <2>1. input \in Policy /\ input # NoPolicy
    BY PolicyAssumption
  <2>2. \A j \in PolicyIds : policies'[j] = IF j = i THEN input ELSE policies[j]
    BY <1>2 DEF PutPolicy, PoliciesInv, PoliciesTypeOK
  <2>3. PoliciesTypeOK'
    BY <1>2, <2>1, <2>2 DEF PutPolicy, ValidPolicy, PoliciesInv, PoliciesTypeOK
  <2>4. Assigned'
    BY <1>2, <2>1, <2>2 DEF PutPolicy, PoliciesInv, Assigned
  <2>5. StartsUnassigned
    BY <1>2 DEF PutPolicy, PoliciesInv, Assigned, StartsUnassigned
  <2>6. QED BY <2>3, <2>4, <2>5 DEF PoliciesInv
<1>3. ASSUME NEW i \in PolicyIds, DeletePolicy(i) PROVE PoliciesInv' /\ StartsUnassigned
  <2>1. \A j \in PolicyIds : policies'[j] = IF j = i THEN NoPolicy ELSE policies[j]
    BY <1>3 DEF DeletePolicy, PoliciesInv, PoliciesTypeOK
  <2>2. user_policies' \subseteq user_policies /\ \A u \in Users : <<u, i>> \notin user_policies'
    BY <1>3 DEF DeletePolicy
  <2>3. PoliciesTypeOK'
    BY <1>3, <2>1, <2>2 DEF DeletePolicy, PoliciesInv, PoliciesTypeOK
  <2>4. Assigned'
    BY <2>1, <2>2 DEF PoliciesInv, Assigned
  <2>5. StartsUnassigned
    BY <2>1 DEF StartsUnassigned
  <2>6. QED BY <2>3, <2>4, <2>5 DEF PoliciesInv
<1>4. ASSUME NEW i \in PolicyIds, NEW us \in SUBSET Users, SetPolicyUsers(i, us) PROVE PoliciesInv' /\ StartsUnassigned
  <2>1. PoliciesTypeOK'
    BY <1>4 DEF SetPolicyUsers, PoliciesInv, PoliciesTypeOK
  <2>2. Assigned'
    BY <1>4 DEF SetPolicyUsers, PoliciesInv, Assigned
  <2>3. StartsUnassigned
    BY <1>4 DEF SetPolicyUsers, StartsUnassigned
  <2>4. QED BY <2>1, <2>2, <2>3 DEF PoliciesInv
<1>5. QED BY <1>1, <1>2, <1>3, <1>4 DEF PoliciesNext

\* Texts are strings, and a rule that is stored has one.
LEMMA MatchersAlwaysAgree == MatchersAgree
<1> SUFFICES ASSUME NEW pattern \in Texts, NEW path \in Texts, ValidPath(path)
             PROVE  /\ PathMatches(pattern, path) <=> Covers(pattern, path)
                    /\ SQLMatches(pattern, path) <=> Covers(pattern, path)
  BY DEF MatchersAgree
<1>1. \A t \in Texts : t \in Strings
  <2> SUFFICES ASSUME NEW n \in 0..MaxText, NEW t \in [1..n -> Alphabet] PROVE t \in Strings
    BY DEF Texts
  <2>1. n \in Nat
    BY PolicyAssumption
  <2>2. QED BY <2>1 DEF Strings
<1>2. QED BY <1>1, Matchers

LEMMA EvaluatorsFromPolicies ==
    ASSUME PoliciesTypeOK PROVE EvaluatorsAgree
<1> SUFFICES ASSUME NEW u \in Users, NEW t \in Probes
             PROVE  /\ \A cap \in Capabilities : CanAccess(u, t, cap) <=> cap \in CapabilitiesForPath(u, t)
                    /\ ValidPath(t) =>
                         /\ \A cap \in Capabilities :
                               SimulateAccess(u, t, cap) <=> u \in ActiveUsers /\ CanAccess(u, t, cap)
                         /\ ListFilter(u, t) => CanAccess(u, t, "list")
                         /\ (\A i \in PoliciesOf(u) : policies[i].exact) => (CanAccess(u, t, "list") => ListFilter(u, t))
  BY MatchersAlwaysAgree DEF EvaluatorsAgree
<1>1. Role[u] \in {"admin", "manager", "auditor", "user"}
  BY PolicyAssumption
<1>2. \A cap \in Capabilities : CanAccess(u, t, cap) <=> cap \in CapabilitiesForPath(u, t)
  BY <1>1 DEF CanAccess, CapabilitiesForPath, Capabilities
<1>3. ASSUME ValidPath(t), NEW cap \in Capabilities
      PROVE  SimulateAccess(u, t, cap) <=> u \in ActiveUsers /\ CanAccess(u, t, cap)
  <2>1. Trim(t) = t
    BY <1>3 DEF ValidPath
  <2>2. QED BY <1>1, <2>1 DEF SimulateAccess, CanAccess
<1>4. ASSUME ValidPath(t), NEW i \in PoliciesOf(u), NEW r \in policies[i].rules
      PROVE  PathMatches(r.path, t) <=> SQLMatches(r.path, t)
  <2>1. policies[i] \in Policy
    BY DEF PoliciesOf, PoliciesTypeOK
  <2>2. r.path \in Probes
    BY <2>1 DEF Policy, Rule
  <2>3. r.path \in Strings /\ t \in Strings
    BY <2>2, PolicyAssumption DEF Strings
  <2>4. QED BY <1>4, <2>3, Matchers
<1>5. \A r : r \in RulesOf(u) <=> \E i \in PoliciesOf(u) : r \in policies[i].rules
  BY DEF RulesOf
<1>6. ASSUME ValidPath(t)
      PROVE  /\ ListFilter(u, t) => CanAccess(u, t, "list")
             /\ (\A i \in PoliciesOf(u) : policies[i].exact) => (CanAccess(u, t, "list") => ListFilter(u, t))
  BY <1>1, <1>4, <1>5, <1>6 DEF ListFilter, CanAccess
<1>7. QED BY <1>2, <1>3, <1>6

-----------------------------------------------------------------------------
\* One call: its steps change nothing but the call and its log row.

Pcs == {"authorize", "row", "versions", "value", "audit", "answer"}
Asked == 0..MaxVersion
Rows == SecretRow \cup {NoSecret}
StateSets == [Versions -> States]
Sent == Value \cup {NoValue}

LEMMA CallShape ==
    Call = [op : ReadOps, pc : Pcs, user : Users, path : Paths, version : Asked, row : Rows,
            states : StateSets, value : Sent, purged : BOOLEAN]
BY DEF Call, Pcs, Asked, Rows, StateSets, Sent

\* The audit row of a value that is being sent.
LogOK(c, k, log) ==
    k.pc = "answer" /\ k.value # NoValue => log = [user |-> k.user, path |-> k.path, version |-> k.value.version]

LEMMA CallStep ==
    ASSUME IInv, NEW c \in Calls, NEW new \in Call \cup {NoCall},
           call' = [call EXCEPT ![c] = new],
           new # NoCall => CallOK(new) /\ LogOK(c, new, logged'[c]),
           logged' \in [Calls -> Log \cup {NoLog}], \A d \in Calls : d # c => logged'[d] = logged[d],
           UNCHANGED <<tables, policyVars>>
    PROVE  IInv'
<1>1. TypeOK'
  BY DEF IInv, TypeOK, TablesTypeOK, PoliciesTypeOK, tables, policyVars
<1>2. TablesInv' /\ Assigned' /\ NoOrphans'
  BY DEF IInv, TablesInv, TablesTypeOK, KeysKept, HistoryComplete, Sealed, IdsDrawn, Assigned, NoOrphans,
         tables, policyVars
<1>3. \A d \in Calls : call'[d] = IF d = c THEN new ELSE call[d]
  BY DEF IInv, TypeOK
<1>4. CallsOK'
  <2>1. ASSUME NEW d \in Calls, call'[d] # NoCall PROVE CallOK(call'[d])
    BY <1>3, <2>1 DEF IInv, CallsOK
  <2>2. ASSUME NEW d \in Calls, call'[d] # NoCall PROVE CallOK(call[d])'
    <3>1. RowOK(call'[d]) /\ StepOK(call'[d]) /\ ReadOK(call'[d])
      BY <2>1, <2>2 DEF CallOK
    <3>2. RowOK(call[d])'
      BY <3>1 DEF RowOK, tables
    <3>3. StepOK(call[d])' /\ ReadOK(call[d])'
      BY <3>1 DEF StepOK, ReadOK
    <3>4. QED BY <3>2, <3>3 DEF CallOK
  <2>3. QED BY <2>2 DEF CallsOK
<1>5. ValueAudited'
  <2> SUFFICES ASSUME NEW d \in Calls, call'[d] # NoCall, call'[d].pc = "answer", call'[d].value # NoValue
               PROVE  /\ call'[d].op \in {"bao_read", "reveal"}
                      /\ logged'[d] = [user |-> call'[d].user, path |-> call'[d].path, version |-> call'[d].value.version]
    BY DEF ValueAudited, At
  <2>1. CASE d = c
    BY <1>3, <2>1 DEF CallOK, StepOK, LogOK
  <2>2. CASE d # c
    <3>1. call'[d] = call[d] /\ logged'[d] = logged[d]
      BY <1>3, <2>2
    <3>2. At(d, "answer") /\ call[d].value # NoValue
      BY <3>1 DEF At
    <3>3. /\ call[d].op \in {"bao_read", "reveal"}
          /\ logged[d] = [user |-> call[d].user, path |-> call[d].path, version |-> call[d].value.version]
      BY <3>2 DEF IInv, ValueAudited
    <3>4. QED BY <3>1, <3>3
  <2>3. QED BY <2>1, <2>2
<1>6. QED BY <1>1, <1>2, <1>4, <1>5 DEF IInv

LEMMA RefuseStep ==
    ASSUME IInv, NEW c \in Calls, Refuse(c), UNCHANGED <<tables, policyVars, logged>>
    PROVE  IInv'
BY CallStep DEF Refuse, IInv, TypeOK

LEMMA ArriveStep ==
    ASSUME IInv, NEW c \in Calls, NEW op \in ReadOps, NEW u \in Users, NEW p \in Paths, NEW v \in 0..MaxVersion,
           Arrive(c, op, u, p, v)
    PROVE  IInv'
<1> DEFINE states == [w \in Versions |-> "none"]
           no == FALSE
           new == [op |-> op, pc |-> "authorize", user |-> u, path |-> p, version |-> v, row |-> NoSecret,
                   states |-> states, value |-> NoValue, purged |-> no]
<1>1. call' = [call EXCEPT ![c] = new]
  BY DEF Arrive
<1>2. new \in Call
  <2>1. "authorize" \in Pcs /\ v \in Asked /\ NoSecret \in Rows /\ NoValue \in Sent /\ no \in BOOLEAN
    BY DEF Pcs, Asked, Rows, Sent
  <2>2. states \in StateSets
    BY DEF StateSets, States
  <2> HIDE DEF no, states
  <2>3. QED BY <2>1, <2>2, CallShape, Zenon
<1> HIDE DEF no, states
<1>3. new.op = op /\ new.pc = "authorize" /\ new.row = NoSecret /\ new.value = NoValue
  OBVIOUS
<1> HIDE DEF new
<1>4. CallOK(new) /\ LogOK(c, new, logged'[c])
  BY <1>3 DEF CallOK, RowOK, StepOK, ReadOK, LogOK
<1>5. /\ logged' \in [Calls -> Log \cup {NoLog}] /\ \A d \in Calls : d # c => logged'[d] = logged[d]
      /\ UNCHANGED <<tables, policyVars>>
  <2>1. logged' = [logged EXCEPT ![c] = NoLog] /\ UNCHANGED <<tables, policyVars>>
    BY DEF Arrive
  <2>2. QED BY <2>1 DEF IInv, TypeOK
<1>6. QED BY <1>1, <1>2, <1>4, <1>5, CallStep

LEMMA AuthorizeStep ==
    ASSUME IInv, NEW c \in Calls, Authorize(c) PROVE IInv'
<1> DEFINE k == call[c]
           pc == CASE k.op = "versions" -> "versions" [] k.op \in {"get", "reveal"} -> "value" [] OTHER -> "row"
           new == [k EXCEPT !.pc = pc]
<1>1. k \in Call /\ k # NoCall /\ k.pc = "authorize" /\ CallOK(k)
  BY DEF Authorize, At, IInv, TypeOK, CallsOK
<1>2. UNCHANGED <<tables, policyVars, logged>> /\ (Refuse(c) \/ call' = [call EXCEPT ![c] = new])
  BY <1>1 DEF Authorize, IInv, TypeOK
<1>3. k.op \in ReadOps
  BY <1>1, CallShape
<1>4. /\ pc \in {"versions", "value", "row"}
      /\ pc = "versions" => k.op \in AdminOps
      /\ pc = "value" => k.op \in {"get", "reveal"}
      /\ pc = "row" => k.op \notin AdminOps
  BY <1>3 DEF ReadOps, AdminOps, BaoOps
<1> HIDE DEF pc
<1>5. new \in Call /\ new.pc = pc /\ new.op = k.op /\ new.row = k.row /\ new.value = k.value
  <2>1. pc \in Pcs
    BY <1>4 DEF Pcs
  <2>2. QED BY <1>1, <2>1, CallShape, Zenon
<1> HIDE DEF new, k
<1>6. new.row = NoSecret /\ new.value = NoValue
  BY <1>1, <1>5 DEF CallOK, StepOK
<1>7. CallOK(new) /\ LogOK(c, new, logged'[c])
  BY <1>4, <1>5, <1>6 DEF CallOK, RowOK, StepOK, ReadOK, LogOK
<1>8. logged' \in [Calls -> Log \cup {NoLog}] /\ \A d \in Calls : d # c => logged'[d] = logged[d]
  BY <1>2 DEF IInv, TypeOK
<1>9. CASE Refuse(c)
  BY <1>2, <1>9, RefuseStep
<1>10. CASE call' = [call EXCEPT ![c] = new]
  BY <1>2, <1>5, <1>7, <1>8, <1>10, CallStep
<1>11. QED BY <1>2, <1>9, <1>10

LEMMA ReadRowStep ==
    ASSUME IInv, NEW c \in Calls, ReadRow(c) PROVE IInv'
<1> DEFINE k == call[c]
           s == secrets[k.path]
           new == [k EXCEPT !.pc = "versions", !.row = s]
<1>1. k \in Call /\ k # NoCall /\ k.pc = "row" /\ CallOK(k) /\ k.path \in Paths /\ k.op \in ReadOps
  <2>1. k \in Call /\ k # NoCall /\ k.pc = "row" /\ CallOK(k)
    BY DEF ReadRow, At, IInv, TypeOK, CallsOK
  <2>2. QED BY <2>1, CallShape
<1>2. UNCHANGED <<tables, policyVars, logged>>
  BY DEF ReadRow
<1>3. Refuse(c) \/ (SecretExists(k.path) /\ call' = [call EXCEPT ![c] = new])
  BY <1>1 DEF ReadRow, IInv, TypeOK
<1>4. CASE Refuse(c)
  BY <1>2, <1>4, RefuseStep
<1>5. CASE SecretExists(k.path) /\ call' = [call EXCEPT ![c] = new]
  <2>1. s # NoSecret /\ s \in SecretRow /\ s.current > 0 /\ s.current \in Nat /\ s.id \in issued
    BY <1>1, <1>5 DEF SecretExists, IInv, TablesInv, TablesTypeOK, HistoryComplete, IdsDrawn, SecretRow
  <2>2. \A p \in Paths : secrets[p] # NoSecret /\ secrets[p].id = s.id => p = k.path
    BY <1>1, <2>1 DEF IInv, TablesInv, IdsDrawn
  <2>3. call' = [call EXCEPT ![c] = new]
    BY <1>5
  <2>4. new \in Call /\ new.pc = "versions" /\ new.row = s /\ new.op = k.op /\ new.value = k.value /\ new.path = k.path
    <3>1. "versions" \in Pcs /\ s \in Rows
      BY <2>1 DEF Pcs, Rows
    <3> HIDE DEF s
    <3>2. QED BY <1>1, <3>1, CallShape, Zenon
  <2> HIDE DEF new
  <2>5. k.value = NoValue /\ k.op \notin AdminOps
    BY <1>1 DEF CallOK, StepOK
  <2>6. RowOK(new)
    <3>1. new.row.current > 0 /\ new.row.id \in issued
      BY <2>1, <2>4
    <3>2. ASSUME NEW p \in Paths, secrets[p] # NoSecret, secrets[p].id = new.row.id
          PROVE  secrets[p].current >= new.row.current
      <4>1. secrets[p] = s
        BY <2>2, <2>4, <3>2
      <4>2. QED BY <2>1, <2>4, <4>1
    <3>3. secrets[new.path] # NoSecret /\ secrets[new.path].id = new.row.id
      BY <2>1, <2>4
    <3>4. QED BY <3>1, <3>2, <3>3 DEF RowOK
  <2>7. StepOK(new) /\ ReadOK(new) /\ LogOK(c, new, logged'[c])
    BY <2>1, <2>4, <2>5 DEF StepOK, ReadOK, LogOK
  <2>8. logged' \in [Calls -> Log \cup {NoLog}] /\ \A d \in Calls : d # c => logged'[d] = logged[d]
    BY <1>2 DEF IInv, TypeOK
  <2>9. QED BY <1>2, <2>3, <2>4, <2>6, <2>7, <2>8, CallStep DEF CallOK
<1>6. QED BY <1>3, <1>4, <1>5

\* The versions of an id are listed completely, or not at all.
LEMMA StatesComplete ==
    ASSUME IInv, NEW i \in Ids, NEW n \in Nat,
           \A p \in Paths : secrets[p] # NoSecret /\ secrets[p].id = i => secrets[p].current >= n,
           \E w \in Versions : StatesById(i)[w] # "none"
    PROVE  StatesById(i) \in StateSets /\ \A v \in Versions : v <= n => StatesById(i)[v] # "none"
<1>1. \A v \in Versions : StatesById(i)[v] = "none" <=> secret_versions[i][v] = NoVersion
  BY DEF StatesById, StateOf
<1>2. PICK p \in Paths : secrets[p] # NoSecret /\ secrets[p].id = i
  BY <1>1 DEF IInv, NoOrphans
<1>3. secrets[p].current >= n /\ secrets[p].current \in Nat
  BY <1>2 DEF IInv, TablesInv, TablesTypeOK, SecretRow
<1>4. \A v \in Versions : v <= secrets[p].current => secret_versions[i][v] # NoVersion
  BY <1>2 DEF IInv, TablesInv, HistoryComplete
<1>5. \A v \in Versions : v <= n => v <= secrets[p].current
  BY <1>3 DEF Versions
<1>6. StatesById(i) \in StateSets
  BY DEF StatesById, StateOf, StateSets, States
<1>7. QED BY <1>1, <1>4, <1>5, <1>6

LEMMA VersionsTyped ==
    ASSUME IInv, NEW c \in Calls, call[c] \in Call
    PROVE  VersionsRead(c) \in StateSets
<1>1. \A i : StatesById(i) \in StateSets
  BY DEF StatesById, StateOf, StateSets, States
<1>2. [v \in Versions |-> "none"] \in StateSets
  BY DEF StateSets, States
<1>3. QED BY <1>1, <1>2 DEF VersionsRead, StatesByPath

LEMMA ReadVersionsStep ==
    ASSUME IInv, NEW c \in Calls, ReadVersions(c) PROVE IInv'
<1> DEFINE k == call[c]
           states == VersionsRead(c)
           v == IF k.version = 0 THEN k.row.current ELSE k.version
           pc == IF states[v] = "live" THEN "value" ELSE "answer"
           plain == [k EXCEPT !.pc = "answer", !.states = states]
           found == [k EXCEPT !.states = states, !.version = v]
           data == [found EXCEPT !.pc = pc]
<1>1. k \in Call /\ k # NoCall /\ k.pc = "versions" /\ CallOK(k)
  BY DEF ReadVersions, At, IInv, TypeOK, CallsOK
<1>2. k.path \in Paths /\ k.op \in ReadOps /\ k.version \in 0..MaxVersion /\ k.row \in Rows
  BY <1>1, CallShape DEF Asked
<1>3. UNCHANGED <<tables, policyVars, logged>>
  BY DEF ReadVersions
<1>4. \/ Refuse(c)
      \/ k.op \notin BaoOps /\ call' = [call EXCEPT ![c] = plain]
      \/ k.op \in BaoOps /\ (\E w \in Versions : states[w] # "none") /\ k.op # "bao_read" /\ call' = [call EXCEPT ![c] = plain]
      \/ /\ k.op = "bao_read" /\ (\E w \in Versions : states[w] # "none") /\ states[v] # "none"
         /\ call' = [call EXCEPT ![c] = data]
  BY DEF ReadVersions, BaoOps, IInv, TypeOK
<1>5. states \in StateSets
  BY <1>1, VersionsTyped
<1>6. k.value = NoValue /\ (k.op \in AdminOps => k.row = NoSecret) /\ (k.op \notin AdminOps => k.row # NoSecret)
  BY <1>1 DEF CallOK, StepOK
<1>7. ASSUME k.row # NoSecret, k.op \in BaoOps => \E w \in Versions : states[w] # "none", k.op \in BaoOps \/ ~k.purged
      PROVE  \A w \in 1..k.row.current : states[w] # "none"
  <2>1. k.row \in SecretRow /\ k.row.id \in Ids /\ k.row.current \in Nat /\ k.row.current <= MaxVersion
    BY <1>2, <1>7, BoundsAssumption DEF Rows, SecretRow
  <2>2. \A p \in Paths : secrets[p] # NoSecret /\ secrets[p].id = k.row.id => secrets[p].current >= k.row.current
    BY <1>1, <1>7 DEF CallOK, RowOK
  <2>3. CASE k.op \in BaoOps
    <3>1. states = StatesById(k.row.id)
      BY <2>3 DEF VersionsRead
    <3>2. \E w \in Versions : StatesById(k.row.id)[w] # "none"
      BY <1>7, <2>3, <3>1
    <3>3. \A w \in Versions : w <= k.row.current => states[w] # "none"
      BY <2>1, <2>2, <3>1, <3>2, StatesComplete
    <3>4. QED BY <2>1, <3>3, BoundsAssumption DEF Versions
  <2>4. CASE k.op \notin BaoOps
    <3>1. secrets[k.path] # NoSecret /\ secrets[k.path].id = k.row.id
      BY <1>1, <1>7, <2>4 DEF CallOK, RowOK
    <3>2. states = StatesById(k.row.id)
      BY <2>4, <3>1 DEF VersionsRead, StatesByPath
    <3>3. secret_versions[k.row.id][1] # NoVersion /\ 1 \in Versions
      <4>1. 1 \in Versions /\ 1 <= secrets[k.path].current
        BY <1>2, <3>1, BoundsAssumption DEF Versions, IInv, TablesInv, HistoryComplete, TablesTypeOK, SecretRow
      <4>2. QED BY <1>2, <3>1, <4>1 DEF IInv, TablesInv, HistoryComplete
    <3>4. \E w \in Versions : StatesById(k.row.id)[w] # "none"
      BY <3>3 DEF StatesById, StateOf
    <3>5. \A w \in Versions : w <= k.row.current => states[w] # "none"
      BY <2>1, <2>2, <3>2, <3>4, StatesComplete
    <3>6. QED BY <2>1, <3>5, BoundsAssumption DEF Versions
  <2>5. QED BY <2>3, <2>4
<1>8. logged' \in [Calls -> Log \cup {NoLog}] /\ \A d \in Calls : d # c => logged'[d] = logged[d]
  BY <1>3 DEF IInv, TypeOK
<1>9. ASSUME Refuse(c) PROVE IInv'
  BY <1>3, <1>9, RefuseStep
<1>10. ASSUME call' = [call EXCEPT ![c] = plain], k.op \in BaoOps => \E w \in Versions : states[w] # "none",
              k.op # "bao_read"
       PROVE  IInv'
  <2>1. /\ plain \in Call /\ plain.pc = "answer" /\ plain.states = states /\ plain.row = k.row /\ plain.op = k.op
        /\ plain.value = k.value /\ plain.path = k.path /\ plain.purged = k.purged
    <3>1. "answer" \in Pcs
      BY DEF Pcs
    <3> HIDE DEF states, k
    <3>2. QED BY <1>1, <1>5, <3>1, CallShape, Zenon
  <2>2. call' = [call EXCEPT ![c] = plain]
    BY <1>10
  <2> HIDE DEF plain, states, k
  <2>3. RowOK(plain)
    BY <1>1, <2>1 DEF CallOK, RowOK
  <2>4. StepOK(plain) /\ LogOK(c, plain, logged'[c])
    BY <1>6, <2>1 DEF StepOK, LogOK
  <2>5. ReadOK(plain)
    <3>1. plain.value = NoValue /\ plain.pc # "value"
      BY <1>6, <2>1
    <3>2. plain.row # NoSecret /\ (plain.op \in BaoOps \/ ~plain.purged)
            => \A w \in 1..plain.row.current : plain.states[w] # "none"
      BY <1>7, <1>10, <2>1
    <3>3. QED BY <3>1, <3>2 DEF ReadOK
  <2>6. QED BY <1>3, <1>8, <2>1, <2>2, <2>3, <2>4, <2>5, CallStep DEF CallOK
<1>11. ASSUME k.op = "bao_read", \E w \in Versions : states[w] # "none", states[v] # "none",
              call' = [call EXCEPT ![c] = data]
       PROVE  IInv'
  <2>1. k.op \notin AdminOps /\ k.op \in BaoOps /\ k.row # NoSecret
    BY <1>6, <1>11 DEF AdminOps, BaoOps
  <2>2. k.row \in SecretRow /\ k.row.current > 0
    BY <1>1, <1>2, <2>1 DEF Rows, CallOK, RowOK
  <2>3. v \in Versions
    BY <1>2, <2>2, BoundsAssumption DEF Versions, SecretRow
  <2>4. \A w \in 1..k.row.current : states[w] # "none"
    BY <1>7, <1>11, <2>1
  <2>5. call' = [call EXCEPT ![c] = data]
    BY <1>11
  <2>6. pc \in {"value", "answer"} /\ (pc = "value" => states[v] = "live")
    OBVIOUS
  <2>7. /\ data \in Call /\ data.pc = pc /\ data.states = states /\ data.row = k.row /\ data.op = k.op
        /\ data.value = k.value /\ data.path = k.path /\ data.purged = k.purged /\ data.version = v
    <3>1. pc \in Pcs /\ v \in Asked
      BY <2>3, <2>6 DEF Pcs, Asked, Versions
    <3> HIDE DEF states, v, pc, k
    <3>2. /\ found \in Call /\ found.states = states /\ found.row = k.row /\ found.op = k.op
          /\ found.value = k.value /\ found.path = k.path /\ found.purged = k.purged /\ found.version = v
      BY <1>1, <1>5, <3>1, CallShape, Zenon
    <3> HIDE DEF found
    <3>3. QED BY <3>1, <3>2, CallShape, Zenon
  <2> HIDE DEF data, states, pc, v, k
  <2>8. RowOK(data)
    BY <1>1, <2>7 DEF CallOK, RowOK
  <2>9. StepOK(data) /\ LogOK(c, data, logged'[c])
    BY <1>6, <1>11, <2>1, <2>6, <2>7 DEF StepOK, LogOK
  <2>10. ReadOK(data)
    BY <1>6, <2>1, <2>3, <2>4, <2>6, <2>7 DEF ReadOK
  <2>11. QED BY <1>3, <1>8, <2>5, <2>7, <2>8, <2>9, <2>10, CallStep DEF CallOK
<1>12. QED
  <2> HIDE DEF plain, data, states, v, pc
  <2>1. k.op \notin BaoOps => k.op # "bao_read"
    BY DEF BaoOps
  <2>2. QED BY <1>4, <1>9, <1>10, <1>11, <2>1

LEMMA GetSecretStep ==
    ASSUME IInv, NEW c \in Calls, GetSecret(c) PROVE IInv'
<1> DEFINE k == call[c]
           p == k.path
           i == secrets[p].id
           v == ReadVersion(c)
           value == [id |-> i, version |-> v, data |-> secret_versions[i][v].data]
           pc == IF k.op = "get" THEN "answer" ELSE "audit"
           out == IF k.op = "get" THEN NoValue ELSE value
           new == [k EXCEPT !.pc = pc, !.value = out]
<1>1. k \in Call /\ k # NoCall /\ k.pc = "value" /\ CallOK(k)
  BY DEF GetSecret, At, IInv, TypeOK, CallsOK
<1>2. k.path \in Paths /\ k.op \in {"get", "reveal", "bao_read"} /\ k.version \in 0..MaxVersion
  <2>1. k.path \in Paths /\ k.version \in Asked
    BY <1>1, CallShape
  <2>2. QED BY <1>1, <2>1 DEF Asked, CallOK, StepOK
<1>3. UNCHANGED <<tables, policyVars, logged>>
  BY DEF GetSecret
<1>4. Refuse(c) \/ (SecretExists(p) /\ Decrypts(i, v) /\ call' = [call EXCEPT ![c] = new])
  BY DEF GetSecret, IInv, TypeOK
<1>5. CASE Refuse(c)
  BY <1>3, <1>5, RefuseStep
<1>6. CASE SecretExists(p) /\ Decrypts(i, v) /\ call' = [call EXCEPT ![c] = new]
  <2>1. secrets[p] # NoSecret /\ i \in Ids /\ secrets[p].current \in Versions
    BY <1>2, <1>6, BoundsAssumption
       DEF SecretExists, IInv, TablesInv, TablesTypeOK, SecretRow, HistoryComplete, Versions
  <2>2. v \in Versions
    BY <1>2, <2>1, BoundsAssumption DEF ReadVersion, Versions
  <2>3. secret_versions[i][v].data \in Data
    BY <1>6 DEF Decrypts
  <2>4. value \in Value /\ value.id = i /\ value.version = v /\ value # NoValue
    <3>1. value \in Value /\ value.id = i /\ value.version = v
      BY <2>1, <2>2, <2>3 DEF Value
    <3>2. QED BY <3>1, CallAssumption
  <2>5. call' = [call EXCEPT ![c] = new]
    BY <1>6
  <2> HIDE DEF value
  <2>6. pc \in {"answer", "audit"} /\ (pc = "audit" <=> k.op # "get") /\ out \in Sent
        /\ (k.op = "get" => out = NoValue) /\ (k.op # "get" => out = value)
    BY <2>4 DEF Sent
  <2>7. /\ new \in Call /\ new.pc = pc /\ new.value = out /\ new.states = k.states /\ new.row = k.row
        /\ new.op = k.op /\ new.path = k.path /\ new.purged = k.purged /\ new.version = k.version
    <3>1. pc \in Pcs
      BY <2>6 DEF Pcs
    <3> HIDE DEF pc, out, k
    <3>2. QED BY <1>1, <2>6, <3>1, CallShape, Zenon
  <2>8. k.op = "bao_read" => k.row # NoSecret /\ k.version \in Versions /\ k.states[k.version] = "live" /\ v = k.version
    <3>1. k.op = "bao_read" => k.row # NoSecret /\ k.version \in Versions /\ k.states[k.version] = "live"
      BY <1>1 DEF CallOK, ReadOK
    <3>2. QED BY <3>1 DEF ReadVersion, Versions
  <2>9. k.op = "bao_read" => k.purged \/ i = k.row.id
    BY <1>1, <2>8 DEF CallOK, RowOK
  <2> HIDE DEF new, pc, out, v
  <2>10. RowOK(new)
    BY <1>1, <2>7 DEF CallOK, RowOK
  <2>11. StepOK(new)
    <3>1. k.op \in AdminOps => k.row = NoSecret
      BY <1>1 DEF CallOK, StepOK
    <3>2. out # NoValue => k.op # "get"
      BY <2>6
    <3>3. QED BY <1>2, <2>4, <2>6, <2>7, <3>1, <3>2 DEF StepOK
  <2>12. ReadOK(new)
    <3>1. k.row # NoSecret /\ (k.op \in BaoOps \/ ~k.purged) => \A w \in 1..k.row.current : k.states[w] # "none"
      BY <1>1 DEF CallOK, ReadOK
    <3>2. new.op = "bao_read" => new.value = value
      BY <2>6, <2>7
    <3>3. new.op = "bao_read" => new.row # NoSecret /\ new.version \in Versions /\ new.states[new.version] = "live"
      BY <2>7, <2>8
    <3>4. new.op = "bao_read" => new.value.version = new.version /\ (new.purged \/ new.value.id = new.row.id)
      BY <2>4, <2>7, <2>8, <2>9, <3>2
    <3>5. QED BY <2>7, <3>1, <3>3, <3>4 DEF ReadOK
  <2>13. LogOK(c, new, logged'[c])
    BY <2>6, <2>7 DEF LogOK
  <2>14. logged' \in [Calls -> Log \cup {NoLog}] /\ \A d \in Calls : d # c => logged'[d] = logged[d]
    BY <1>3 DEF IInv, TypeOK
  <2>15. QED BY <1>3, <2>5, <2>7, <2>10, <2>11, <2>12, <2>13, <2>14, CallStep DEF CallOK
<1>7. QED BY <1>4, <1>5, <1>6

LEMMA RecordAuditStep ==
    ASSUME IInv, NEW c \in Calls, RecordAudit(c) PROVE IInv'
<1> DEFINE k == call[c]
           v == IF k.op = "reveal" THEN k.value.version ELSE k.version
           log == [user |-> k.user, path |-> k.path, version |-> v]
           new == [k EXCEPT !.pc = "answer"]
<1>1. k \in Call /\ k # NoCall /\ k.pc = "audit" /\ CallOK(k)
  BY DEF RecordAudit, At, IInv, TypeOK, CallsOK
<1>2. UNCHANGED <<tables, policyVars>> /\ call' = [call EXCEPT ![c] = new]
  BY <1>1 DEF RecordAudit, IInv, TypeOK
<1>3. logged' = [logged EXCEPT ![c] = log]
  BY DEF RecordAudit
<1>4. /\ new \in Call /\ new.pc = "answer" /\ new.value = k.value /\ new.states = k.states /\ new.row = k.row
      /\ new.op = k.op /\ new.path = k.path /\ new.purged = k.purged /\ new.version = k.version /\ new.user = k.user
  <2>1. "answer" \in Pcs
    BY DEF Pcs
  <2>2. QED BY <1>1, <2>1, CallShape, Zenon
<1>5. k.value # NoValue /\ k.op \in {"bao_read", "reveal"}
  BY <1>1 DEF CallOK, StepOK
<1>6. v = k.value.version
  BY <1>1, <1>5 DEF CallOK, ReadOK
<1>7. k.value \in Value /\ k.user \in Users /\ k.path \in Paths
  BY <1>1, <1>5, CallShape DEF Sent
<1>8. log \in Log /\ log = [user |-> k.user, path |-> k.path, version |-> k.value.version]
  BY <1>6, <1>7 DEF Value, Log, Versions
<1> HIDE DEF new, log, v
<1>9. RowOK(new)
  BY <1>1, <1>4 DEF CallOK, RowOK
<1>10. StepOK(new)
  BY <1>1, <1>4, <1>5 DEF CallOK, StepOK
<1>11. ReadOK(new)
  BY <1>1, <1>4 DEF CallOK, ReadOK
<1>12. logged' \in [Calls -> Log \cup {NoLog}] /\ \A d \in Calls : logged'[d] = IF d = c THEN log ELSE logged[d]
  BY <1>3, <1>8 DEF IInv, TypeOK
<1>13. LogOK(c, new, logged'[c])
  BY <1>4, <1>8, <1>12 DEF LogOK
<1>14. QED BY <1>2, <1>4, <1>9, <1>10, <1>11, <1>12, <1>13, CallStep DEF CallOK

LEMMA CallEnds ==
    ASSUME IInv, NEW c \in Calls, StatementFails(c) \/ Answer(c) PROVE IInv'
BY RefuseStep DEF StatementFails, Answer

-----------------------------------------------------------------------------
\* The transactions of others, while calls are under way.

\* No id that was drawn changes hands, and its versions only become more.
IdsGrow ==
    /\ issued \subseteq issued'
    /\ \A p \in Paths : secrets'[p] # NoSecret /\ secrets'[p].id \in issued =>
          secrets[p] # NoSecret /\ secrets'[p].id = secrets[p].id /\ secrets'[p].current >= secrets[p].current

PathKept(p) == secrets[p] # NoSecret => secrets'[p] # NoSecret /\ secrets'[p].id = secrets[p].id

\* A call after a step of another: the same, but that it may have been marked.
Marked(k) == [k EXCEPT !.purged = TRUE]
SameCall(k, new) == k = new \/ (k # NoCall /\ new = Marked(k))

LEMMA MarkedIs ==
    ASSUME NEW k \in Call
    PROVE  /\ Marked(k) \in Call /\ Marked(k).purged = TRUE /\ Marked(k) # NoCall
           /\ Marked(k).op = k.op /\ Marked(k).pc = k.pc /\ Marked(k).user = k.user /\ Marked(k).path = k.path
           /\ Marked(k).version = k.version /\ Marked(k).row = k.row /\ Marked(k).states = k.states
           /\ Marked(k).value = k.value
<1> DEFINE yes == TRUE
           new == [k EXCEPT !.purged = yes]
<1>1. Marked(k) = new /\ yes \in BOOLEAN
  BY DEF Marked
<1> HIDE DEF yes
<1>2. /\ new \in Call /\ new.purged = yes
      /\ new.op = k.op /\ new.pc = k.pc /\ new.user = k.user /\ new.path = k.path
      /\ new.version = k.version /\ new.row = k.row /\ new.states = k.states /\ new.value = k.value
  BY <1>1, CallShape, Zenon
<1> HIDE DEF new
<1>3. QED BY <1>1, <1>2, CallAssumption DEF yes

LEMMA CommitStep ==
    ASSUME IInv, TablesInv', NoOrphans', IdsGrow, UNCHANGED <<policyVars, logged>>,
           call' \in [Calls -> Call \cup {NoCall}],
           \A c \in Calls : SameCall(call[c], call'[c]),
           \A c \in Calls : call'[c] # NoCall => call'[c].purged \/ PathKept(call'[c].path)
    PROVE  IInv'
<1>1. TypeOK' /\ Assigned'
  BY DEF IInv, TypeOK, TablesInv, PoliciesTypeOK, Assigned, policyVars
<1>2. ASSUME NEW c \in Calls, call'[c] # NoCall
      PROVE  LET k == call[c]  new == call'[c] IN
             /\ k \in Call /\ k # NoCall /\ CallOK(k) /\ new \in Call
             /\ new.op = k.op /\ new.pc = k.pc /\ new.user = k.user /\ new.path = k.path
             /\ new.version = k.version /\ new.row = k.row /\ new.states = k.states /\ new.value = k.value
             /\ ~new.purged => ~k.purged
  <2>1. call[c] # NoCall /\ call[c] \in Call /\ CallOK(call[c])
    BY <1>2 DEF SameCall, IInv, TypeOK, CallsOK
  <2>2. CASE call'[c] = call[c]
    BY <2>1, <2>2
  <2>3. CASE call'[c] = Marked(call[c])
    <3>1. ASSUME NEW k \in Call, CallOK(k), NEW new, new = Marked(k)
          PROVE  /\ new \in Call
                 /\ new.op = k.op /\ new.pc = k.pc /\ new.user = k.user /\ new.path = k.path
                 /\ new.version = k.version /\ new.row = k.row /\ new.states = k.states /\ new.value = k.value
                 /\ ~new.purged => ~k.purged
      BY <3>1, MarkedIs
    <3>2. QED BY <2>1, <2>3, <3>1
  <2>4. QED BY <1>2, <2>2, <2>3 DEF SameCall
<1>3. CallsOK'
  <2> SUFFICES ASSUME NEW c \in Calls, call'[c] # NoCall PROVE CallOK(call[c])'
    BY DEF CallsOK
  <2>1. CallOK(call[c])
    BY <1>2
  <2>2. RowOK(call[c])'
    <3> SUFFICES ASSUME call'[c].row # NoSecret
                 PROVE  LET r == call'[c].row  q == call'[c].path IN
                        /\ r.current > 0 /\ r.id \in issued'
                        /\ \A p \in Paths : secrets'[p] # NoSecret /\ secrets'[p].id = r.id => secrets'[p].current >= r.current
                        /\ ~call'[c].purged => secrets'[q] # NoSecret /\ secrets'[q].id = r.id
      BY DEF RowOK
    <3> DEFINE r == call[c].row
    <3>1. call'[c].row = r /\ call'[c].path = call[c].path /\ call[c].path \in Paths /\ r \in SecretRow
      <4>1. call'[c].row = r /\ call'[c].path = call[c].path /\ call[c] \in Call
        BY <1>2
      <4>2. call[c].path \in Paths /\ r \in Rows
        BY <4>1, CallShape
      <4>3. QED BY <4>1, <4>2 DEF Rows
    <3>2. /\ r.current > 0 /\ r.id \in issued
          /\ \A p \in Paths : secrets[p] # NoSecret /\ secrets[p].id = r.id => secrets[p].current >= r.current
          /\ ~call[c].purged => secrets[call[c].path] # NoSecret /\ secrets[call[c].path].id = r.id
      BY <2>1, <3>1 DEF CallOK, RowOK
    <3>3. ASSUME NEW p \in Paths, secrets'[p] # NoSecret, secrets'[p].id = r.id PROVE secrets'[p].current >= r.current
      <4>1. secrets[p] # NoSecret /\ secrets[p].id = r.id /\ secrets'[p].current >= secrets[p].current
        BY <3>2, <3>3 DEF IdsGrow
      <4>2. secrets[p].current >= r.current
        BY <3>2, <4>1
      <4>3. secrets[p].current \in Int /\ secrets'[p].current \in Int /\ r.current \in Int
        <5>1. secrets[p] \in SecretRow /\ secrets'[p] \in SecretRow
          BY <3>3, <4>1 DEF IInv, TablesInv, TablesTypeOK
        <5>2. QED BY <3>1, <5>1 DEF SecretRow
      <4>4. QED BY <4>1, <4>2, <4>3
    <3>4. ~call'[c].purged => secrets'[call[c].path] # NoSecret /\ secrets'[call[c].path].id = r.id
      BY <1>2, <3>1, <3>2 DEF PathKept
    <3>5. QED BY <3>1, <3>2, <3>3, <3>4 DEF IdsGrow
  <2>3. StepOK(call[c])'
    BY <1>2, <2>1 DEF CallOK, StepOK
  <2>4. ReadOK(call[c])'
    <3>1. ReadOK(call[c])
      BY <2>1 DEF CallOK
    <3>2. (~call'[c].purged => ~call[c].purged) /\ (call[c].purged => call'[c].purged)
      BY <1>2
    <3>3. QED BY <1>2, <3>1, <3>2 DEF ReadOK
  <2>5. QED BY <2>2, <2>3, <2>4 DEF CallOK
<1>4. ValueAudited'
  <2> SUFFICES ASSUME NEW c \in Calls, call'[c] # NoCall, call'[c].pc = "answer", call'[c].value # NoValue
               PROVE  /\ call'[c].op \in {"bao_read", "reveal"}
                      /\ logged'[c] = [user |-> call'[c].user, path |-> call'[c].path, version |-> call'[c].value.version]
    BY DEF ValueAudited, At
  <2>1. At(c, "answer") /\ call[c].value # NoValue
    BY <1>2 DEF At
  <2>2. /\ call[c].op \in {"bao_read", "reveal"}
        /\ logged[c] = [user |-> call[c].user, path |-> call[c].path, version |-> call[c].value.version]
    BY <2>1 DEF IInv, ValueAudited
  <2>3. QED BY <1>2, <2>2
<1>5. QED BY <1>1, <1>3, <1>4 DEF IInv

\* A step that leaves the calls alone, and every path with its id.
LEMMA WriteStep ==
    ASSUME IInv, TablesInv', NoOrphans', IdsGrow, UNCHANGED <<policyVars, call, logged>>,
           \A p \in Paths : PathKept(p)
    PROVE  IInv'
<1>1. call' \in [Calls -> Call \cup {NoCall}] /\ \A c \in Calls : SameCall(call[c], call'[c])
  BY DEF IInv, TypeOK, SameCall
<1>2. ASSUME NEW c \in Calls, call'[c] # NoCall PROVE PathKept(call'[c].path)
  <2>1. call'[c] \in Call
    BY <1>1, <1>2
  <2>2. call'[c].path \in Paths
    BY <2>1, CallShape
  <2>3. QED BY <2>2 DEF PathKept
<1>3. QED BY <1>1, <1>2, CommitStep

LEMMA CommitPutStep ==
    ASSUME IInv, CommitPut PROVE IInv'
<1>1. PICK p \in Paths, u \in ActiveUsers, d \in Data : PutOpenBaoSecretTx(p, u, 1, d)
  BY DEF CommitPut
<1>2. UNCHANGED <<user_keys, personal_key_version, policyVars, call, logged>>
  BY DEF CommitPut
<1>3. u \in Users /\ 1 \in KeyVersions /\ 1 <= personal_key_version[u]
  BY PolicyAssumption, BoundsAssumption DEF KeyVersions, IInv, TablesInv, TablesTypeOK
<1>4. PICK attrs, m : TablesInv' /\ PutDone(p, u, 1, d, attrs, m)
  <2>1. TablesInv
    BY DEF IInv
  <2>2. TablesInv' /\ PutDone(p, u, 1, d, IF secrets[p] = NoSecret THEN Blank ELSE secrets[p].attrs, CurrentMeta(p))
    BY <1>1, <1>2, <1>3, <2>1, PutOpenBaoKeeps
  <2>3. QED BY <2>2
<1> DEFINE s == secrets'[p]
<1>5. /\ s \in SecretRow /\ s # NoSecret /\ s.current = Written(p) + 1 /\ (secrets[p] # NoSecret => s.id = secrets[p].id)
      /\ \A q \in Paths : q # p => secrets'[q] = secrets[q]
      /\ \A j \in Ids, w \in Versions : j # s.id => secret_versions'[j][w] = secret_versions[j][w]
  BY <1>4, NullAssumption DEF PutDone
<1>6. PICK i \in Ids : /\ DrawId(p, i)
                       /\ secrets'[p].id = PutRow(p, i, IF secrets[p] = NoSecret THEN Blank ELSE secrets[p].attrs).id
  <2>1. PICK i \in Ids : DrawId(p, i) /\ InsertSecretVersion(p,
                            PutRow(p, i, IF secrets[p] = NoSecret THEN Blank ELSE secrets[p].attrs), u, 1, d, CurrentMeta(p))
    BY <1>1 DEF PutOpenBaoSecretTx
  <2> DEFINE row == PutRow(p, i, IF secrets[p] = NoSecret THEN Blank ELSE secrets[p].attrs)
  <2>2. secrets' = [secrets EXCEPT ![p] = [row EXCEPT !.current = row.current + 1]]
    BY <2>1 DEF InsertSecretVersion
  <2> HIDE DEF row
  <2>3. secrets'[p].id = row.id
    BY <2>2 DEF IInv, TypeOK, TablesTypeOK
  <2>4. QED BY <2>1, <2>3 DEF row
<1>7. issued \subseteq issued' /\ (secrets[p] = NoSecret => s.id \notin issued)
  <2>1. CASE secrets[p] = NoSecret
    BY <1>6, <2>1 DEF DrawId, PutRow
  <2>2. CASE secrets[p] # NoSecret
    BY <1>6, <2>2 DEF DrawId
  <2>3. QED BY <2>1, <2>2
<1>8. IdsGrow
  <2> SUFFICES ASSUME NEW q \in Paths, secrets'[q] # NoSecret, secrets'[q].id \in issued
               PROVE  secrets[q] # NoSecret /\ secrets'[q].id = secrets[q].id /\ secrets'[q].current >= secrets[q].current
    BY <1>7 DEF IdsGrow
  <2>1. secrets[q] # NoSecret => secrets[q].current \in Nat
    BY DEF IInv, TablesInv, TablesTypeOK, SecretRow
  <2>2. QED BY <1>5, <1>7, <2>1 DEF Written
<1>9. NoOrphans'
  <2> SUFFICES ASSUME NEW j \in Ids, \A q \in Paths : secrets'[q] = NoSecret \/ secrets'[q].id # j, NEW w \in Versions
               PROVE  secret_versions'[j][w] = NoVersion
    BY DEF NoOrphans
  <2>1. j # s.id
    BY <1>5
  <2>2. \A q \in Paths : secrets[q] = NoSecret \/ secrets[q].id # j
    BY <1>5, <2>1
  <2>3. QED BY <1>5, <2>1, <2>2 DEF IInv, NoOrphans
<1>10. \A q \in Paths : PathKept(q)
  BY <1>5 DEF PathKept
<1>11. QED BY <1>2, <1>4, <1>8, <1>9, <1>10, WriteStep

LEMMA CommitMutationStep ==
    ASSUME IInv, CommitMutation PROVE IInv'
<1>1. PICK p \in Paths, v \in Versions, op \in {"delete", "undelete", "destroy"} :
        SecretExists(p) /\ MutateVersions(p, {v}, op)
  BY DEF CommitMutation
<1>2. UNCHANGED <<secrets, user_keys, personal_key_version, issued, policyVars, call, logged>>
  BY DEF CommitMutation
<1>3. secrets[p] # NoSecret /\ TablesInv
  BY <1>1 DEF SecretExists, IInv
<1>4. TablesInv' /\ MutateDone(p, {v}, op)
  BY <1>1, <1>2, <1>3, MutateKeepsTables, MutateEffect
<1>5. \A j \in Ids, w \in Versions : secret_versions[j][w] = NoVersion => secret_versions'[j][w] = NoVersion
  BY <1>4 DEF MutateDone
<1>6. NoOrphans'
  BY <1>2, <1>5 DEF IInv, NoOrphans
<1>7. IdsGrow /\ \A q \in Paths : PathKept(q)
  BY <1>2 DEF IdsGrow, PathKept, IInv, TablesInv, TablesTypeOK, SecretRow
<1>8. QED BY <1>2, <1>4, <1>6, <1>7, WriteStep

LEMMA CommitDeleteStep ==
    ASSUME IInv, CommitDelete PROVE IInv'
<1>1. PICK p \in Paths : SoftDelete(p)
  BY DEF CommitDelete
<1>2. UNCHANGED <<secret_versions, user_keys, personal_key_version, issued, policyVars, call, logged>>
  BY DEF CommitDelete
<1>3. TablesInv' /\ SoftDeleteDone(p)
  BY <1>1, <1>2, SoftDeleteKeepsTables DEF IInv
<1>4. \A q \in Paths : secrets'[q] # NoSecret <=> secrets[q] # NoSecret
  BY <1>3, NullAssumption DEF SoftDeleteDone
<1>5. \A q \in Paths : secrets[q] # NoSecret => secrets'[q].id = secrets[q].id /\ secrets'[q].current = secrets[q].current
  BY <1>3 DEF SoftDeleteDone
<1>6. NoOrphans'
  BY <1>2, <1>4, <1>5 DEF IInv, NoOrphans
<1>7. IdsGrow /\ \A q \in Paths : PathKept(q)
  BY <1>2, <1>4, <1>5 DEF IdsGrow, PathKept, IInv, TablesInv, TablesTypeOK, SecretRow
<1>8. QED BY <1>2, <1>3, <1>6, <1>7, WriteStep

LEMMA CommitPurgeStep ==
    ASSUME IInv, CommitPurge PROVE IInv'
<1>1. PICK p \in Paths :
        /\ PurgeSecret(p)
        /\ call' = [c \in Calls |-> IF call[c] # NoCall /\ call[c].path = p THEN Marked(call[c]) ELSE call[c]]
  BY DEF CommitPurge, Marked
<1>2. UNCHANGED <<user_keys, personal_key_version, issued, policyVars, logged>>
  BY DEF CommitPurge
<1>3. TablesInv' /\ PurgeDone(p)
  BY <1>1, <1>2, PurgeKeepsTables, PurgeEffect DEF IInv
<1>4. IdsGrow
  BY <1>2, <1>3 DEF PurgeDone, IdsGrow, IInv, TablesInv, TablesTypeOK, SecretRow
<1>5. \A q \in Paths : q # p => PathKept(q)
  BY <1>3 DEF PurgeDone, PathKept
<1>6. NoOrphans'
  <2> SUFFICES ASSUME NEW j \in Ids, \A q \in Paths : secrets'[q] = NoSecret \/ secrets'[q].id # j, NEW w \in Versions
               PROVE  secret_versions'[j][w] = NoVersion
    BY DEF NoOrphans
  <2>1. CASE j = secrets[p].id
    BY <1>3, <2>1 DEF PurgeDone
  <2>2. CASE j # secrets[p].id
    <3>1. \A q \in Paths : secrets[q] = NoSecret \/ secrets[q].id # j
      BY <1>3, <2>2 DEF PurgeDone
    <3>2. secret_versions[j][w] = NoVersion
      BY <3>1 DEF IInv, NoOrphans
    <3>3. QED BY <1>3, <2>2, <3>2 DEF PurgeDone
  <2>3. QED BY <2>1, <2>2
<1>7. \A c \in Calls : call[c] \in Call \cup {NoCall}
  BY DEF IInv, TypeOK
<1>8. \A c \in Calls : call'[c] \in Call \cup {NoCall} /\ SameCall(call[c], call'[c])
  BY <1>1, <1>7, MarkedIs DEF SameCall
<1>9. call' \in [Calls -> Call \cup {NoCall}]
  BY <1>1, <1>8
<1>10. ASSUME NEW c \in Calls, call'[c] # NoCall PROVE call'[c].purged \/ PathKept(call'[c].path)
  <2>1. CASE call[c] # NoCall /\ call[c].path = p
    BY <1>1, <1>7, <2>1, MarkedIs
  <2>2. CASE ~(call[c] # NoCall /\ call[c].path = p)
    <3>1. call'[c] = call[c]
      BY <1>1, <2>2
    <3>2. call[c] \in Call /\ call[c].path # p
      BY <1>7, <1>10, <2>2, <3>1
    <3>3. call'[c].path \in Paths /\ call'[c].path # p
      BY <3>1, <3>2, CallShape
    <3>4. QED BY <1>5, <3>3
  <2>3. QED BY <2>1, <2>2
<1>11. QED BY <1>2, <1>3, <1>4, <1>6, <1>8, <1>9, <1>10, CommitStep

-----------------------------------------------------------------------------
LEMMA IInvInit ==
    ASSUME Init PROVE IInv
<1>1. TablesInv
  BY TablesInvInit DEF Init
<1>2. PoliciesTypeOK /\ Assigned
  BY DEF Init, PoliciesInit, PoliciesTypeOK, Assigned
<1>3. TypeOK
  BY <1>1, <1>2 DEF Init, TypeOK, TablesInv
<1>4. NoOrphans
  BY DEF Init, TablesInit, NoOrphans
<1>5. CallsOK /\ ValueAudited
  BY DEF Init, CallsOK, ValueAudited, At
<1>6. QED BY <1>1, <1>2, <1>3, <1>4, <1>5 DEF IInv

\* Policies change while calls are under way.
LEMMA PolicyChange ==
    ASSUME IInv, PoliciesNext, UNCHANGED <<tables, call, logged>> PROVE IInv'
<1>1. PoliciesInv
  BY DEF IInv, TypeOK, PoliciesInv
<1>2. PoliciesInv'
  BY <1>1, PoliciesStep
<1>3. TypeOK' /\ Assigned'
  BY <1>2 DEF IInv, TypeOK, TablesTypeOK, tables, PoliciesInv
<1>4. TablesInv' /\ NoOrphans'
  BY DEF IInv, TablesInv, TablesTypeOK, KeysKept, HistoryComplete, Sealed, IdsDrawn, NoOrphans, tables
<1>5. CallsOK' /\ ValueAudited'
  BY DEF IInv, CallsOK, CallOK, RowOK, StepOK, ReadOK, ValueAudited, At, tables
<1>6. QED BY <1>3, <1>4, <1>5 DEF IInv

LEMMA IInvNext ==
    ASSUME IInv, [Next]_vars PROVE IInv'
<1>1. CASE UNCHANGED vars
  <2>1. UNCHANGED <<tables, policyVars, call, logged>>
    BY <1>1 DEF vars
  <2>2. TypeOK' /\ Assigned'
    BY <2>1 DEF IInv, TypeOK, TablesTypeOK, PoliciesTypeOK, Assigned, tables, policyVars
  <2>3. TablesInv' /\ NoOrphans'
    BY <2>1 DEF IInv, TablesInv, TablesTypeOK, KeysKept, HistoryComplete, Sealed, IdsDrawn, NoOrphans, tables
  <2>4. CallsOK' /\ ValueAudited'
    BY <2>1 DEF IInv, CallsOK, CallOK, RowOK, StepOK, ReadOK, ValueAudited, At, tables
  <2>5. QED BY <2>2, <2>3, <2>4 DEF IInv
<1>2. ASSUME NEW c \in Calls,
             \/ \E op \in ReadOps, u \in Users, p \in Paths, v \in 0..MaxVersion : Arrive(c, op, u, p, v)
             \/ Authorize(c) \/ ReadRow(c) \/ ReadVersions(c) \/ GetSecret(c)
             \/ RecordAudit(c) \/ StatementFails(c) \/ Answer(c)
      PROVE  IInv'
  BY <1>2, ArriveStep, AuthorizeStep, ReadRowStep, ReadVersionsStep, GetSecretStep, RecordAuditStep, CallEnds
<1>3. CASE CommitPut \/ CommitMutation \/ CommitDelete \/ CommitPurge
  BY <1>3, CommitPutStep, CommitMutationStep, CommitDeleteStep, CommitPurgeStep
<1>4. CASE PoliciesNext /\ UNCHANGED <<tables, call, logged>>
  BY <1>4, PolicyChange
<1>5. QED BY <1>1, <1>2, <1>3, <1>4 DEF Next

\* The inductive invariant holds of every behaviour.
THEOREM DisclosureInvariance == Spec => []IInv
<1>1. Init => IInv
  BY IInvInit
<1>2. IInv /\ [Next]_vars => IInv'
  BY IInvNext
<1>3. QED BY <1>1, <1>2, PTL DEF Spec

\* Tables, policies, calls and log rows keep their types, for any number of
\* paths, versions, policies and calls.
THEOREM DisclosureTyped == Spec => []TypeOK
<1>1. IInv => TypeOK
  BY DEF IInv
<1>2. QED BY <1>1, DisclosureInvariance, PTL

\* No value leaves the server before its audit row is stored, and the row names
\* the version that was really read: revealSecret, recordSensitiveDisclosure.
THEOREM ValuesAlwaysAudited == Spec => []ValueAudited
<1>1. IInv => ValueAudited
  BY DEF IInv
<1>2. QED BY <1>1, DisclosureInvariance, PTL

\* The metadata of OpenBaoKVMetadata and secrets.metadata has no gap, although
\* it is read in two statements between which others write and purge.
THEOREM MetadataAlwaysWhole == Spec => []MetadataWhole
<1>1. IInv => MetadataWhole
  <2> SUFFICES ASSUME IInv, NEW c \in Calls, At(c, "answer"), call[c].row # NoSecret,
                      call[c].op \in BaoOps \/ ~call[c].purged
               PROVE  \A v \in 1..call[c].row.current : call[c].states[v] # "none"
    BY DEF MetadataWhole
  <2>1. ReadOK(call[c]) /\ call[c].pc = "answer"
    BY DEF At, IInv, CallsOK, CallOK
  <2>2. QED BY <2>1 DEF ReadOK
<1>2. QED BY <1>1, DisclosureInvariance, PTL

\* Value and metadata of one baoKVRead are of one live version of one secret,
\* unless it was purged between its statements.
THEOREM AnswersAlwaysCoherent == Spec => []AnswerCoherent
<1>1. IInv => AnswerCoherent
  <2> SUFFICES ASSUME IInv, NEW c \in Calls, At(c, "answer"), call[c].op = "bao_read", call[c].value # NoValue
               PROVE  /\ call[c].value.version = call[c].version
                      /\ call[c].states[call[c].version] = "live"
                      /\ ~call[c].purged => call[c].value.id = call[c].row.id
    BY DEF AnswerCoherent
  <2>1. ReadOK(call[c])
    BY DEF At, IInv, CallsOK, CallOK
  <2>2. QED BY <2>1 DEF ReadOK
<1>2. QED BY <1>1, DisclosureInvariance, PTL

\* The four evaluators of policies agree in every state, for patterns, paths
\* and alphabets of any size: pathMatches and the SQL of listSecretsFiltered
\* are the documented relation.
THEOREM EvaluatorsAlwaysAgree == Spec => []EvaluatorsAgree
<1>1. IInv => EvaluatorsAgree
  BY EvaluatorsFromPolicies DEF IInv, TypeOK
<1>2. QED BY <1>1, DisclosureInvariance, PTL

\* A policy made again under a deleted id has no users.
THEOREM PoliciesStartUnassigned == Spec => FreshPolicyUnassigned
<1>1. IInv /\ [Next]_vars => [StartsUnassigned]_policyVars
  <2> SUFFICES ASSUME IInv, [Next]_vars PROVE [StartsUnassigned]_policyVars
    OBVIOUS
  <2>1. PoliciesInv
    BY DEF IInv, TypeOK, PoliciesInv
  <2>2. PoliciesNext \/ UNCHANGED policyVars
    <3>1. CASE UNCHANGED vars
      BY <3>1 DEF vars
    <3>2. ASSUME NEW c \in Calls,
                 \/ \E op \in ReadOps, u \in Users, p \in Paths, v \in 0..MaxVersion : Arrive(c, op, u, p, v)
                 \/ Authorize(c) \/ ReadRow(c) \/ ReadVersions(c) \/ GetSecret(c)
                 \/ RecordAudit(c) \/ StatementFails(c) \/ Answer(c)
          PROVE  UNCHANGED policyVars
      BY <3>2, Zenon
         DEF Arrive, Authorize, ReadRow, ReadVersions, GetSecret, RecordAudit, StatementFails, Answer
    <3>3. CASE CommitPut \/ CommitMutation \/ CommitDelete \/ CommitPurge
      BY <3>3, Zenon DEF CommitPut, CommitMutation, CommitDelete, CommitPurge
    <3>4. QED BY <3>1, <3>2, <3>3 DEF Next
  <2>3. QED BY <2>1, <2>2, PoliciesStep
<1>2. QED BY <1>1, DisclosureInvariance, PTL DEF Spec, FreshPolicyUnassigned
=============================================================================
