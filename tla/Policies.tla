------------------------------ MODULE Policies ------------------------------
(***************************************************************************)
(* Path policies: the tables policies and user_policies, the handlers that *)
(* change them, and the four places of the program that evaluate them:     *)
(* canAccessWith, CapabilitiesForPaths, SimulateAccess and the WHERE       *)
(* clause of listSecretsFiltered, which repeats the matching in SQL.       *)
(*                                                                         *)
(* The text of a path or pattern is a sequence of characters here, because *)
(* the matching is about its first and last ones.                          *)
(***************************************************************************)
EXTENDS SecretTables, Sequences

CONSTANTS
    Text,           \* Text[p]: the characters of path p
    Probes,         \* texts of rules, and those the evaluators are compared on
    Alphabet,       \* characters, and
    MaxText,        \* the length, of the texts the two matchers are compared on
    Role,           \* Role[u]
    ActiveUsers,
    PolicyIds,
    PolicyInputs,   \* policies administrators send
    NoPolicy

VARIABLES
    policies,       \* id -> row of policies
    user_policies   \* pairs <<user, policy id>>

policyVars == <<policies, user_policies>>

Capabilities == {"create", "read", "update", "delete", "list", "rotate", "encrypt", "decrypt"}
Slash == "/"
Star == "*"

\* exact: the keys of the JSON are spelt "paths", "path" and "capabilities".
\* encoding/json takes any case, the SQL of the list only this one.
Rule == [path : Probes, capabilities : SUBSET STRING]
Policy == [rules : SUBSET Rule, exact : BOOLEAN]

\* Stored rules have a path and only capabilities the program knows.
PoliciesTypeOK ==
    /\ policies \in [PolicyIds -> Policy \cup {NoPolicy}]
    /\ \A i \in PolicyIds : policies[i] # NoPolicy =>
           \A r \in policies[i].rules : r.path # <<>> /\ r.capabilities \subseteq Capabilities
    /\ user_policies \subseteq Users \X PolicyIds

PoliciesInit == policies = [i \in PolicyIds |-> NoPolicy] /\ user_policies = {}

-----------------------------------------------------------------------------
\* strings.Trim(s, "/") and SQL trim(both '/' from s).
Trim(s) ==
    LET kept == {i \in 1..Len(s) : s[i] # Slash}
    IN  IF kept = {} THEN <<>>
        ELSE SubSeq(s, CHOOSE i \in kept : \A j \in kept : i <= j, CHOOSE i \in kept : \A j \in kept : i >= j)

\* ValidateSecretPath: what a stored path, and one to simulate, looks like.
ValidPath(s) == s # <<>> /\ s = Trim(s) /\ \A i \in 1..Len(s) : s[i] # Star

ASSUME PolicyAssumption ==
    /\ \A p \in Paths : Text[p] \in Probes /\ ValidPath(Text[p])
    /\ \A u \in Users : Role[u] \in {"admin", "manager", "auditor", "user"}
    /\ ActiveUsers \subseteq Users
    /\ {Slash, Star} \subseteq Alphabet /\ Probes \subseteq Seq(Alphabet) /\ MaxText \in Nat
    /\ PolicyInputs \subseteq Policy /\ NoPolicy \notin Policy

HasPrefix(s, t) == Len(t) <= Len(s) /\ SubSeq(s, 1, Len(t)) = t

\* pathMatches.
PathMatches(pattern, value) ==
    LET p == Trim(pattern)
    IN  \/ p = <<Star>>
        \/ p # <<>> /\ p[Len(p)] = Star /\ HasPrefix(Trim(value), SubSeq(p, 1, Len(p) - 1))
        \/ Trim(value) = p /\ (p # <<>> => p[Len(p)] # Star)

\* SQL left(s, n): the whole of a shorter text.
Left(s, n) == IF n > Len(s) THEN s ELSE SubSeq(s, 1, n)

\* The same in listSecretsFiltered, on the path as it is stored.
SQLMatches(pattern, path) ==
    LET p == Trim(pattern)
    IN  \/ p = <<Star>>
        \/ p # <<>> /\ p[Len(p)] = Star /\ Left(path, Len(p) - 1) = Left(p, Len(p) - 1)
        \/ path = p

\* policies JOIN user_policies.
PoliciesOf(u) == {i \in PolicyIds : <<u, i>> \in user_policies /\ policies[i] # NoPolicy}
RulesOf(u) == UNION {policies[i].rules : i \in PoliciesOf(u)}

\* canAccessWith: the role decides, or any rule that grants; no rule denies.
CanAccess(u, value, capability) ==
    CASE Role[u] \in {"admin", "manager"} -> TRUE
      [] Role[u] = "auditor" -> capability = "list"
      [] OTHER -> \E r \in RulesOf(u) : PathMatches(r.path, value) /\ capability \in r.capabilities

CapabilitiesForPath(u, value) ==
    CASE Role[u] \in {"admin", "manager"} -> Capabilities
      [] Role[u] = "auditor" -> {"list"}
      [] OTHER -> UNION {r.capabilities : r \in {q \in RulesOf(u) : PathMatches(q.path, value)}}

SimulateAccess(u, value, capability) ==
    /\ u \in ActiveUsers
    /\ CASE Role[u] \in {"admin", "manager"} -> TRUE
         [] Role[u] = "auditor" -> capability = "list"
         [] OTHER -> \E r \in RulesOf(u) : PathMatches(r.path, Trim(value)) /\ capability \in r.capabilities

\* Mutant: any rule on a path lists it.
ListAnyRule(u, path) ==
    \/ Role[u] \in {"admin", "manager", "auditor"}
    \/ \E i \in PoliciesOf(u) :
          /\ policies[i].exact
          /\ \E r \in policies[i].rules : SQLMatches(r.path, path)

ListFilter(u, path) ==
    \/ Role[u] \in {"admin", "manager", "auditor"}
    \/ \E i \in PoliciesOf(u) :
          /\ policies[i].exact
          /\ \E r \in policies[i].rules : "list" \in r.capabilities /\ SQLMatches(r.path, path)

-----------------------------------------------------------------------------
\* Mutant: every policy passes.
AnyPolicy(input) == TRUE

\* The checks of PutPolicy.
ValidPolicy(input) == \A r \in input.rules : r.path # <<>> /\ r.capabilities \subseteq Capabilities

\* createPolicy draws an id; updatePolicy takes the one of the URL, and makes
\* the policy if there is none.
PutPolicy(i, input) ==
    /\ ValidPolicy(input)
    /\ policies' = [policies EXCEPT ![i] = input]
    /\ UNCHANGED user_policies

\* Mutant: the assignments of a deleted policy stay.
DeleteOnlyPolicy(i) ==
    /\ policies[i] # NoPolicy
    /\ policies' = [policies EXCEPT ![i] = NoPolicy]
    /\ UNCHANGED user_policies

\* The rows of user_policies cascade.
DeletePolicy(i) ==
    /\ policies[i] # NoPolicy
    /\ policies' = [policies EXCEPT ![i] = NoPolicy]
    /\ user_policies' = {a \in user_policies : a[2] # i}

\* One transaction, with the policy locked: its users are replaced.
SetPolicyUsers(i, us) ==
    /\ policies[i] # NoPolicy
    /\ user_policies' = {a \in user_policies : a[2] # i} \cup (us \X {i})
    /\ UNCHANGED policies

PoliciesNext ==
    \E i \in PolicyIds :
        \/ \E input \in PolicyInputs : PutPolicy(i, input)
        \/ DeletePolicy(i)
        \/ \E us \in SUBSET Users : SetPolicyUsers(i, us)

-----------------------------------------------------------------------------
Texts == UNION {[1..n -> Alphabet] : n \in 0..MaxText}

\* What a pattern stands for: itself, or everything that begins with what
\* comes before its star.
Covers(pattern, path) ==
    LET p == Trim(pattern)
    IN  \/ path = p
        \/ \E n \in 0..Len(path) : p = SubSeq(path, 1, n) \o <<Star>>

\* pathMatches in Go and the WHERE clause in SQL are the same relation on valid
\* paths, and it is the documented one: with several slashes at either end, a
\* star alone, a star inside, and a pattern longer than the path.
MatchersAgree ==
    \A pattern \in Texts, path \in {t \in Texts : ValidPath(t)} :
        /\ PathMatches(pattern, path) <=> Covers(pattern, path)
        /\ SQLMatches(pattern, path) <=> Covers(pattern, path)

\* Every place that evaluates policies gives the answer of canAccessWith: the
\* capabilities shown to a user are those the handlers enforce, the simulator
\* predicts the verdict of an active user and denies an inactive one, and the
\* SQL of a list shows no path that canAccessWith would refuse, and all of them
\* when the user's policies spell their keys as documented.
EvaluatorsAgree ==
    /\ MatchersAgree
    /\ \A u \in Users, t \in Probes :
           /\ \A cap \in Capabilities : CanAccess(u, t, cap) <=> cap \in CapabilitiesForPath(u, t)
           /\ ValidPath(t) =>
                 /\ \A cap \in Capabilities : SimulateAccess(u, t, cap) <=> u \in ActiveUsers /\ CanAccess(u, t, cap)
                 /\ ListFilter(u, t) => CanAccess(u, t, "list")
                 /\ (\A i \in PoliciesOf(u) : policies[i].exact)
                       => (CanAccess(u, t, "list") => ListFilter(u, t))

\* A policy that appears has no users.
StartsUnassigned ==
    \A i \in PolicyIds : policies[i] = NoPolicy /\ policies'[i] # NoPolicy
        => \A u \in Users : <<u, i>> \notin user_policies'

\* A policy that is made under an id that was deleted reaches nobody until it
\* is assigned: updatePolicy makes a missing policy again, so an assignment
\* that outlived the deletion would come back to life with it.
FreshPolicyUnassigned == [][StartsUnassigned]_policyVars
=============================================================================
