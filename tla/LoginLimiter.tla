---------------------------- MODULE LoginLimiter ----------------------------
(***************************************************************************)
(* The table of failed logins in the memory of the server, and the logins  *)
(* that consult it: a login asks whether its key (address and username) is *)
(* blocked, verifies the password, and records how that went.  The mutex   *)
(* makes each of the three calls atomic and no more: any number of logins  *)
(* of one key may be between the first and the last.                       *)
(***************************************************************************)
EXTENDS Integers, FiniteSets

CONSTANTS
    Keys,           \* address and lower-cased username
    Logins,         \* login requests in flight
    Limit,          \* loginFailureLimit
    Window,         \* loginFailureWindow, in ticks
    Capacity,       \* loginFailureCapacity
    MaxTime,        \* bound on the clock
    NoEntry, NoLogin

VARIABLES
    now,
    failures,       \* key -> entry
    login           \* request -> the key it passed the check for

limiterVars == <<now, failures, login>>

Entry == [count : Nat \ {0}, expiresAt : Nat]

ASSUME LimiterAssumption ==
    /\ Limit \in Nat \ {0} /\ Window \in Nat \ {0} /\ Capacity \in Nat \ {0} /\ MaxTime \in Nat
    /\ NoEntry \notin Entry /\ NoLogin \notin Keys
    /\ IsFiniteSet(Keys) /\ IsFiniteSet(Logins)

\* The clock runs, every entry counts a failure, every login is of one key.
LimiterTypeOK ==
    /\ now \in Nat
    /\ failures \in [Keys -> Entry \cup {NoEntry}]
    /\ login \in [Logins -> Keys \cup {NoLogin}]

LimiterInit ==
    /\ now = 0
    /\ failures = [k \in Keys |-> NoEntry]
    /\ login = [c \in Logins |-> NoLogin]

Recorded(f) == {k \in Keys : f[k] # NoEntry}
Live(f, k) == f[k] # NoEntry /\ f[k].expiresAt > now
Locked(f, k) == Live(f, k) /\ f[k].count >= Limit

Tick ==
    /\ now < MaxTime                     \* bound MaxTime
    /\ now' = now + 1
    /\ UNCHANGED <<failures, login>>

\* Mutant: the key is blocked only after one failure more than the limit.
BlockedLate(c, k) ==
    /\ login[c] = NoLogin
    /\ failures' = [failures EXCEPT ![k] = IF Live(failures, k) THEN @ ELSE NoEntry]
    /\ login' = IF Live(failures, k) /\ failures[k].count > Limit THEN login ELSE [login EXCEPT ![c] = k]
    /\ UNCHANGED now

\* blocked: an expired entry is dropped, a locked key is answered 429.
Blocked(c, k) ==
    /\ login[c] = NoLogin
    /\ failures' = [failures EXCEPT ![k] = IF Live(failures, k) THEN @ ELSE NoEntry]
    /\ login' = IF Locked(failures, k) THEN login ELSE [login EXCEPT ![c] = k]
    /\ UNCHANGED now

\* The entry of a key after one more failure: a new window unless one is open.
Counted(k) ==
    IF Live(failures, k)
    THEN [failures[k] EXCEPT !.count = @ + 1]
    ELSE [count |-> 1, expiresAt |-> now + Window]

\* Mutant: any live entry may go.
AnyVictims(f, keep) ==
    LET live == {k \in Keys : Live(f, k)}
        over == Cardinality(live) - Capacity
    IN  {V \in SUBSET (live \ {keep}) : Cardinality(V) = IF over > 0 THEN over ELSE 0}

\* The live entries evict may delete to get back to capacity: keys below the
\* limit in any order (map iteration), then locked ones, earliest expiry first.
Victims(f, keep) ==
    LET live == {k \in Keys : Live(f, k)}
        over == Cardinality(live) - Capacity
        weak == {k \in live \ {keep} : ~Locked(f, k)}
    IN  {V \in SUBSET (live \ {keep}) :
            /\ Cardinality(V) = IF over > 0 THEN over ELSE 0
            /\ V \subseteq weak \/ weak \subseteq V
            /\ \A a \in V \ weak, b \in (live \ {keep}) \ V : f[a].expiresAt <= f[b].expiresAt}

\* Mutant: a full table only loses its expired entries.
FailedKeepingAll(c) ==
    LET k == login[c]
        f == [failures EXCEPT ![k] = Counted(k)]
    IN
    /\ k # NoLogin
    /\ failures' = [j \in Keys |-> IF Live(f, j) THEN f[j] ELSE NoEntry]
    /\ login' = [login EXCEPT ![c] = NoLogin]
    /\ UNCHANGED now

\* failed: count the failure, and evict when the table is over capacity.
Failed(c) ==
    LET k == login[c]
        f == [failures EXCEPT ![k] = Counted(k)]
    IN
    /\ k # NoLogin
    /\ IF Cardinality(Recorded(f)) > Capacity
       THEN \E V \in Victims(f, k) :
                failures' = [j \in Keys |-> IF Live(f, j) /\ j \notin V THEN f[j] ELSE NoEntry]
       ELSE failures' = f
    /\ login' = [login EXCEPT ![c] = NoLogin]
    /\ UNCHANGED now

\* succeeded: the login is granted, its key starts afresh.
Succeeded(c) ==
    /\ login[c] # NoLogin
    /\ failures' = [failures EXCEPT ![login[c]] = NoEntry]
    /\ login' = [login EXCEPT ![c] = NoLogin]
    /\ UNCHANGED now

\* A database error, or a correct password where local login is off: neither
\* failed nor succeeded.
Undecided(c) ==
    /\ login[c] # NoLogin
    /\ login' = [login EXCEPT ![c] = NoLogin]
    /\ UNCHANGED <<now, failures>>

LimiterNext ==
    \/ Tick
    \/ \E c \in Logins :
           \/ \E k \in Keys : Blocked(c, k)
           \/ Failed(c)
           \/ Succeeded(c)
           \/ Undecided(c)

LimiterSpec == LimiterInit /\ [][LimiterNext]_limiterVars

-----------------------------------------------------------------------------
(* Properties *)

\* The table never holds more than Capacity keys, whatever is flooded into it.
WithinCapacity == Cardinality(Recorded(failures)) <= Capacity

Passed(k) == {c \in Logins : login[c] = k}

\* What the lockout is for: in one window a key gets at most Limit failures,
\* plus those of logins that passed the check together with the last of them.
GuessesBounded ==
    \A k \in Keys : Live(failures, k) =>
        failures[k].count + Cardinality(Passed(k)) <= Limit - 1 + Cardinality(Logins)

\* A lockout that a step takes away was given up for a login of that key which
\* was granted, or in a full table whose other keys are locked for as long.
LockoutExcused ==
    \A k \in Keys : Locked(failures, k) /\ failures'[k] = NoEntry =>
        \/ \E c \in Passed(k) : Succeeded(c)
        \/ \E last \in Keys :
               /\ failures'[last] # failures[last] /\ failures'[last] # NoEntry
               /\ Cardinality(Recorded(failures')) = Capacity
               /\ \A j \in Recorded(failures') \ {last} :
                      Locked(failures', j) /\ failures'[j].expiresAt >= failures[k].expiresAt

\* A lockout is given up before it expires only for a login of that key which
\* was granted, or when every other key in the full table is locked as well
\* and for at least as long ("a lockout it does not have to", evict).
LockoutKept == [][LockoutExcused]_limiterVars

=============================================================================
