------------------------------- MODULE KeyRing -------------------------------
(***************************************************************************)
(* What the transit engine promises of its keys: every name has a ring of  *)
(* keys that only ever grows by a fresh key at its end, data is sealed     *)
(* with the newest key of the ring, and what was sealed once can be opened *)
(* for ever with the key its version number names.                         *)
(***************************************************************************)
EXTENDS Integers, Sequences

CONSTANTS
    Names,          \* names of keys
    Plaintexts

VARIABLES
    ring,           \* name -> the keys it has had, oldest first
    sealed          \* ciphertexts in the world

vars == <<ring, sealed>>

Init ==
    /\ ring = [n \in Names |-> <<>>]
    /\ sealed = {}

\* Creation and rotation: one more key, never used before.
Extend(n) ==
    /\ Len(ring'[n]) = Len(ring[n]) + 1
    /\ LET k == ring'[n][Len(ring[n]) + 1]
       IN  /\ \A m \in Names : \A i \in DOMAIN ring[m] : ring[m][i] # k
           /\ ring' = [ring EXCEPT ![n] = Append(@, k)]
    /\ UNCHANGED sealed

\* One item sealed with the newest key.
Seal(n, p) ==
    /\ ring[n] # <<>>
    /\ LET v == Len(ring[n])
       IN  sealed' = sealed \cup {[name |-> n, version |-> v, key |-> ring[n][v], plain |-> p]}
    /\ UNCHANGED ring

Next ==
    \E n \in Names : Extend(n) \/ \E p \in Plaintexts : Seal(n, p)

Spec == Init /\ [][Next]_vars
=============================================================================
