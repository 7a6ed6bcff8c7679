----------------------------- MODULE MCAccounts -----------------------------
(* Small instances of Accounts for TLC. *)
EXTENDS Accounts, TLC

CONSTANTS a1, a2, u1

LocalAdmin == [role |-> "admin", active |-> TRUE, pw |-> 1, source |-> "local"]
OidcAdmin == [role |-> "admin", active |-> TRUE, pw |-> 0, source |-> "oidc"]

\* Two administrators that were made by the first one, and a free name.
TwoAdmins == [u \in Users |-> IF u \in {a1, a2} THEN LocalAdmin ELSE NoUser]

\* The bootstrap administrator alone.
OneAdmin == [u \in Users |-> IF u = a1 THEN LocalAdmin ELSE NoUser]

Sym == Permutations(Requests) \cup Permutations(SessionIds) \cup Permutations(Codes)

=============================================================================
