--------------------------- MODULE MCLoginLimiter ---------------------------
(* Small instances of LoginLimiter for TLC. *)
EXTENDS LoginLimiter, TLC

Sym == Permutations(Keys) \cup Permutations(Logins)

=============================================================================
