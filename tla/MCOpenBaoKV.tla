---------------------------- MODULE MCOpenBaoKV -----------------------------
(* Small instances of OpenBaoKV for TLC. *)
EXTENDS OpenBaoKV, TLC

CONSTANTS u1, p1, d1

AllCaps == {"create", "update", "delete", "rotate"}

\* Every account may do everything.
AllGrants == Users \X Paths \X AllCaps

AllPerms == {"encrypt", "decrypt", "rotate"}

\* The full set, each set with one permission missing.
SomePerms == {AllPerms} \cup {AllPerms \ {x} : x \in AllPerms}

Sym == Permutations(Requests) \cup Permutations(Ids)

=============================================================================
