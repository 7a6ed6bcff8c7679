---------------------------- MODULE MCApprovals -----------------------------
(* Small instances of Approvals for TLC. *)
EXTENDS Approvals, TLC

CONSTANTS u1, m1, p1, slash_p1

\* p1 written by the client as "/p1".
Spellings == [p \in Paths |-> p1]

Both == [targets |-> Targets, reviewer |-> "manager"]
BothAdmin == [targets |-> Targets, reviewer |-> "admin"]
Off == [targets |-> {}, reviewer |-> "manager"]
WritesOnly == [targets |-> {"secret_write"}, reviewer |-> "admin"]

\* Review is always on, and on for some operations some of the time.
AlwaysOn == {Both, BothAdmin}
Changing == {Off, Both, WritesOnly}

\* The plain account may do everything, or create secrets and no more.
Everything == {u1} \X {p1} \X {"create", "update", "delete", "rotate"}
GrantOrNot == {Everything, {<<u1, p1, "create">>}}
Granted == {Everything}

Sym == Permutations(Requests) \cup Permutations(Approvals) \cup Permutations(Ids)

=============================================================================
