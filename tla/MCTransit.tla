------------------------------ MODULE MCTransit ------------------------------
(* Three requests of an administrator with every capability and a manager    *)
(* who may only decrypt, on one key with up to two versions.                 *)
EXTENDS Transit, TLC

CONSTANTS admin, manager

MCRole == (admin :> "admin") @@ (manager :> "manager")
MCGrants == (admin :> {"encrypt", "decrypt", "create"}) @@ (manager :> {"decrypt"})
Symmetry == Permutations(Requests)
Body(on, off) == [on |-> on, off |-> off]
MCInputs == {Body({}, {}), Body({}, {"manage"}), Body({"decrypt", "admin"}, {}),
             Body({"encrypt", "decrypt", "rotate"}, {"admin"})}
=============================================================================
