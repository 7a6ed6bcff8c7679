---------------------------- MODULE MCDisclosure ----------------------------
(* One reader of one path against all writers and one policy; the matchers   *)
(* are compared on every text of up to four characters.                      *)
EXTENDS Disclosure, TLC

CONSTANTS p1, reader, auditor

MCText == p1 :> <<"a", "b">>
MCProbes == {<<>>, <<"a">>, <<"a", "b">>, <<"/", "a", "*", "/">>, <<"*">>}
MCAlphabet == {"a", "b", Slash, Star}
MCRole == (reader :> "user") @@ (auditor :> "auditor")

Granting(t, caps) == [rules |-> {[path |-> t, capabilities |-> caps]}, exact |-> TRUE]
MCPolicyInputs ==
    {Granting(<<"/", "a", "*", "/">>, {"list", "read"}), Granting(<<"a", "b">>, {"read"}),
     [Granting(<<"*">>, {"list"}) EXCEPT !.exact = FALSE], Granting(<<"a">>, {"sudo"})}

Symmetry == Permutations(Ids)
=============================================================================
