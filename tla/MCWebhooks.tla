----------------------------- MODULE MCWebhooks -----------------------------
(* Small instances of Webhooks for TLC. *)
EXTENDS Webhooks, TLC

Sym == Permutations(Deliveries) \cup Permutations(Handlers) \cup Permutations(Workers)

=============================================================================
