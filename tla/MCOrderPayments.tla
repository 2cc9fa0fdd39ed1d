-------------------------- MODULE MCOrderPayments --------------------------
(* Small instances of OrderPayments. *)
EXTENDS OrderPayments, TLC

Symmetry == Permutations(Transfers) \union Permutations(Hooks)

=============================================================================
