------------------------------ MODULE MCPosTill -----------------------------
(* PosTill with model values; the instance is in the .cfg file. *)
EXTENDS PosTill, TLC

\* Orders of one kind do the same things.
Symmetry == Permutations(Orders \ Relayed) \union Permutations(Relayed)
=============================================================================
