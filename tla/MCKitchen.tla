------------------------------ MODULE MCKitchen -----------------------------
(* Kitchen with model values; the instances are in the .cfg files. *)
EXTENDS Kitchen, TLC

\* Orders do the same things, and so do the dishes of one kind.
Symmetry == Permutations(Orders) \union
            Permutations(Dishes \ (Printed \union Gifts))
=============================================================================
