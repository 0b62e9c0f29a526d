------------------------------- MODULE MCJbd -------------------------------
(* Model-checking instances of Jbd. *)
EXTENDS Jbd

Symmetry == Permutations(Block)
=============================================================================
