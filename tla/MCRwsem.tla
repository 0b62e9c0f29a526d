------------------------------ MODULE MCRwsem ------------------------------
(* Model-checking instance of Rwsem. *)
EXTENDS Rwsem, TLC

Symmetry == Permutations(Task)
=============================================================================
