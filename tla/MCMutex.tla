------------------------------ MODULE MCMutex ------------------------------
(* Model-checking instance of Mutex. *)
EXTENDS Mutex, TLC

Symmetry == Permutations(Task)
=============================================================================
