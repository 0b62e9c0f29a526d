------------------------------- MODULE MCRcu -------------------------------
(* Model-checking instances of Rcu. *)
EXTENDS Rcu

Work(reads, calls, barrier_, downs_) ==
  [reads |-> reads, calls |-> calls, barrier |-> barrier_, downs |-> downs_]

\* Readers in one context against two callbacks, in nested contexts against
\* one; CPUs going down below readers, and with two callbacks to move;
\* rcu_barrier() on CPUs that stay up.
SafetyWork == {Work({"task"}, 2, FALSE, 0), Work({"irq"}, 2, FALSE, 0),
               Work({"task", "irq"}, 1, FALSE, 0), Work({"irq"}, 1, FALSE, 1),
               Work({}, 2, FALSE, 1), Work({}, 1, TRUE, 0)}

BarrierHotplugWork == {Work({}, 1, TRUE, 1)}

LiveWork == {Work({"task"}, 1, FALSE, 0)}

Symmetry == Permutations(CPU) \cup Permutations(Callback)
=============================================================================
