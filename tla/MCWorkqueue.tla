---------------------------- MODULE MCWorkqueue ----------------------------
(* Model-checking instances of Workqueue. *)
EXTENDS Workqueue, TLC

\* Cancelling, one work that queues itself; flushing while a CPU goes down.
SafetyLoad ==
  {[ops |-> CancelCalls \cup {"queue_work", "queue_delayed_work"}, rearms |-> TRUE, works |-> 1],
   [ops |-> {"queue_work", "flush_workqueue", "cpu_down"}, rearms |-> FALSE, works |-> 2]}

LiveLoad == {[ops |-> {"queue_work", "flush_workqueue", "cancel_work_sync"}, rearms |-> TRUE,
              works |-> 2]}

GrabLoad == {[ops |-> {"queue_delayed_work", "cancel_rearming_delayed_work"}, rearms |-> FALSE,
              works |-> 1]}

Symmetry == Permutations(Task) \cup Permutations(Work)
=============================================================================
