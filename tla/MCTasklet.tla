----------------------------- MODULE MCTasklet -----------------------------
(* Model-checking instances of Tasklet. *)
EXTENDS Tasklet, TLC

CONSTANTS t1, t2, k1, k2

Calls(a, b) == k1 :> a @@ k2 :> b

\* Kills, disabling and the real-time task (k1) against one tasklet; two
\* tasklets on a CPU that dies.
MixedWork ==
  {[calls |-> Calls({"schedule", "disable"}, {"kill"}), tasklets |-> {t1}, downs |-> 0],
   [calls |-> Calls({"disable"}, {"bhoff"}), tasklets |-> {t1}, downs |-> 0],
   [calls |-> Calls({}, {"schedule"}), tasklets |-> {t1}, downs |-> 1],
   [calls |-> Calls({}, {}), tasklets |-> {t1, t2}, downs |-> 0]}

\* The real-time task calls tasklet_kill() for a tasklet that interrupts schedule.
RtKillWork == {[calls |-> Calls({"kill"}, {}), tasklets |-> {t1}, downs |-> 0]}
=============================================================================
