SPECIFICATION FairSpec
CONSTANTS
  Task = {t1, t2, t3}
  NoTask = NoTask
  Fastpaths = {"xchg", "v6", "null"}
INVARIANTS TypeOK MutualExclusion IsLockedExact NoLostWakeup QueueExact
PROPERTIES Progress SignalEndsWait
