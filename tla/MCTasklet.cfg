SPECIFICATION Spec
CONSTANTS
  Cpu = {c1, c2}
  t1 = t1
  t2 = t2
  k1 = k1
  k2 = k2
  Tasklet = {t1, t2}
  Task = {k1, k2}
  RtTask = {k1}
  RealTime = TRUE
  MaxRestart = 2
  Workload <- MixedWork
  None = None
INVARIANTS Serialized Quiesced
PROPERTY Executed
CHECK_DEADLOCK FALSE
