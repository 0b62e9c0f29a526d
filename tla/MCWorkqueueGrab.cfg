SPECIFICATION Spec
CONSTANTS
  NCPU = 3
  Task = {t1, t2}
  Work = {w1}
  None = None
  Workload <- GrabLoad
  MaxDepth = 1
INVARIANTS PendingOwned
