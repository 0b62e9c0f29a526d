SPECIFICATION Spec
CONSTANTS
  NCPU = 2
  Task = {t1, t2}
  Work = {w1, w2}
  None = None
  Workload <- SafetyLoad
  MaxDepth = 1
SYMMETRY Symmetry
INVARIANTS TypeOK PendingOwned NoBugOn Cancelled FlushComplete NoLostWakeup
