SPECIFICATION FairSpec
CONSTANTS
  NCPU = 1
  Task = {t1}
  Work = {w1, w2}
  None = None
  Workload <- LiveLoad
  MaxDepth = 2
PROPERTIES FlushEnds CancelEnds
