SPECIFICATION Spec
CONSTANTS
  CPU = {c0, c1}
  NoCPU = NoCPU
  Callback = {f1}
  Limit = 1
  qhimark = 9
  qlowmark = 0
  Workload <- BarrierHotplugWork
INVARIANTS BarrierComplete
