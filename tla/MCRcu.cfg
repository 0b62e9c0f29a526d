SPECIFICATION Spec
CONSTANTS
  CPU = {c0, c1}
  NoCPU = NoCPU
  Callback = {f1, f2}
  Limit = 1
  qhimark = 1
  qlowmark = 0
  Workload <- SafetyWork
SYMMETRY Symmetry
INVARIANTS TypeOK GracePeriod NoneLost BatchWindow BatchWillStart NoForgottenCpu QlenExact BarrierComplete
CHECK_DEADLOCK FALSE
