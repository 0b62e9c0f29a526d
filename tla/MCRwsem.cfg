SPECIFICATION FairSpec
CONSTANTS
  Task = {t1, t2, t3}
  NoTask = NoTask
INVARIANTS TypeOK WriterExclusive ActivityExact WriterAtHead NoLostWakeup NoIdleQueue
PROPERTIES ImplementsRWLock NoStarvation
