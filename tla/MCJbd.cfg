SPECIFICATION Spec
CONSTANTS
  Block = {b1, b2}
  LogSize = 12
  Head0 = 10
  MaxTransaction = 2
  Reserved = 5
  TagsPerBlock = 2
  RevokesPerBlock = 1
  MaxRevoke = 2
  Magic = {}
  Races = {}
  MaxTid = 3
  MaxCrash = 2
SYMMETRY Symmetry
INVARIANTS Durable WriteAhead LogSpace Checkpointed
CHECK_DEADLOCK FALSE
