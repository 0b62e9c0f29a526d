SPECIFICATION Spec
CONSTANTS
  Block = {b1, b2, b3, b4}
  LogSize = 9
  Head0 = 1
  MaxTransaction = 1
  Reserved = 7
  TagsPerBlock = 2
  RevokesPerBlock = 1
  MaxRevoke = 4
  Magic = {}
  Races = {}
  MaxTid = 2
  MaxCrash = 0
SYMMETRY Symmetry
INVARIANT LogSpace
CHECK_DEADLOCK FALSE
