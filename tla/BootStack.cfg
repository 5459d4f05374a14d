SPECIFICATION Spec
CONSTANTS
  Machines <- MCMachines
  RegBits = 5
  TscCount = 77
  MaxStrays = 2
  LowPages = 4
  BitmapPages = 1
  PerPage = 4
  Mid = 2
  Big = 8
  Hhdm = 100
  MaxTables = 3
  Huge = 64
  Devs = 2
  Funs = 2
  MaxKeys = 1
CHECK_DEADLOCK FALSE
INVARIANT StackNotReclaimed
