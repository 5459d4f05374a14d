CONSTANTS
  WordBits = 4
  WordBytes = 2
  LowWords = 2
  WrapPages = 16
  MaxPage = 15
  UsableLow <- MCUsableLow
  BootStack <- MCBootStack
  MaxRun = 3
  MaxAlign = 2
  MaxFallbacks = 3
SPECIFICATION Spec
INVARIANT TypeOK
INVARIANT Exclusive
INVARIANT Conserved
CHECK_DEADLOCK FALSE
