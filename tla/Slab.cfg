CONSTANTS
  PageSize = 8
  MinSize = 2
  DescSize = 4
  Sizes <- MCSizes
  Frames = {1, 2, 3, 4}
  MaxSlabs = 1
  MaxCalls = 8
SPECIFICATION Spec
INVARIANT TypeOK
INVARIANT HeldApart
INVARIANT ListsComplete
CHECK_DEADLOCK FALSE
