CONSTANTS
  VirtBase = 0
  VirtEnd = 5
  InfoBase = 5
  InfoSize = 1
  NodeCount = 5
  FlagSets <- Flags
  InfoFlags = 11
  MaxPages = 3
  MaxLate = 2
SPECIFICATION Spec
INVARIANT TypeOK
INVARIANT NodesConserved
INVARIANT ListOrdered
INVARIANT OwnersCovered
PROPERTY ImplementsAddrSpace
CHECK_DEADLOCK FALSE
