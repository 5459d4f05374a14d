CONSTANTS
  RingSize = 3
  WbufSize = 4
  Keys <- KnownKeys
  MaxTyped = 2
  MaxNaks = 5
  MaxTimeouts = 1
SPECIFICATION FairSpec
INVARIANT OneOutstanding
INVARIANT CommandsInOrder
PROPERTY AllAccepted
PROPERTY Drained
CHECK_DEADLOCK FALSE
