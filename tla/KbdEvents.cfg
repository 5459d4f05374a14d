CONSTANTS
  RingSize = 2
  WbufSize = 4
  Keys <- AllKeys
  MaxTyped = 3
  MaxNaks = 0
  MaxTimeouts = 0
SPECIFICATION Spec
INVARIANT TypeOK
INVARIANT KeystrokesFaithful
INVARIANT RingFaithful
PROPERTY ReadsInOrder
CHECK_DEADLOCK FALSE
