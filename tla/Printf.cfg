SPECIFICATION Spec
CONSTANTS
  CharBits = 4
  ShortBits = 6
  IntBits = 8
  LongBits = 12
  Calls <- MCCalls
  Broken <- MCBroken
  Leftover = {0, 9, 4095}
INVARIANT CountExact
INVARIANT ConformsToC
CHECK_DEADLOCK FALSE
