CONSTANTS
  Index = {0, 1, 2}
  Anonymous <- MCAnonymous
  Device <- MCDevice
  Early <- MCEarly
  FrameOf <- MCFrameOf
  Released <- MCReleased
  Root = 0
  BootFrames <- MCBootFrames
SPECIFICATION Spec
INVARIANT CountsExact
INVARIANT TablesInUse
PROPERTY ImplementsAddressMap
CHECK_DEADLOCK FALSE
