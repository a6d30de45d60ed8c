SPECIFICATION FairSpec
CONSTANTS
  Depth = 2
  MaxItems = 3
  MaxRequests = 2
PROPERTIES
  FramesAreConsumed
CHECK_DEADLOCK FALSE
