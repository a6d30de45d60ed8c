SPECIFICATION FairSpec
CONSTANTS
  Depth = 2
  MaxItems = 3
  MaxRequests = 2
INVARIANTS
  TypeOK
  PlacesConserved
  OneFrameAtATime
  PausedForVsyncOnly
PROPERTIES
  NeverBackwards
  StallsInCommitOnly
  RequestsAreServed
  FirstFramesAreConsumed
CHECK_DEADLOCK FALSE
