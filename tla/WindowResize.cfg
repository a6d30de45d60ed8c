SPECIFICATION FairSpec
CONSTANTS
  Size <- Oblongs
  MergedUI = {TRUE, FALSE}
  Invalid = Invalid
  MaxResizes = 2
  MaxTimeouts = 1
  MaxFailures = 1
  Depth = 2
INVARIANTS
  BlockedWhileNotDone
PROPERTIES
  WaitEnds
  WindowIsFilled
CHECK_DEADLOCK FALSE
