SPECIFICATION FairSpec
CONSTANTS
  Queue = {platform, raster}
  kUnmerged = kUnmerged
  Merger = {a}
  platform = platform
  raster = raster
  NoLease = NoLease
  Nobody = Nobody
  LeaseTerm = 3
  MaxTasks = 8
  MaxOverlap = 1
  MaxSurfaces = 2
  DestroyEarly = FALSE
  CanWait = TRUE
INVARIANTS
  TypeOK
  NoAbort
PROPERTIES
  NoChangeWhileDisabled
  TasksEnd
  LatchIsReleased
CHECK_DEADLOCK FALSE
