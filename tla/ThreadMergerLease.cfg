SPECIFICATION Spec
CONSTANTS
  Queue = {platform, raster}
  kUnmerged = kUnmerged
  Merger = {a, b}
  platform = platform
  raster = raster
  NoLease = NoLease
  Nobody = Nobody
  LeaseTerm = 3
  MaxTasks = 8
  MaxOverlap = 1
  MaxSurfaces = 0
  DestroyEarly = FALSE
  CanWait = FALSE
INVARIANT LeasePositiveWhenMerged
CHECK_DEADLOCK FALSE
