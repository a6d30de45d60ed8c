SPECIFICATION Spec
CONSTANTS
  Queue = {platform, raster}
  kUnmerged = kUnmerged
  Merger = {a, b, c}
  platform = platform
  raster = raster
  NoLease = NoLease
  Nobody = Nobody
  LeaseTerm = 3
  MaxTasks = 10
  MaxOverlap = 1
  MaxSurfaces = 3
  DestroyEarly = TRUE
  CanWait = FALSE
SYMMETRY Engines
INVARIANTS
  LeasesMatchQueues
CHECK_DEADLOCK FALSE
