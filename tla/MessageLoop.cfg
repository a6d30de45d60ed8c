\* Two loops and a posting thread; no symmetry, which liveness does not allow.
SPECIFICATION FairSpec
CONSTANTS
  Queue = {platform, raster}
  kUnmerged = kUnmerged
  Grade = {kUnspecified, kDartEventLoop}
  kDartEventLoop = kDartEventLoop
  Time = {0, 1}
  Never = Never
  MaxTasks = 3
  MaxPauses = 1
  ResumeWhileSubsumed = FALSE
  Poster = {p1}
  Idle = Idle
  MaxMerges = 2
INVARIANTS
  TypeOK
  NoLostWakeup
  OverlapOnlyAfterMerge
PROPERTIES
  TasksAreRun
  JoinedThreadExits
CHECK_DEADLOCK FALSE
