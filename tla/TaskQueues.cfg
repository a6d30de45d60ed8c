\* Three queues, one of each grade, three tasks at two target times.
SPECIFICATION TQSpec
CONSTANTS
  Queue = {platform, ui, raster}
  kUnmerged = kUnmerged
  Grade = {kUnspecified, kDartEventLoop}
  kDartEventLoop = kDartEventLoop
  Time = {0, 1}
  Never = Never
  MaxTasks = 3
  MaxPauses = 1
  ResumeWhileSubsumed = FALSE
SYMMETRY Queues
PROPERTY ImplementsTaskRunners
INVARIANTS
  MergeTopology
  WakeRequested
CHECK_DEADLOCK FALSE
