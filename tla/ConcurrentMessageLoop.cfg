SPECIFICATION FairSpec
CONSTANTS
  Worker = {w1, w2}
  Client = {c1}
  Nobody = Nobody
  MaxTasks = 3
  MaxBroadcasts = 1
  WorkerMayBeLast = FALSE
INVARIANTS
  TaskInOnePlace
  NobodySleepsOnWork
PROPERTIES
  TasksAreRun
  BroadcastsReachAll
  DestructorReturns
CHECK_DEADLOCK FALSE
