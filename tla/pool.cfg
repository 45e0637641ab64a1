CONSTANTS
  Task = {t1, t2, t3}
  NoTask = NoTask
  Caller = {c1, c2}
  QueueSize = 2
  InitialWorkers = 1
  MinWorkers = 1
  MaxWorkers = 2
  Adaptive = TRUE
  MaxGoroutines = 3
SPECIFICATION FairSpec
INVARIANTS OnePlacePerTask CountsAreExact StopQuiesces
PROPERTIES ImplementsExecutor AcceptedTasksRun StopReturns
CHECK_DEADLOCK FALSE
