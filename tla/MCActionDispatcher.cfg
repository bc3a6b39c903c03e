CONSTANTS
  Callers = {"execute", "executeAsync"}
  Async = {"executeAsync"}
  Retries = 2
  WorkerCount = 2
  Goroutines = {1, 2, 3, 4}
  QueueCap = 2
  MaxStarts = 2
  NoTask = NoTask
SPECIFICATION FairSpec
INVARIANTS RunsBounded SuccessIsCurrent
PROPERTIES CallsEnd StopEnds
CHECK_DEADLOCK FALSE
