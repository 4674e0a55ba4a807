CONSTANTS
  Callers = {a}
  Workers = {h1}
  QueueDepth = 1
  NoJob = NoJob
SPECIFICATION Spec
INVARIANT JobOutlivesItsWorker
CHECK_DEADLOCK FALSE
