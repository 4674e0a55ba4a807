SPECIFICATION AuthSpec
CONSTANTS
  Loops = {l1}
  Threads = {w1, w2}
  Jobs = {j1, j2, j3}
  QueueCapacity = 1
  NoJob = NoJob
  Hashers = {h1}
  HashQueueDepth = 1
  Logins = {j1}
  Registrations = {j2}
INVARIANTS HashingIsForARequest
PROPERTIES EveryJobEnds StopReturns
CHECK_DEADLOCK FALSE
