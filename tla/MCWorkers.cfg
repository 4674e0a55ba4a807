SPECIFICATION WorkersSpec
CONSTANTS
  Callers = {a, b}
  Workers = {h1, h2}
  QueueDepth = 1
  NoJob = NoJob
  Items = {q}
  MaxRequests = 3
  Processes = {w1}
  Owners = {"placedb-indexer-1"}
  OwnerOf <- SharedOwner
  NoOwner = NoOwner
  BatchSize = 2
  MaxAttempts = 2
  MaxCrashes = 1
INVARIANTS
  AnswerTellsWhatRan
  EveryJobHasOnePlace
  NoLostWakeup
  SettledIsIndexed
PROPERTIES
  RunReturns
  DrainReturns
  IndexSpec
  IndexCatchesUp
CHECK_DEADLOCK FALSE
