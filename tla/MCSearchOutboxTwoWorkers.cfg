CONSTANTS
  w1 = w1
  w2 = w2
  Items = {q}
  MaxRequests = 2
  Processes = {w1, w2}
  Owners = {"placedb-indexer-1", "placedb-indexer-2"}
  OwnerOf <- OwnOwner
  NoOwner = NoOwner
  BatchSize = 1
  MaxAttempts = 2
  MaxCrashes = 1
SPECIFICATION FairOutboxSpec
PROPERTIES
  RowsEndOnce
  EveryRowEnds
CHECK_DEADLOCK FALSE
