SPECIFICATION LimiterSpec
CONSTANTS
  Clients = {c1}
  BucketCapacity = 2
  Period = 4
  NsPerMs = 10
  MaxNow = 60
  Steps = {1, 10}
INVARIANTS RetryAfterIsKept
CHECK_DEADLOCK FALSE
