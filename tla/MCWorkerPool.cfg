SPECIFICATION PoolSpec
CONSTANTS
  Null = Null
  Jobs = {j1, j2}
  Workers = {w1, w2}
  MaxAttemptsArgs = {2}
  RetryableErrors = {"StorageUnavailable"}
  FatalErrors = {"ValueError"}
  Lease = 2
  BaseDelay = 1
  DelayCap = 2
  BatchSize = 2
  MaxLag = 1
  MaxLead = 0
  GrantBound = 2
INVARIANTS
  PoolTypeOK
  ExclusiveAttempts
  LeaseProtects
PROPERTIES
  OnlyHolderSettles
  PoolImplementsQueue
  JobsSettle
