SPECIFICATION LoopSpec
CONSTANTS
  Null = Null
  Jobs = {j1, j2, j3}
  Workers = {w1}
  MaxAttemptsArgs = {1}
  RetryableErrors = {"StorageUnavailable"}
  FatalErrors = {"ValueError"}
  Lease = 1
  BaseDelay = 1
  DelayCap = 2
  BatchSize = 2
  MaxLag = 0
  MaxLead = 0
  GrantBound = 1
  PollInterval = 1
  Second = 1
  MaxWait = 3
  MaxFailures = 3
INVARIANTS
  BackoffForgets
PROPERTIES
  StopIsHeeded
  HealthyJobsComplete
