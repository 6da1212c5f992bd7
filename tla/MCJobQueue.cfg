SPECIFICATION Spec
CONSTANTS
  Null = Null
  Jobs = {j1, j2}
  Workers = {w1, w2}
  MaxAttemptsArgs = {1, 2}
  RetryableErrors = {"StorageUnavailable"}
  FatalErrors = {"ValueError"}
  Lease = 2
  BaseDelay = 1
  DelayCap = 2
  BatchSize = 1
  MaxLag = 2
  MaxLead = 1
  GrantBound = 3
SYMMETRY Symmetry
INVARIANTS
  TypeOK
  RowCoherent
  BudgetRespected
  OnlyLatestAttemptSettles
  FailedForCause
PROPERTIES
  EveryJobLives
