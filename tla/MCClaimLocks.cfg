SPECIFICATION ClaimSpec
CONSTANTS
  Null = Null
  Jobs = {j1, j2}
  Workers = {w1, w2}
  MaxAttemptsArgs = {1, 2}
  RetryableErrors = {"StorageUnavailable"}
  FatalErrors = {}
  Lease = 2
  BaseDelay = 1
  DelayCap = 1
  BatchSize = 2
  MaxLag = 1
  MaxLead = 0
  GrantBound = 2
SYMMETRY Symmetry
INVARIANTS
  ClaimHoldsItsRows
PROPERTIES
  ClaimsImplementQueue
