SPECIFICATION TriageSpec
CONSTANTS
  Null = Null
  TimeWindow = 2
  Threshold = 60
  Logs <- MCLogs
  Bundles <- MCIncoming
  Candidates <- MCCandidates
  Fixtures <- MCFixtures
  AccessEvents <- MCAccessEvents
  Cases <- MCCases
  Units = {2, 10000}
  MaxItems <- MCMaxItems
CHECK_DEADLOCK FALSE
INVARIANTS
  VerdictsSupported
  CorrelatedOnMerit
  OffboardingReplays
  EvaluationAddsUp
PROPERTIES
  EvidenceAccumulates
