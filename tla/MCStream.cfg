SPECIFICATION FairSpec
CONSTANTS
  SlidingWindow = 2
  AuditEvery = 2
  MaxChunk = 2
  MaxText = 6
  Passages <- MCPassages
INVARIANTS
  HeuristicsInTime
  AuditsOwned
  CompleteMeansAudited
PROPERTIES
  NextItemIsViolation
  FailureStopsStream
