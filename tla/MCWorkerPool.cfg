SPECIFICATION FairSpec
CONSTANTS
  Jobs = {j1, j2}
  NoJob = NoJob
  Workers = {w1, w2}
  MaxAttempts = 2
  Reports = {"complete", "partialAbstained"}
  MaxCrashes = 1
  MaxDbErrors = 1
  MaxOvertakes = 0
INVARIANTS
  ExclusiveClaim
  PayloadKept
  AttemptsBounded
  ReportedIsDurable
PROPERTIES
  ReviewFlagMatchesResult
  EveryJobFinishes
  ImplementsJobLifecycle
CHECK_DEADLOCK FALSE
