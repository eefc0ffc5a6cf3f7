SPECIFICATION SvcFairSpec
CONSTANTS
  Jobs = {j1, j2}
  NoJob = NoJob
  Docs = {d1}
  Tenants = {{j1, j2}}
  Workers = {w1}
  MaxAttempts = 1
  Reports = {"failed"}
  MaxCrashes = 1
  MaxDbErrors = 2
  MaxOvertakes = 0
INVARIANTS
  QueuedIsRecoverable
  DuplicateIsKnown
  FallbackIsSettled
PROPERTIES
  QueuedJobFinishes
  EverySubmissionSettles
CHECK_DEADLOCK FALSE
