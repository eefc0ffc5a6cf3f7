SPECIFICATION Spec
CONSTANTS
  Jobs = {j1}
  NoJob = NoJob
  Workers = {w1, w2}
  MaxAttempts = 2
  Reports = {"complete", "failed"}
  MaxCrashes = 0
  MaxDbErrors = 0
  MaxOvertakes = 1
PROPERTY FailIsPermanent
CHECK_DEADLOCK FALSE
