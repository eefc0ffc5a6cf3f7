SPECIFICATION FairSpec
CONSTANTS
  budget = budget
  errors = errors
  drift = drift
  breaker = breaker
  c1 = c1
  c2 = c2
  NoRule = NoRule
  Rules <- MCRules
  Kind <- MCKind
  Seeds <- MCSeeds
  Watches <- MCWatches
  Circuits = {c1, c2}
  Levels = {0, 2}
  Thresholds = {1}
  MaxSwings = 2
  MaxEdits = 3
  MaxEvents = 1
  MaxDbErrors = 1
INVARIANTS
  OneOpenEntry
PROPERTIES
  PolledCycle
  StateFollowsCondition
CHECK_DEADLOCK FALSE
