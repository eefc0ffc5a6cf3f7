SPECIFICATION Spec
CONSTANTS
  Threads = {t1, t2}
  Asks = {raw, single}
  RawAsks = {raw}
  Threshold = 3
  Window = 2
INVARIANTS BreakerAgrees
PROPERTIES EveryCallEnds Recovers
