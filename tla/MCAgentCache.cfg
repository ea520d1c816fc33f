SPECIFICATION FairSpec
CONSTANTS
  Caller = {c1, c2}
  Version = {v1, v2}
  None = None
  MaxRetries = 2
  MaxRewrites = 2
  MaxFailures = 1
CHECK_DEADLOCK FALSE
INVARIANTS TypeOK CachedIsCurrent MetaVouches
PROPERTIES CallEnds
