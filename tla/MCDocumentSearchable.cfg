SPECIFICATION Spec
CONSTANTS
  c1 = c1
  c2 = c2
  Doc = {d1}
  Chunk = {c1, c2}
  Linked = {c1}
  Scanned = {}
  Worker = {w1}
  Ops = {"ingest", "reingest"}
  Profiles <- OnlyStable
  RetryLimit = 2
  MaxCrashes = 1
CHECK_DEADLOCK FALSE
INVARIANT IndexedIsSearchable
