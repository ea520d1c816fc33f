SPECIFICATION Spec
CONSTANTS
  c1 = c1
  c2 = c2
  Doc = {d1}
  Chunk = {c1, c2}
  Linked = {c1}
  Scanned = {d1}
  Worker = {w1}
  Ops = {"ingest", "purge"}
  Profiles <- OnlyStable
  RetryLimit = 2
  MaxCrashes = 0
CHECK_DEADLOCK FALSE
INVARIANT NoPagesAfterPurge
