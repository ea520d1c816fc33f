SPECIFICATION Spec
CONSTANTS
  Doc = {1}
  Name = {m1, r1}
  Manual = {m1}
  NoName = NoName
  Batch = {b1}
  Worker = {w1}
  Ops = {"upload", "collect", "ingest", "cleanup_all"}
  PageLimit = 1
  MaxCrashes = 0
CHECK_DEADLOCK FALSE
INVARIANT OrphanHasNoRow
