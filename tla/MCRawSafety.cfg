SPECIFICATION Spec
CONSTANTS
  Doc = {1}
  Name = {m1, m2, r1}
  Manual = {m1, m2}
  NoName = NoName
  Batch = {b1}
  Worker = {w1, w2}
  Ops = {"upload", "collect", "build", "ingest", "restore", "purge", "purge_hard", "cleanup"}
  PageLimit = 1
  MaxCrashes = 1
SYMMETRY Symmetry
CHECK_DEADLOCK FALSE
INVARIANTS IInv RowHasFile FileAccounted SkippedHasRow
PROPERTIES BuriedIsBlocked
