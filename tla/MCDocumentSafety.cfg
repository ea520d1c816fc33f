SPECIFICATION Spec
CONSTANTS
  c1 = c1
  c2 = c2
  Doc = {d1}
  Chunk = {c1, c2}
  Linked = {c1}
  Scanned = {}
  Worker = {w1, w2}
  Ops = {"ingest", "parse", "purge", "purge_hard", "restore", "reingest", "graphrag"}
  Profiles <- AllProfiles
  RetryLimit = 2
  MaxCrashes = 2
SYMMETRY Symmetry
CONSTRAINT Uncontended
CHECK_DEADLOCK FALSE
INVARIANTS IInv PurgeLeavesNothing VerticesCovered IndexedIsBacked DeadLetterExplained StaleFlagged
PROPERTIES ErasedUntilRestored KeepsContract
