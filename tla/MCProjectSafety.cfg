SPECIFICATION FairSpec
CONSTANTS
  Doc = {d1}
  Sourced = {d1}
  Run = {1, 2}
  Kinds = {"purge", "delete", "source", "document"}
  ListLimit = 1
  MaxFailures = 1
CHECK_DEADLOCK FALSE
INVARIANTS IInv PurgedLeavesOnlyLate DeletedLeavesNothing OneOfAKind
PROPERTIES LifecycleReleased RunsFinalized
