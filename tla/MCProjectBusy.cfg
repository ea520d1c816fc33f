SPECIFICATION Spec
CONSTANTS
  Doc = {d1}
  Sourced = {d1}
  Run = {1, 2}
  Kinds = {"purge", "delete"}
  ListLimit = 1
  MaxFailures = 0
CHECK_DEADLOCK FALSE
PROPERTIES BusyIsRefused
