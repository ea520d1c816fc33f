SPECIFICATION Spec
CONSTANTS
  Doc = {1}
  Name = {m1, m2}
  Manual = {m1, m2}
  NoName = NoName
  Batch = {b1}
  Worker = {w1}
  Ops = {"upload", "build", "ingest"}
  PageLimit = 1
  MaxCrashes = 0
CHECK_DEADLOCK FALSE
PROPERTY UploadNeverReopens
