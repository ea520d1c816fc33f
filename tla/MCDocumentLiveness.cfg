SPECIFICATION FairSpec
CONSTANTS
  c1 = c1
  c2 = c2
  Doc = {d1}
  Chunk = {c1}
  Linked = {c1}
  Scanned = {d1}
  Worker = {w1, w2}
  Ops = {"ingest", "purge"}
  Profiles <- OneChunkOrFlaky
  RetryLimit = 1
  MaxCrashes = 1
CHECK_DEADLOCK FALSE
PROPERTIES IngestSettles
