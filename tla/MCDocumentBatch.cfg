SPECIFICATION Spec
CONSTANTS
  c1 = c1
  c2 = c2
  Doc = {d1, d2}
  Chunk = {c1, c2}
  Linked = {c1}
  Scanned = {d2}
  Worker = {w1, w2}
  Ops = {"ingest", "graphrag"}
  Profiles <- StableOrUnstable
  RetryLimit = 1
  MaxCrashes = 0
SYMMETRY Symmetry
INVARIANTS IndexMirrorsArtifact MirrorInv

PROPERTIES KeepsContract
