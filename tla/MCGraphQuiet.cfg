SPECIFICATION Spec
CONSTANTS
  b1 = b1  b2 = b2  e1 = e1  e2 = e2  t1 = t1  t2 = t2
  Run = {r1}
  Batch = {b1, b2}
  Entity = {e1, e2}
  Title = {t1, t2}
  Links <- MCLinks
  Answers <- MCAnswers
  Reports <- MCReports
  Stub = t1
  MaxClusters = 2
  MaxSubmits = 1
  MaxPurges = 0
  None = None
CHECK_DEADLOCK FALSE
INVARIANT IndexedHasCommunities
