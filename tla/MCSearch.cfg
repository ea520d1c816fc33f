SPECIFICATION Spec
CONSTANTS
  w1 = w1
  w2 = w2
  d1 = d1
  d2 = d2
  c1 = c1
  c2 = c2
  e1 = e1
  e2 = e2
  r1 = r1
  p1 = p1
  p2 = p2
  k1 = k1
  Writer = {w1, w2}
  Document = {d1, d2}
  Chunk = {c1, c2}
  DocumentOf <- MCDocumentOf
  Entity = {e1, e2}
  Mentioned <- MCMentioned
  Relation = {r1}
  Page = {p1, p2}
  Community = {k1}
  CommunityOf <- MCCommunityOf
  Modes = {"basic", "local", "global", "drift"}
  TopK = 3
  ChannelLimit = 2
  RrfK = 1
  Scale = 12
  Followups = 1
  Depth = 2
SYMMETRY MCSymmetry
CONSTRAINT Bounded
INVARIANTS NoBuriedHit FusedFairly
