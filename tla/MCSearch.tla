------------------------------ MODULE MCSearch ------------------------------
(* The parameters of Search for TLC. *)
EXTENDS Search

CONSTANTS w1, w2, d1, d2, c1, c2, e1, e2, r1, p1, p2, k1

\* The first chunk mentions an entity and the second does not.
MCDocumentOf  == [c \in Chunk |-> IF c = c1 THEN d1 ELSE d2]
MCMentioned   == [c \in Chunk |-> IF c = c1 THEN {e1} ELSE {}]
MCCommunityOf == [p \in Page |-> k1]
MCSymmetry    == Permutations({w1, w2})

\* What is ranked, fused and cut does not depend on who else is at work: many
\* hits are looked at only as long as no writer and no run has begun, and what
\* writers do is looked at for one document, with a chunk, and an entity that
\* leads to it, for hits.
Quiescent ==
  /\ \A w \in Writer : writer[w] = Idle
  /\ reading = {} /\ tombstone = purged
  /\ vertices = {c \in Chunk : row[c] # "none"}

OneChunk ==
  /\ row[c2] = "none" /\ d2 \notin purged
  /\ \A w \in Writer : writer[w].doc # d2
  /\ Listed(lists) \cup Listed(parts) \cup Listed(answers) \subseteq {c1, e1}
  /\ edges = <<>>

Bounded == Quiescent \/ OneChunk
=============================================================================
