----------------------------- MODULE MCGraphRun -----------------------------
(* The parameters of GraphRun for TLC. *)
EXTENDS GraphInvariant

CONSTANTS b1, b2, e1, e2, t1, t2

\* The first batch has a wikilink to e1 and is about e1 and e2; the second
\* links to e2, and the agent finds an edge to an entity it does not list.
MCLinks == [b \in Batch |-> IF b = b1 THEN {e1} ELSE {e2}]
MCAnswers == [b \in Batch |->
  IF b = b1 THEN {[ents |-> {e1, e2}, edges |-> {<<e1, e2>>}]}
  ELSE {[ents |-> {e2}, edges |-> {<<e2, e1>>}]}]
MCReports == {<<>>, <<t1, t2>>}
=============================================================================
