--------------------------- MODULE GraphInvariant ---------------------------
(***************************************************************************)
(* The inductive invariant behind IndexedIsComplete: how far a run has     *)
(* come with what it has to write, at every label.  It holds of a run that *)
(* is the only one of its batch and that no purge came across, for as long *)
(* as that is so; GraphRun calls any other disturbed.                      *)
(***************************************************************************)
EXTENDS GraphRun

\* Where a run is that has been submitted, has written the mentions, the
\* vertices, the rows, the edges, the file, and the rows of the communities.
Paging    == {"wiki", "page", "page_row"}
Filed     == {"context"} \cup Paging
Edged     == {"export", "file"} \cup Filed
Recorded  == {"edges"} \cup Edged
Answered  == {"rows"} \cup Recorded
Mentioned == {"agent", "entities"} \cup Answered
Begun     == {"create", "usable", "ddl", "ready", "mention"} \cup Mentioned

\* What TypeOK leaves open: these are functions of runs and of batches, and a
\* run that has pages to store is at a community.
Keyed ==
  /\ batch = [r \in Run |-> batch[r]] /\ answer = [r \in Run |-> answer[r]]
  /\ todo = [r \in Run |-> todo[r]] /\ page = [r \in Run |-> page[r]]
  /\ asked = [r \in Run |-> asked[r]]
  /\ last = [b \in Batch |-> last[b]]
  /\ \A b \in Batch : last[b].answer.ents \subseteq Entity
  /\ \A r \in Run : pc[r] \in {"page", "page_row"} => todo[r] # {}

\* The runs of a batch, but for r, have not begun.
OnlyOf(b, r) == \A s \in Run \ {r} : batch[s] = b => pc[s] = "submit"

\* What the run has written to Nebula and to the rows of its entities,
InGraph(r) ==
  /\ pc[r] \in {"mention"} \cup Mentioned => \A e \in Links[batch[r]] :
       \/ <<batch[r], e>> \in mentions
       \/ pc[r] = "mention" /\ <<e, "edge">> \in todo[r]
  /\ pc[r] \in {"entities"} \cup Answered => \A e \in answer[r].ents :
       verts[e] # None \/ (pc[r] = "entities" /\ e \in todo[r])
  /\ pc[r] \in Recorded => \A e \in answer[r].ents : rows[e] # None
  /\ pc[r] \in Recorded => \A x \in answer[r].edges :
       x \in links \/ (pc[r] = "edges" /\ x \in todo[r])

\* of its communities,
InCommunities(r) ==
  /\ pc[r] \in {"file"} \cup Filed =>
       (HasEdge(answer[r]) /\ ~blind[r] => records[r] # <<>>)
  /\ pc[r] \in Filed => file[batch[r]] = records[r]
  /\ pc[r] \in Filed => \A k \in DOMAIN records[r] :
       \/ contexts[<<batch[r], k>>] = records[r][k]
       \/ pc[r] = "context" /\ k \in todo[r]
  /\ pc[r] \in Paging => \A k \in DOMAIN records[r] : <<batch[r], k>> \in comms

\* and of the wiki.  A title of a page is stored or on what is still to store.
Stored(b, k, t) == <<<<b, k>>, t>> \in pages \cap pageRows

InWiki(r) ==
  /\ pc[r] \notin Paging => asked[r] = {}
  /\ pc[r] \in Paging => \A k \in DOMAIN records[r] :
       (\E p \in asked[r] : p[1] = k) <=>
         k \notin todo[r] \/ (pc[r] # "wiki" /\ k = Current(r))
  /\ \A p \in asked[r] : p[1] \in DOMAIN records[r]
  /\ \A p \in asked[r] : \A i \in DOMAIN p[2] :
       \/ Stored(batch[r], p[1], p[2][i])
       \/ /\ pc[r] # "wiki" /\ p[1] = Current(r)
          /\ \E j \in DOMAIN page[r] : page[r][j] = p[2][i]
  /\ pc[r] = "page_row" => ThisPage(r) \in pages

IInv ==
  /\ TypeOK /\ Keyed
  /\ \A r \in Run : pc[r] \in {"idle", "submit"} => asked[r] = {}
  /\ \A r \in Run \ disturbed : pc[r] \in Begun =>
       OnlyOf(batch[r], r) /\ InGraph(r) /\ InCommunities(r) /\ InWiki(r)
  /\ \A b \in settled : \A s \in Run : batch[s] = b => pc[s] = "submit"
  /\ IndexedIsComplete
=============================================================================
