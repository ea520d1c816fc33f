------------------------------ MODULE GraphRun ------------------------------
(***************************************************************************)
(* GraphRAG runs of the batches of one project, from the submission to the *)
(* mark on the documents: the space is prepared, wikilinks and what the    *)
(* graph-extractor found are written to Nebula one statement at a time and *)
(* to PostgreSQL in one transaction, the edges of the batch are read back  *)
(* and cut into communities, and each community gets a context, a row and  *)
(* wiki pages.  No step undoes an earlier one, a run that fails stays      *)
(* where it is until somebody submits the batch again, a query that fails  *)
(* reads as one that finds nothing, and a purge of the project may come at *)
(* any moment.                                                             *)
(*                                                                         *)
(* Leiden and the agents are choices.  The id of a community is made from  *)
(* the batch and the number of the cluster, never from its members.  One   *)
(* level of communities stands for the hierarchy; a batch has one chunk    *)
(* for all it mentions, and never none.  Texts and embeddings are left     *)
(* out, as are the Chunk vertices, which are Search's; a description is    *)
(* the batch it comes from.                                                *)
(***************************************************************************)
EXTENDS Naturals, Sequences, FiniteSets

CONSTANTS
  Run,         \* pods of the GraphRAG workflow
  Batch,
  Entity,      \* names, and so vertex ids: entity_vid is one to one
  Title,       \* of wiki pages: with the community they make the path
  Links,       \* the entities the chunks of a batch name in [[wikilinks]]
  Answers,     \* what the graph-extractor may find in a batch
  Reports,     \* the pages the wiki-synthesizer may write about a community
  Stub,        \* the title of the page that stands for a skipped agent
  MaxClusters, \* bound: how many communities a batch is cut into
  MaxSubmits,  \* bound: runs in a behaviour
  MaxPurges,   \* bound: deletions of the space or the wiki tree
  None

NoAnswer == [ents |-> {}, edges |-> {}]

ASSUME ConstantsAssumption ==
  /\ Links \in [Batch -> SUBSET Entity]
  /\ \A b \in Batch : Answers[b] \subseteq
       [ents : SUBSET Entity, edges : SUBSET (Entity \X Entity)]
  /\ \A p \in Reports : p \in Seq(Title)
  /\ Stub \in Title
  /\ MaxClusters \in Nat /\ MaxSubmits \in Nat /\ MaxPurges \in Nat
  /\ None \notin Batch /\ "bare" \notin Batch

Nothing ==
  [answer |-> NoAnswer, records |-> <<>>, asked |-> {}, blind |-> FALSE]

Cluster == 1..MaxClusters
Community == Batch \X Cluster

VARIABLES
  space,      \* how far the project's Nebula space has come
  verts,      \* the Entity vertices, with the description each has
  links,      \* the EXTRACTED and INFERRED edges
  mentions,   \* the MENTIONS edges, from batches
  rows,       \* path_graph.entities, with descriptions
  file,       \* communities.jsonl of a batch: the members of each cluster
  contexts,   \* graph_context blobs, as the members they are about
  comms,      \* path_graph.communities
  pages,      \* wiki files, as communities with titles
  pageRows,   \* path_graph.wiki_pages
  indexed,    \* batches whose documents are indexed_graph
  pc,         \* where a run is
  batch, skip,\* its batch, and skip_agent
  answer,     \* semantic, what the graph-extractor found
  todo,       \* what its phase still has to write
  records,    \* the members of the communities it found
  blind,      \* history: it was shown no edges, though there were some
  page,       \* pages of a community still to store
  submits, purges,
  disturbed,  \* history: runs a purge or another run of the batch came across
  settled,    \* history: batches whose last run ended, undisturbed
  asked,      \* history: what the wiki-synthesizer wrote for which cluster
  last,       \* history: answer, clusters and pages of the last such run
  dropped     \* history: the space was dropped

graphVars == <<space, verts, links, mentions>>
wikiVars  == <<file, contexts, comms, pages, pageRows>>
storeVars == <<graphVars, rows, wikiVars, indexed>>
runVars   == <<batch, skip, answer, records, blind, page>>
histVars  == <<submits, purges, disturbed, settled, asked, last, dropped>>
vars      == <<storeVars, pc, runVars, todo, histVars>>

Labels == {"idle", "submit", "create", "usable", "ddl", "ready", "mention",
           "agent", "entities", "rows", "edges", "export", "file", "context",
           "wiki", "page", "page_row"}
Parts == {"vertex", "edge"}
Clusterings == UNION {[1..n -> SUBSET Entity] : n \in 0..MaxClusters}

TypeOK ==
  /\ space \in {"none", "created", "usable", "tagged", "ready"}
  /\ verts \in [Entity -> Batch \cup {None, "bare"}]
  /\ links \subseteq Entity \X Entity /\ mentions \subseteq Batch \X Entity
  /\ rows \in [Entity -> Batch \cup {None}]
  /\ file \in [Batch -> Clusterings]
  /\ contexts \in [Community -> SUBSET Entity]
  /\ comms \subseteq Community
  /\ pages \subseteq Community \X Title
  /\ pageRows \subseteq Community \X Title
  /\ indexed \subseteq Batch
  /\ pc \in [Run -> Labels] /\ skip \in [Run -> BOOLEAN]
  /\ records \in [Run -> Clusterings] /\ blind \in [Run -> BOOLEAN]
  /\ \A r \in Run :
       /\ batch[r] \in IF pc[r] = "idle" THEN {None} ELSE Batch
       /\ answer[r] \in [ents  : SUBSET Entity,
                         edges : SUBSET (Entity \X Entity)]
       /\ todo[r] \subseteq
            CASE pc[r] = "mention" -> Entity \X Parts
              [] pc[r] = "edges" -> Entity \X Entity
              [] pc[r] \in {"context", "wiki", "page", "page_row"}
                   -> DOMAIN records[r]
              [] OTHER -> Entity
       /\ page[r] \in Seq(Title)
       /\ pc[r] \in {"page", "page_row"} <=> page[r] # <<>>
  /\ disturbed \subseteq Run /\ settled \subseteq Batch /\ dropped \in BOOLEAN
  /\ submits \in 0..MaxSubmits /\ purges \in 0..MaxPurges

Init ==
  /\ space = "none"
  /\ verts = [e \in Entity |-> None] /\ rows = [e \in Entity |-> None]
  /\ links = {} /\ mentions = {}
  /\ file = [b \in Batch |-> <<>>]
  /\ contexts = [c \in Community |-> {}]
  /\ comms = {} /\ pages = {} /\ pageRows = {} /\ indexed = {}
  /\ pc = [r \in Run |-> "idle"]
  /\ batch = [r \in Run |-> None] /\ skip = [r \in Run |-> FALSE]
  /\ answer = [r \in Run |-> NoAnswer]
  /\ todo = [r \in Run |-> {}] /\ records = [r \in Run |-> <<>>]
  /\ page = [r \in Run |-> <<>>] /\ blind = [r \in Run |-> FALSE]
  /\ disturbed = {} /\ settled = {} /\ dropped = FALSE
  /\ asked = [r \in Run |-> {}]
  /\ last = [b \in Batch |-> Nothing]
  /\ submits = 0 /\ purges = 0

-----------------------------------------------------------------------------
(* Submission.  Variants of a definition, each with a mistake the checks   *)
(* must notice, stand before it.                                           *)

Goto(r, l) == pc' = [pc EXCEPT ![r] = l]

\* A purge comes across the runs there are.
Disturb ==
  /\ purges < MaxPurges
  /\ purges' = purges + 1
  /\ disturbed' = {r \in Run : pc[r] # "idle"} /\ settled' = {}
  /\ last' = [b \in Batch |-> Nothing]
  /\ UNCHANGED <<submits, asked>>

\* The run is over, whatever is left of it to do.
Reset(r) ==
  /\ Goto(r, "idle")
  /\ batch'   = [batch EXCEPT ![r] = None]
  /\ skip'    = [skip EXCEPT ![r] = FALSE]
  /\ answer'  = [answer EXCEPT ![r] = NoAnswer]
  /\ todo'    = [todo EXCEPT ![r] = {}]
  /\ records' = [records EXCEPT ![r] = <<>>]
  /\ blind'   = [blind EXCEPT ![r] = FALSE]
  /\ page'    = [page EXCEPT ![r] = <<>>]
  /\ asked'   = [asked EXCEPT ![r] = {}]
  /\ disturbed' = disturbed \ {r}

\* An exception ends the pod; the template does not retry it.
Raise(r) ==
  Reset(r) /\ UNCHANGED <<storeVars, submits, purges, settled, last, dropped>>

\* assert_project_graphrag_idle looks at the run rows of this batch only.
CheckIdle(r, b, noAgent) ==
  /\ pc[r] = "idle" /\ submits < MaxSubmits
  /\ \A s \in Run : batch[s] = b => pc[s] = "submit"
  /\ submits' = submits + 1
  /\ Goto(r, "submit")
  /\ batch' = [batch EXCEPT ![r] = b]
  /\ skip'  = [skip EXCEPT ![r] = noAgent]
  /\ UNCHANGED <<storeVars, answer, records, blind, page, todo, purges,
                 disturbed, settled, asked, last, dropped>>

\* The run row is inserted, and the pod copies the chunks of the batch.
Submit(r) ==
  /\ pc[r] = "submit"
  /\ Goto(r, "create")
  /\ settled' = settled \ {batch[r]}
  /\ last' = [last EXCEPT ![batch[r]] = Nothing]
  /\ LET busy == {s \in Run \ {r} : batch[s] = batch[r] /\ pc[s] # "submit"}
     IN  disturbed' = disturbed \cup busy \cup (IF busy = {} THEN {} ELSE {r})
  /\ UNCHANGED <<storeVars, runVars, todo, submits, purges, asked, dropped>>

-----------------------------------------------------------------------------
(* ensure_space.                                                           *)

Usable == space \in {"usable", "tagged", "ready"}

CreateSpace(r) ==
  /\ pc[r] = "create"
  /\ space' = IF space = "none" THEN "created" ELSE space
  /\ Goto(r, "usable")
  /\ UNCHANGED <<verts, links, mentions, rows, wikiVars, indexed, runVars,
                 todo, histVars>>

SpaceUsable(r) ==
  /\ pc[r] = "usable" /\ Usable
  /\ Goto(r, "ddl")
  /\ UNCHANGED <<storeVars, runVars, todo, histVars>>

\* A statement in a space that is gone, or not there yet, fails.
CreateSchema(r) ==
  /\ pc[r] = "ddl"
  /\ IF Usable
     THEN /\ space' = IF space = "usable" THEN "tagged" ELSE space
          /\ Goto(r, "ready")
          /\ UNCHANGED <<verts, links, mentions, rows, wikiVars, indexed,
                         runVars, todo, histVars>>
     ELSE Raise(r)

\* SHOW TAGS, SHOW EDGES, and a probe vertex inserted and deleted.  From here
\* on the store takes the space for prepared and never looks again.
SchemaReady(r) ==
  /\ pc[r] = "ready" /\ space = "ready"
  /\ Goto(r, "mention")
  /\ todo' = [todo EXCEPT ![r] = Links[batch[r]] \X Parts]
  /\ UNCHANGED <<storeVars, runVars, histVars>>

\* The second wait has no deadline.
GiveUpOnTheSpaceOnly(r) == pc[r] = "usable" /\ Raise(r)

\* _wait_until: schema_wait_sec is over.
GiveUp(r) == pc[r] \in {"usable", "ready"} /\ Raise(r)

\* The cluster takes over what was created, when it comes to it.
CatchUp ==
  /\ space \in {"created", "tagged"}
  /\ space' = IF space = "created" THEN "usable" ELSE "ready"
  /\ UNCHANGED <<verts, links, mentions, rows, wikiVars, indexed, pc, runVars,
                 todo, histVars>>

-----------------------------------------------------------------------------
(* run_graph_pipeline: phases of statements, in any order within a phase.  *)

Phases == {"mention", "entities", "edges"}

\* x is written by a statement of its own, which needs the space.
Statement(r, phase, x) ==
  /\ pc[r] = phase /\ x \in todo[r] /\ space = "ready"
  /\ todo' = [todo EXCEPT ![r] = @ \ {x}]
  /\ UNCHANGED <<space, rows, wikiVars, indexed, pc, runVars, histVars>>

\* USE, or a statement, in a space another pod has dropped since.
StatementFails(r) ==
  /\ pc[r] \in Phases /\ todo[r] # {} /\ space # "ready"
  /\ Raise(r)

PhaseEnds(r, phase, next) ==
  /\ pc[r] = phase /\ todo[r] = {}
  /\ Goto(r, next)
  /\ UNCHANGED <<storeVars, runVars, histVars>>

\* upsert_mentions: a vertex without a description,
UpsertMentioned(r, e) ==
  /\ Statement(r, "mention", <<e, "vertex">>)
  /\ verts' = [verts EXCEPT ![e] = IF @ = None THEN "bare" ELSE @]
  /\ UNCHANGED <<links, mentions>>

\* and then the MENTIONS edge to it.
UpsertMention(r, e) ==
  /\ Statement(r, "mention", <<e, "edge">>)
  /\ <<e, "vertex">> \notin todo[r]
  /\ mentions' = mentions \cup {<<batch[r], e>>}
  /\ UNCHANGED <<verts, links>>

EndMentions(r) == PhaseEnds(r, "mention", "agent") /\ UNCHANGED todo

\* The graph-extractor is asked unless skip_agent says not to; its failure is
\* one of those of Die.
ExtractSemantic(r, a) ==
  /\ pc[r] = "agent"
  /\ a \in IF skip[r] THEN {NoAnswer} ELSE Answers[batch[r]]
  /\ answer' = [answer EXCEPT ![r] = a]
  /\ todo' = [todo EXCEPT ![r] = a.ents]
  /\ Goto(r, "entities")
  /\ UNCHANGED <<storeVars, batch, skip, records, blind, page, histVars>>

\* IF NOT EXISTS: a vertex that is there keeps the description it has.
UpsertEntity(r, e) ==
  /\ Statement(r, "entities", e)
  /\ verts' = [verts EXCEPT ![e] = IF @ = None THEN batch[r] ELSE @]
  /\ UNCHANGED <<links, mentions>>

EndEntities(r) == PhaseEnds(r, "entities", "rows") /\ UNCHANGED todo

\* The rows are written before the vertices.
SyncBeforeTheVertices(r) ==
  /\ pc[r] = "entities" /\ todo[r] = answer[r].ents
  /\ rows' = [e \in Entity |->
                IF e \in answer[r].ents THEN batch[r] ELSE rows[e]]
  /\ Goto(r, "edges")
  /\ todo' = [todo EXCEPT ![r] = answer[r].edges]
  /\ UNCHANGED <<graphVars, wikiVars, indexed, runVars, histVars>>

\* sync_entities_to_pg: one transaction, in which the last description wins.
SyncEntities(r) ==
  /\ pc[r] = "rows"
  /\ rows' = [e \in Entity |->
                IF e \in answer[r].ents THEN batch[r] ELSE rows[e]]
  /\ Goto(r, "edges")
  /\ todo' = [todo EXCEPT ![r] = answer[r].edges]
  /\ UNCHANGED <<graphVars, wikiVars, indexed, runVars, histVars>>

UpsertEdge(r, x) ==
  /\ Statement(r, "edges", x)
  /\ links' = links \cup {x}
  /\ UNCHANGED <<verts, mentions>>

EndEdges(r) == PhaseEnds(r, "edges", "export") /\ UNCHANGED todo

-----------------------------------------------------------------------------
(* run_community_pipeline.                                                 *)

\* export_project_graph: edges between vertices that exist, in the scope of
\* the batch: what its agent found, or else what its chunks mention.  (With no
\* chunk either it would export every edge; an indexed document has chunks.)
Exported(r) ==
  LET scope == IF answer[r].ents # {} THEN answer[r].ents
               ELSE {e \in Entity : <<batch[r], e>> \in mentions}
  IN  {x \in links : /\ verts[x[1]] # None /\ verts[x[2]] # None
                     /\ x[1] \in scope /\ x[2] \in scope}

\* _largest_connected_component: all that is connected to the entity v.
Component(v, E) ==
  LET closed == {S \in SUBSET Entity : \A x \in E : x[1] \in S <=> x[2] \in S}
  IN  {e \in Entity : \A S \in closed : v \in S => e \in S}

\* Leiden cuts the component of whichever edge comes first.
Detected(E) ==
  IF E = {} THEN {<<>>}
  ELSE {f \in Clusterings :
          /\ {} \notin {f[k] : k \in DOMAIN f}
          /\ \A j, k \in DOMAIN f : j # k => f[j] \cap f[k] = {}
          /\ \E x \in E : UNION {f[k] : k \in DOMAIN f} = Component(x[1], E)}

\* A MATCH that fails, for the edges or for the scope, is taken for one that
\* finds nothing, and the run goes on.
ExportAndDetect(r, f) ==
  /\ pc[r] = "export" /\ Usable
  /\ \E E \in {Exported(r), {}} :
       /\ f \in Detected(E)
       /\ blind' = [blind EXCEPT ![r] = E # Exported(r)]
  /\ records' = [records EXCEPT ![r] = f]
  /\ Goto(r, "file")
  /\ UNCHANGED <<storeVars, batch, skip, answer, page, todo, histVars>>

\* Only USE raises.
ExportFails(r) == pc[r] = "export" /\ ~Usable /\ Raise(r)

WriteCommunities(r) ==
  /\ pc[r] = "file"
  /\ file' = [file EXCEPT ![batch[r]] = records[r]]
  /\ todo' = [todo EXCEPT ![r] = DOMAIN records[r]]
  /\ Goto(r, "context")
  /\ UNCHANGED <<graphVars, rows, contexts, comms, pages, pageRows, indexed,
                 runVars, histVars>>

\* The records are gone through in order.
Current(r) == CHOOSE k \in todo[r] : \A j \in todo[r] : k <= j

\* The entities are read from Nebula, and the blob put.  A USE that fails
\* raises; after a MATCH that fails the members are put without their names
\* and relationships.
WriteContext(r) ==
  /\ pc[r] = "context" /\ todo[r] # {}
  /\ IF Usable
     THEN LET k == Current(r) IN
          /\ contexts' = [contexts EXCEPT ![<<batch[r], k>>] = records[r][k]]
          /\ todo' = [todo EXCEPT ![r] = @ \ {k}]
          /\ UNCHANGED <<graphVars, rows, file, comms, pages, pageRows,
                         indexed, pc, runVars, histVars>>
     ELSE Raise(r)

\* One transaction; rows of clusters an earlier run had stay.
UpsertCommunities(r) ==
  /\ pc[r] = "context" /\ todo[r] = {}
  /\ comms' = comms \cup ({batch[r]} \X DOMAIN records[r])
  /\ todo' = [todo EXCEPT ![r] = DOMAIN records[r]]
  /\ Goto(r, "wiki")
  /\ UNCHANGED <<graphVars, rows, file, contexts, pages, pageRows, indexed,
                 runVars, histVars>>

-----------------------------------------------------------------------------
(* run_wiki_pipeline, and the end.                                         *)

\* The wiki-synthesizer may write nothing, and then there is no page; a
\* skipped one is stood in for by a stub.
Synthesize(r, p) ==
  /\ pc[r] = "wiki" /\ todo[r] # {}
  /\ p \in IF skip[r] THEN {<<Stub>>} ELSE Reports
  /\ page' = [page EXCEPT ![r] = p]
  /\ asked' = [asked EXCEPT ![r] = @ \cup {<<Current(r), p>>}]
  /\ IF p = <<>>
     THEN todo' = [todo EXCEPT ![r] = @ \ {Current(r)}] /\ UNCHANGED pc
     ELSE Goto(r, "page") /\ UNCHANGED todo
  /\ UNCHANGED <<storeVars, batch, skip, answer, records, blind, submits,
                 purges, disturbed, settled, last, dropped>>

ThisPage(r) == <<<<batch[r], Current(r)>>, Head(page[r])>>

WriteWikiPage(r) ==
  /\ pc[r] = "page"
  /\ pages' = pages \cup {ThisPage(r)}
  /\ Goto(r, "page_row")
  /\ UNCHANGED <<graphVars, rows, file, contexts, comms, pageRows, indexed,
                 runVars, todo, histVars>>

\* A page is looked for after the last one.
IndexOnePageTooMany(r) ==
  /\ pc[r] = "page_row"
  /\ pageRows' = pageRows \cup {ThisPage(r)}
  /\ page' = [page EXCEPT ![r] = Tail(@)]
  /\ Goto(r, "page")
  /\ UNCHANGED <<graphVars, rows, file, contexts, comms, pages, indexed,
                 batch, skip, answer, records, blind, todo, histVars>>

\* The wiki pipeline returns after its first community.
IndexFirstWikiPages(r) ==
  /\ pc[r] = "page_row"
  /\ pageRows' = pageRows \cup {ThisPage(r)}
  /\ page' = [page EXCEPT ![r] = <<>>]
  /\ todo' = [todo EXCEPT ![r] = {}]
  /\ Goto(r, "wiki")
  /\ UNCHANGED <<graphVars, rows, file, contexts, comms, pages, indexed,
                 batch, skip, answer, records, blind, histVars>>

IndexWikiPage(r) ==
  /\ pc[r] = "page_row"
  /\ pageRows' = pageRows \cup {ThisPage(r)}
  /\ page' = [page EXCEPT ![r] = Tail(@)]
  /\ IF Len(page[r]) = 1
     THEN todo' = [todo EXCEPT ![r] = @ \ {Current(r)}] /\ Goto(r, "wiki")
     ELSE Goto(r, "page") /\ UNCHANGED todo
  /\ UNCHANGED <<graphVars, rows, file, contexts, comms, pages, indexed,
                 batch, skip, answer, records, blind, histVars>>

\* apply_graphrag_success.
MarkIndexed(r) ==
  /\ pc[r] = "wiki" /\ todo[r] = {}
  /\ indexed' = indexed \cup {batch[r]}
  /\ settled' = IF r \in disturbed THEN settled ELSE settled \cup {batch[r]}
  /\ last' = IF r \in disturbed THEN last
             ELSE [last EXCEPT ![batch[r]] = [answer |-> answer[r],
                                              records |-> records[r],
                                              asked |-> asked[r],
                                              blind |-> blind[r]]]
  /\ Reset(r)
  /\ UNCHANGED <<graphVars, rows, wikiVars, submits, purges, dropped>>

\* A pod dies, an agent or a store fails.
Die(r) == pc[r] # "idle" /\ Raise(r)

\* drop_space of a purge of the project, from another pod.
DropSpace ==
  /\ space # "none"
  /\ space' = "none" /\ dropped' = TRUE
  /\ verts' = [e \in Entity |-> None] /\ links' = {} /\ mentions' = {}
  /\ Disturb
  /\ UNCHANGED <<rows, wikiVars, indexed, pc, runVars, todo>>

\* delete_project_wiki_tree of a purge.
DeleteWikiTree ==
  /\ pages # {}
  /\ pages' = {}
  /\ Disturb
  /\ UNCHANGED <<graphVars, rows, file, contexts, comms, pageRows, indexed, pc,
                 runVars, todo, dropped>>

EnsureSpace(r) ==
  \/ CreateSpace(r) \/ SpaceUsable(r) \/ CreateSchema(r) \/ SchemaReady(r)
  \/ GiveUp(r)

UpsertSemanticEdges(r) ==
  \/ \E e \in Entity : UpsertEntity(r, e)
  \/ \E x \in Entity \X Entity : UpsertEdge(r, x)
  \/ EndEntities(r) \/ SyncEntities(r) \/ EndEdges(r)

RunGraphPipeline(r) ==
  \/ Submit(r) \/ EnsureSpace(r)
  \/ \E e \in Entity : UpsertMentioned(r, e) \/ UpsertMention(r, e)
  \/ EndMentions(r)
  \/ \E a \in {NoAnswer} \cup UNION {Answers[b] : b \in Batch} :
       ExtractSemantic(r, a)
  \/ UpsertSemanticEdges(r) \/ StatementFails(r)

RunCommunityPipeline(r) ==
  \/ \E f \in Clusterings : ExportAndDetect(r, f)
  \/ ExportFails(r) \/ WriteCommunities(r) \/ WriteContext(r)
  \/ UpsertCommunities(r)

StoreWikiPages(r) == WriteWikiPage(r) \/ IndexWikiPage(r)

RunWikiPipeline(r) ==
  \/ \E p \in Reports \cup {<<Stub>>} : Synthesize(r, p)
  \/ StoreWikiPages(r)

RunStep(r) ==
  \/ RunGraphPipeline(r) \/ RunCommunityPipeline(r) \/ RunWikiPipeline(r)
  \/ MarkIndexed(r)

Next ==
  \/ \E r \in Run :
       \/ \E b \in Batch, noAgent \in BOOLEAN : CheckIdle(r, b, noAgent)
       \/ RunStep(r) \/ Die(r)
  \/ CatchUp \/ DropSpace \/ DeleteWikiTree

Spec == Init /\ [][Next]_vars

\* Pods that live run on and their deadlines come; Nebula promises nothing.
FairSpec == Spec /\ \A r \in Run : WF_vars(RunStep(r))

-----------------------------------------------------------------------------
(* Properties.                                                             *)

\* Search starts from the entity rows and goes on in the graph: a row is never
\* there before its vertex, though each is written by a store of its own and
\* runs die between any two writes.  Dropping the space ends it, since no purge
\* deletes path_graph.entities.
RowHasVertex == dropped \/ \A e \in Entity : rows[e] # None => verts[e] # None

\* The agent found an edge between two entities it found.
HasEdge(a) == \E x \in a.edges : {x[1], x[2]} \subseteq a.ents

\* All that stands behind the documents of a batch.
Complete(b) ==
  LET a == last[b].answer  f == last[b].records IN
  /\ b \in indexed
  /\ \A e \in a.ents : verts[e] # None /\ rows[e] # None
  /\ a.edges \subseteq links /\ {b} \X Links[b] \subseteq mentions
  /\ HasEdge(a) /\ ~last[b].blind => f # <<>>
  /\ file[b] = f
  /\ \A k \in DOMAIN f : contexts[<<b, k>>] = f[k] /\ <<b, k>> \in comms
  /\ {p[1] : p \in last[b].asked} = DOMAIN f
  /\ \A p \in last[b].asked : \A i \in DOMAIN p[2] :
       <<<<b, p[1]>>, p[2][i]>> \in pages \cap pageRows

\* The documents of a batch are indexed_graph only with what its last run
\* found behind them: the entities and edges of the agent in Nebula and in
\* PostgreSQL, the mentions, the communities of the file with their contexts
\* and rows, and a file and a row for every page; until the batch is submitted
\* again or a purge comes, and whatever the runs of other batches write
\* meanwhile.  There are communities wherever the agent found an edge between
\* its entities, unless the MATCH of the export failed: the run then goes on
\* with none, and marks the documents all the same.  Two runs of one batch
\* that meet, and a run that meets a purge, promise nothing.
IndexedIsComplete == \A b \in settled : Complete(b)

\* ARCHITECTURE.md: indexed_graph means that graph and wiki are complete.  It
\* is not so: a MATCH that fails leaves a batch without any community or page.
IndexedHasCommunities ==
  \A b \in settled : HasEdge(last[b].answer) => last[b].records # <<>>

\* A run ends, although the space may never become usable.
RunsEnd == \A r \in Run : pc[r] # "idle" ~> pc[r] = "idle"
=============================================================================
