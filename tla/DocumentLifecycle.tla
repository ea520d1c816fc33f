------------------------- MODULE DocumentLifecycle -------------------------
(***************************************************************************)
(* The life of a document between the four stores it is spread over: the   *)
(* PostgreSQL rows (path_graph.documents, chunks, document_tombstones,     *)
(* stale_communities), the Garage blobs (raw, parsed, chunks.jsonl,        *)
(* dead_letter), the Nebula graph and the pods that move data between      *)
(* them.                                                                   *)
(*                                                                         *)
(* There is no lock and no transaction over more than one PgMetaStore      *)
(* method, so every remote call is a step of its own; between two calls    *)
(* any other pod may run, and the pod itself may die (an exception raised  *)
(* by the call, or a killed pod).  Only the ingest pod is retried by Argo. *)
(***************************************************************************)
EXTENDS Naturals

CONSTANTS
  Doc,        \* documents of one project: ids derived from their content hash
  Chunk,      \* chunk ids of a document
  Linked,     \* the chunks whose text holds a wikilink
  Scanned,    \* the documents that are parsed by OCR, page by page
  Worker,     \* pods and API calls that may be running at one time
  Ops,        \* the operations the environment asks for in this instance
  Profiles,   \* what parsing a document may return, by nature of the document
  RetryLimit, \* retryStrategy.limit of the ingest-one template
  MaxCrashes  \* bound: how many calls fail or pods die in a behaviour

IngestOps == {"ingest", "parse"}             \* with and without --rag
PurgeOps  == {"purge", "purge_hard"}         \* hard_raw = False, True
AllOps    == IngestOps \cup PurgeOps \cup {"restore", "reingest", "graphrag"}

ASSUME ConstantsAssumption ==
  /\ Linked \subseteq Chunk
  /\ Scanned \subseteq Doc
  /\ Ops \subseteq AllOps
  /\ Profiles \subseteq (SUBSET SUBSET Chunk) \ {{}}
  /\ RetryLimit \in Nat
  /\ MaxCrashes \in Nat

VARIABLES
  \* runtime PostgreSQL
  ingest_state,  \* documents.ingest_state, "none" when the row is missing
  tombstones,    \* documents whose (tenant, project, content_hash) is buried
  rows,          \* chunk rows of a document
  embedded,      \* its chunk rows whose embedding is not NULL
  stale,         \* stale_communities: the documents that triggered a row
  \* Garage
  raw, parsed,   \* documents with the raw file; with content.json and meta
  pages,         \* documents with OCR page texts and images
  artifact,      \* chunk ids in chunks.jsonl, {} when the object is missing
  letters,       \* documents with a dead_letter/error.json
  \* Nebula
  vertices,      \* Chunk vertices of a document
  \* the running operations
  pc, op, batch, \* where a worker is, what it runs, on which documents
  held,          \* chunk ids it has read or produced, by document
  tries,         \* failed attempts of its Argo node
  \* the environment
  outcomes,      \* the possible results of parsing, {} being a ParseError
  crashes,       \* calls that failed so far
  contended      \* history: documents conflicting operations met on

pgVars   == <<ingest_state, tombstones, rows, embedded, stale>>
blobVars == <<raw, parsed, pages, artifact, letters>>
procVars == <<pc, op, batch, held, tries>>
envVars  == <<outcomes, crashes, contended>>
vars     == <<pgVars, blobVars, vertices, procVars, envVars>>

States  == {"none", "pending", "indexed_rag", "indexed_graph", "dead_letter",
            "purging", "purged"}
Indexed == {"indexed_rag", "indexed_graph"}

IngestLabels == {"load", "gate", "upsert", "recheck", "insert", "parse",
                 "paged", "chunk", "dead", "read", "store", "mark"}
CompensationLabels == {"list", "clear", "unlink"}
PurgeLabels  == {"begin", "del_parsed", "del_chunks", "del_letter", "del_raw",
                 "del_rows", "bury", "mark_purged", "flag", "mark_stale"}
GraphLabels  == {"aggregate", "merge", "mention", "apply", "finalize"}
Labels == {"idle", "lookup", "unbury", "revive"} \cup IngestLabels
          \cup CompensationLabels \cup PurgeLabels \cup GraphLabels

NoChunks == [d \in Doc |-> {}]

TypeOK ==
  /\ ingest_state \in [Doc -> States]
  /\ tombstones \subseteq Doc /\ stale \subseteq Doc
  /\ rows \in [Doc -> SUBSET Chunk]
  /\ embedded \in [Doc -> SUBSET Chunk]
  /\ raw \subseteq Doc /\ parsed \subseteq Doc
  /\ pages \subseteq Doc /\ letters \subseteq Doc
  /\ artifact \in [Doc -> SUBSET Chunk]
  /\ vertices \in [Doc -> SUBSET Chunk]
  /\ pc \in [Worker -> Labels]
  /\ op \in [Worker -> AllOps \cup {"none"}]
  /\ batch \in [Worker -> SUBSET Doc]
  /\ held \in [Worker -> [Doc -> SUBSET Chunk]]
  /\ tries \in [Worker -> 0..RetryLimit]
  /\ outcomes \in [Doc -> Profiles]
  /\ crashes \in 0..MaxCrashes
  /\ contended \subseteq Doc

Init ==
  /\ ingest_state \in [Doc -> {"none", "pending"}]  \* collected or uploaded
  /\ tombstones = {} /\ stale = {}
  /\ rows = NoChunks /\ embedded = NoChunks
  /\ raw = Doc /\ parsed = {} /\ pages = {} /\ letters = {}
  /\ artifact = NoChunks /\ vertices = NoChunks
  /\ pc = [w \in Worker |-> "idle"]
  /\ op = [w \in Worker |-> "none"]
  /\ batch = [w \in Worker |-> {}]
  /\ held = [w \in Worker |-> NoChunks]
  /\ tries = [w \in Worker |-> 0]
  /\ outcomes \in [Doc -> Profiles]
  /\ crashes = 0 /\ contended = {}

-----------------------------------------------------------------------------
(* The control of an operation.                                            *)

\* Worker w is at label l of an operation on the single document d.
At(w, d, l) == pc[w] = l /\ batch[w] = {d}

InFlight(d) == \E w \in Worker : d \in batch[w]

Goto(w, l) ==
  /\ pc' = [pc EXCEPT ![w] = l]
  /\ UNCHANGED <<op, batch, tries>>

Finish(w) ==
  /\ pc'    = [pc EXCEPT ![w] = "idle"]
  /\ op'    = [op EXCEPT ![w] = "none"]
  /\ batch' = [batch EXCEPT ![w] = {}]
  /\ held'  = [held EXCEPT ![w] = NoChunks]
  /\ tries' = [tries EXCEPT ![w] = 0]

\* Variants of a definition, each with a mistake the checks must notice, stand
\* before it; this one is off by one.
RestartableOnceLess(w) == op[w] \in IngestOps /\ tries[w] + 1 < RetryLimit

\* Argo runs a failed ingest-one pod again from its first line.
Restartable(w) == op[w] \in IngestOps /\ tries[w] < RetryLimit

Restart(w) ==
  /\ pc'    = [pc EXCEPT ![w] = "load"]
  /\ held'  = [held EXCEPT ![w] = NoChunks]
  /\ tries' = [tries EXCEPT ![w] = @ + 1]
  /\ UNCHANGED <<op, batch>>

\* A non-zero exit, an exception or a killed pod.
EndAttempt(w) == IF Restartable(w) THEN Restart(w) ELSE Finish(w)

FirstLabel(o) ==
  CASE o \in IngestOps -> "load"
    [] o = "graphrag"  -> "aggregate"
    [] OTHER           -> "lookup"

\* Operations that only repeat each other's deletions, or the same mentions.
Alike(o, p) ==
  \/ {o, p} \subseteq PurgeOps
  \/ o = p /\ o \in {"restore", "reingest", "graphrag"}

Meets(o, d) == \E v \in Worker : d \in batch[v] /\ ~Alike(o, op[v])

\* A workflow or an API call begins: one document, or the manifest of a batch.
Start(w, o, B) ==
  /\ pc[w] = "idle"
  /\ B # {} /\ (o # "graphrag" => \E d \in Doc : B = {d})
  /\ pc'    = [pc EXCEPT ![w] = FirstLabel(o)]
  /\ op'    = [op EXCEPT ![w] = o]
  /\ batch' = [batch EXCEPT ![w] = B]
  /\ contended' = contended \cup {d \in B : Meets(o, d)}
  /\ UNCHANGED <<pgVars, blobVars, vertices, held, tries, outcomes, crashes>>

-----------------------------------------------------------------------------
(* get_document at the head of an operation, and what it decides.          *)

AfterLookup(o, s) ==
  CASE o \in IngestOps -> IF s \in Indexed THEN "list" ELSE "upsert"
    [] o \in PurgeOps  -> IF s \in {"none", "purged"} THEN "idle" ELSE "begin"
    [] o = "restore"   -> IF s = "none" THEN "idle" ELSE "unbury"
    [] OTHER           -> IF s \in {"none", "purged"} THEN "idle" ELSE "list"

GetDocument(w, d) ==
  LET next == AfterLookup(op[w], ingest_state[d]) IN
  /\ At(w, d, "lookup")
  /\ IF next = "idle" THEN Finish(w) ELSE Goto(w, next) /\ UNCHANGED held
  /\ UNCHANGED <<pgVars, blobVars, vertices, envVars>>

-----------------------------------------------------------------------------
(* compensate_document_index, called by ingest, purge and reingest.        *)

AfterCompensationKeepsArtifacts(o) ==
  CASE o \in IngestOps -> "upsert"
    [] o \in PurgeOps  -> "del_rows"
    [] OTHER           -> "revive"

AfterCompensationBuriesFirst(o) ==
  CASE o \in IngestOps -> "upsert"
    [] o \in PurgeOps  -> "bury"
    [] OTHER           -> "revive"

AfterCompensationKeepsState(o) ==
  CASE o \in IngestOps -> "parse"
    [] o \in PurgeOps  -> "del_parsed"
    [] OTHER           -> "revive"

AfterCompensation(o) ==
  CASE o \in IngestOps -> "upsert"
    [] o \in PurgeOps  -> "del_parsed"
    [] OTHER           -> "revive"

ListChunksOfArtifact(w, d) ==
  /\ At(w, d, "list")
  /\ held' = [held EXCEPT ![w][d] = artifact[d]]
  /\ Goto(w, "clear")
  /\ UNCHANGED <<pgVars, blobVars, vertices, envVars>>

ListChunks(w, d) ==
  /\ At(w, d, "list")
  /\ held' = [held EXCEPT ![w][d] = rows[d]]
  /\ Goto(w, "clear")
  /\ UNCHANGED <<pgVars, blobVars, vertices, envVars>>

ClearEmbeddings(w, d) ==
  /\ At(w, d, "clear")
  /\ embedded' = [embedded EXCEPT ![d] = {}]
  /\ Goto(w, IF held[w][d] = {} THEN AfterCompensation(op[w]) ELSE "unlink")
  /\ UNCHANGED <<ingest_state, tombstones, rows, stale, blobVars, vertices,
                 held, envVars>>

DeleteVertices(w, d) ==
  /\ At(w, d, "unlink")
  /\ vertices' = [vertices EXCEPT ![d] = @ \ held[w][d]]
  /\ Goto(w, AfterCompensation(op[w]))
  /\ UNCHANGED <<pgVars, blobVars, held, envVars>>

-----------------------------------------------------------------------------
(* ingest_item: load raw, the tombstone check, compensation of an indexed  *)
(* document, upsert_document, parse and chunk, then the RAG index.         *)

LoadRaw(w, d) ==
  /\ At(w, d, "load")
  /\ IF d \in raw THEN Goto(w, "gate") /\ UNCHANGED held ELSE EndAttempt(w)
  /\ UNCHANGED <<pgVars, blobVars, vertices, envVars>>

\* check_tombstone in ingest_item, and again at the head of upsert_document.
CheckTombstone(w, d) ==
  /\ At(w, d, "gate") \/ At(w, d, "upsert")
  /\ IF d \in tombstones
     THEN EndAttempt(w)
     ELSE /\ Goto(w, IF pc[w] = "gate" THEN "lookup" ELSE "recheck")
          /\ UNCHANGED held
  /\ UNCHANGED <<pgVars, blobVars, vertices, envVars>>

RecheckNothing(w, d) ==
  /\ At(w, d, "recheck")
  /\ Goto(w, "insert")
  /\ UNCHANGED <<held, pgVars, blobVars, vertices, envVars>>

\* upsert_document refuses a purged document before it writes.
RecheckPurged(w, d) ==
  /\ At(w, d, "recheck")
  /\ IF ingest_state[d] = "purged"
     THEN EndAttempt(w)
     ELSE Goto(w, "insert") /\ UNCHANGED held
  /\ UNCHANGED <<pgVars, blobVars, vertices, envVars>>

InsertDocument(w, d) ==
  /\ At(w, d, "insert")
  /\ ingest_state' = [ingest_state EXCEPT ![d] = "pending"]
  /\ Goto(w, "parse")
  /\ UNCHANGED <<tombstones, rows, embedded, stale, blobVars, vertices, held,
                 envVars>>

\* _run_vl_ocr stores what it read of every page, whatever comes of it.
RunOcr(w, d) ==
  /\ At(w, d, "parse") /\ d \in Scanned
  /\ pages' = pages \cup {d}
  /\ Goto(w, "paged")
  /\ UNCHANGED <<pgVars, raw, parsed, artifact, letters, vertices, held, envVars>>

\* Where a result of parsing is known: after the OCR of a scanned document.
ParsedAt(w, d) == At(w, d, IF d \in Scanned THEN "paged" ELSE "parse")

\* The parser or the OCR raises, or the OCR yields no chunk.
ParseFails(w, d) ==
  /\ At(w, d, "parse") \/ At(w, d, "paged")
  /\ {} \in outcomes[d]
  /\ letters' = letters \cup {d}
  /\ Goto(w, "dead")
  /\ UNCHANGED <<pgVars, raw, parsed, pages, artifact, vertices, held, envVars>>

\* content.json; only a document that is not a PDF gets it without a chunk.
PersistParsed(w, d) ==
  /\ ParsedAt(w, d)
  /\ \E X \in outcomes[d] :
       /\ d \in Scanned => X # {}
       /\ held' = [held EXCEPT ![w][d] = X]
  /\ parsed' = parsed \cup {d}
  /\ Goto(w, "chunk")
  /\ UNCHANGED <<pgVars, raw, pages, artifact, letters, vertices, envVars>>

\* No chunks after parse: a dead letter too, with content.json already written.
ChunksEmpty(w, d) ==
  /\ At(w, d, "chunk") /\ held[w][d] = {}
  /\ letters' = letters \cup {d}
  /\ Goto(w, "dead")
  /\ UNCHANGED <<pgVars, raw, parsed, pages, artifact, vertices, held, envVars>>

WriteChunks(w, d) ==
  /\ At(w, d, "chunk") /\ held[w][d] # {}
  /\ artifact' = [artifact EXCEPT ![d] = held[w][d]]
  /\ IF op[w] = "ingest" THEN Goto(w, "read") /\ UNCHANGED held ELSE Finish(w)
  /\ UNCHANGED <<pgVars, raw, parsed, pages, letters, vertices, envVars>>

\* UPDATE documents SET ingest_state: no row, no effect.
SetState(d, s) ==
  ingest_state' = [ingest_state EXCEPT ![d] = IF @ = "none" THEN @ ELSE s]

\* record_dead_letter; the step then exits with 2, a failure to Argo.
RecordDeadLetter(w, d) ==
  /\ At(w, d, "dead")
  /\ SetState(d, "dead_letter")
  /\ EndAttempt(w)
  /\ UNCHANGED <<tombstones, rows, embedded, stale, blobVars, vertices, envVars>>

\* index_rag_for_document reads chunks.jsonl back from the blob store.
ReadChunks(w, d) ==
  /\ At(w, d, "read")
  /\ IF artifact[d] = {}
     THEN EndAttempt(w)
     ELSE held' = [held EXCEPT ![w][d] = artifact[d]] /\ Goto(w, "store")
  /\ UNCHANGED <<pgVars, blobVars, vertices, envVars>>

UpsertChunksOnce(w, d) ==
  /\ At(w, d, "store")
  /\ rows' = [rows EXCEPT ![d] = @ \cup held[w][d]]
  /\ embedded' = [embedded EXCEPT ![d] =
       IF ingest_state[d] \in Indexed THEN @ ELSE @ \cup held[w][d]]
  /\ Goto(w, "mark")
  /\ UNCHANGED <<ingest_state, tombstones, stale, blobVars, vertices, held,
                 envVars>>

\* upsert_chunks with the embeddings, in one transaction.
UpsertChunks(w, d) ==
  /\ At(w, d, "store")
  /\ rows' = [rows EXCEPT ![d] = @ \cup held[w][d]]
  /\ embedded' = [embedded EXCEPT ![d] = @ \cup held[w][d]]
  /\ Goto(w, "mark")
  /\ UNCHANGED <<ingest_state, tombstones, stale, blobVars, vertices, held,
                 envVars>>

\* mark_rag_indexed looks at neither the state nor the tombstone.
MarkRagIndexed(w, d) ==
  /\ At(w, d, "mark")
  /\ SetState(d, "indexed_rag")
  /\ Finish(w)
  /\ UNCHANGED <<tombstones, rows, embedded, stale, blobVars, vertices, envVars>>

-----------------------------------------------------------------------------
(* purge_document, from the compensation to the wiki flag.                 *)

BeginPurgeSilently(w, d) ==
  /\ At(w, d, "begin")
  /\ Goto(w, "list")
  /\ UNCHANGED <<pgVars, blobVars, vertices, held, envVars>>

BeginPurge(w, d) ==
  /\ At(w, d, "begin")
  /\ SetState(d, "purging")
  /\ Goto(w, "list")
  /\ UNCHANGED <<tombstones, rows, embedded, stale, blobVars, vertices, held,
                 envVars>>

DeleteParsed(w, d) ==
  /\ At(w, d, "del_parsed")
  /\ parsed' = parsed \ {d}
  /\ Goto(w, "del_chunks")
  /\ UNCHANGED <<pgVars, raw, pages, artifact, letters, vertices, held, envVars>>

DeleteArtifact(w, d) ==
  /\ At(w, d, "del_chunks")
  /\ artifact' = [artifact EXCEPT ![d] = {}]
  /\ Goto(w, "del_letter")
  /\ UNCHANGED <<pgVars, raw, parsed, pages, letters, vertices, held, envVars>>

DeleteDeadLetter(w, d) ==
  /\ At(w, d, "del_letter")
  /\ letters' = letters \ {d}
  /\ Goto(w, IF op[w] = "purge_hard" THEN "del_raw" ELSE "del_rows")
  /\ UNCHANGED <<pgVars, raw, parsed, pages, artifact, vertices, held,
                 envVars>>

DeleteRaw(w, d) ==
  /\ At(w, d, "del_raw")
  /\ raw' = raw \ {d}
  /\ Goto(w, "del_rows")
  /\ UNCHANGED <<pgVars, parsed, pages, artifact, letters, vertices, held, envVars>>

DeleteRows(w, d) ==
  /\ At(w, d, "del_rows")
  /\ rows' = [rows EXCEPT ![d] = {}]
  /\ embedded' = [embedded EXCEPT ![d] = {}]
  /\ Goto(w, "bury")
  /\ UNCHANGED <<ingest_state, tombstones, stale, blobVars, vertices, held,
                 envVars>>

InsertTombstone(w, d) ==
  /\ At(w, d, "bury")
  /\ tombstones' = tombstones \cup {d}
  /\ Goto(w, "mark_purged")
  /\ UNCHANGED <<ingest_state, rows, embedded, stale, blobVars, vertices, held,
                 envVars>>

MarkPurged(w, d) ==
  /\ At(w, d, "mark_purged")
  /\ SetState(d, "purged")
  /\ Goto(w, "flag")
  /\ UNCHANGED <<tombstones, rows, embedded, stale, blobVars, vertices, held,
                 envVars>>

ListStaleInverted(w, d) ==
  /\ At(w, d, "flag")
  /\ IF stale # {} THEN Goto(w, "mark_stale") /\ UNCHANGED held ELSE Finish(w)
  /\ UNCHANGED <<pgVars, blobVars, vertices, envVars>>

\* mark_project_wiki_stale: a row is added only when the project has none.
ListStale(w, d) ==
  /\ At(w, d, "flag")
  /\ IF stale = {} THEN Goto(w, "mark_stale") /\ UNCHANGED held ELSE Finish(w)
  /\ UNCHANGED <<pgVars, blobVars, vertices, envVars>>

MarkStale(w, d) ==
  /\ At(w, d, "mark_stale")
  /\ stale' = stale \cup {d}
  /\ Finish(w)
  /\ UNCHANGED <<ingest_state, tombstones, rows, embedded, blobVars, vertices,
                 envVars>>

-----------------------------------------------------------------------------
(* api_restore_document, and the last step of api_reingest_document.       *)

ClearTombstone(w, d) ==
  /\ At(w, d, "unbury")
  /\ tombstones' = tombstones \ {d}
  /\ Goto(w, "revive")
  /\ UNCHANGED <<ingest_state, rows, embedded, stale, blobVars, vertices, held,
                 envVars>>

Revive(w, d) ==
  /\ At(w, d, "revive")
  /\ SetState(d, "pending")
  /\ Finish(w)
  /\ UNCHANGED <<tombstones, rows, embedded, stale, blobVars, vertices, envVars>>

-----------------------------------------------------------------------------
(* The GraphRAG workflow of a batch: aggregate_batch_chunks in the API,    *)
(* run_graph_pipeline and apply_graphrag_success in the pod, and the same  *)
(* apply_graphrag_success once more from the reconciler of the console.    *)

EligibleUnlessFailed(d) == ingest_state[d] \notin {"none", "dead_letter"}

Eligible(d) == ingest_state[d] \in Indexed

\* The next line of the manifest of the documents B, when h holds what was read.
Line(B, h) == CHOOSE d \in B : h[d] = {}

\* get_document of a line; one bad line ends it all.
CheckEligible(w, d) ==
  /\ pc[w] = "aggregate" /\ d \in batch[w] /\ d = Line(batch[w], held[w])
  /\ IF Eligible(d) THEN Goto(w, "merge") /\ UNCHANGED held ELSE Finish(w)
  /\ UNCHANGED <<pgVars, blobVars, vertices, envVars>>

\* exists and read_jsonl of its chunks.jsonl.  They are two calls and one step:
\* the first tells only whether the second is made, and a file that is gone by
\* then fails that one and so the request.
AggregateDocument(w, d) ==
  /\ pc[w] = "merge" /\ d \in batch[w] /\ d = Line(batch[w], held[w])
  /\ IF artifact[d] # {}
     THEN /\ held' = [held EXCEPT ![w][d] = artifact[d]]
          /\ Goto(w, IF \E e \in batch[w] \ {d} : held[w][e] = {}
                     THEN "aggregate" ELSE "mention")
     ELSE Finish(w)
  /\ UNCHANGED <<pgVars, blobVars, vertices, envVars>>

UpsertMentions(w, d) ==
  /\ pc[w] = "mention" /\ d \in batch[w] /\ held[w][d] # {}
  /\ vertices' = [vertices EXCEPT ![d] = @ \cup (held[w][d] \cap Linked)]
  /\ held' = [held EXCEPT ![w][d] = {}]
  /\ Goto(w, IF \E e \in batch[w] \ {d} : held[w][e] # {}
             THEN "mention" ELSE "apply")
  /\ UNCHANGED <<pgVars, blobVars, envVars>>

MarkGraphragIndexedAll(w) ==
  /\ pc[w] \in {"apply", "finalize"}
  /\ ingest_state' = [d \in Doc |->
       IF ingest_state[d] # "none" THEN "indexed_graph" ELSE ingest_state[d]]
  /\ IF pc[w] = "apply" THEN Goto(w, "finalize") /\ UNCHANGED held ELSE Finish(w)
  /\ UNCHANGED <<tombstones, rows, embedded, stale, blobVars, vertices, envVars>>

\* mark_graphrag_indexed: the whole manifest in one transaction, unconditional.
MarkGraphragIndexed(w) ==
  /\ pc[w] \in {"apply", "finalize"}
  /\ ingest_state' = [d \in Doc |->
       IF d \in batch[w] /\ ingest_state[d] # "none" THEN "indexed_graph"
       ELSE ingest_state[d]]
  /\ IF pc[w] = "apply" THEN Goto(w, "finalize") /\ UNCHANGED held ELSE Finish(w)
  /\ UNCHANGED <<tombstones, rows, embedded, stale, blobVars, vertices, envVars>>

-----------------------------------------------------------------------------
(* Failure of the call a worker is about to make, or death of its pod.     *)
(* Nebula is written vertex by vertex, so a failing call may have done     *)
(* part of its work; every PostgreSQL call is one transaction.  The        *)
(* console's reconciler (label finalize) outlives its failures.            *)

PartialEffect(w) ==
  \/ UNCHANGED vertices
  \/ /\ pc[w] = "unlink"
     /\ \E d \in batch[w] : \E S \in SUBSET held[w][d] :
          vertices' = [vertices EXCEPT ![d] = @ \ S]
  \/ /\ pc[w] = "mention"
     /\ \E d \in batch[w] : \E S \in SUBSET held[w][d] :
          vertices' = [vertices EXCEPT ![d] = @ \cup (S \cap Linked)]

Crash(w) ==
  /\ pc[w] \notin {"idle", "finalize"} /\ crashes < MaxCrashes
  /\ crashes' = crashes + 1
  /\ PartialEffect(w)
  /\ EndAttempt(w)
  /\ UNCHANGED <<pgVars, blobVars, outcomes, contended>>

-----------------------------------------------------------------------------
Compensate(w, d) ==
  ListChunks(w, d) \/ ClearEmbeddings(w, d) \/ DeleteVertices(w, d)

Ingest(w, d) ==
  \/ LoadRaw(w, d) \/ CheckTombstone(w, d) \/ RecheckPurged(w, d)
  \/ InsertDocument(w, d) \/ RunOcr(w, d) \/ ParseFails(w, d)
  \/ PersistParsed(w, d)
  \/ ChunksEmpty(w, d) \/ WriteChunks(w, d) \/ RecordDeadLetter(w, d)
  \/ ReadChunks(w, d) \/ UpsertChunks(w, d) \/ MarkRagIndexed(w, d)

Purge(w, d) ==
  \/ BeginPurge(w, d) \/ DeleteParsed(w, d) \/ DeleteArtifact(w, d)
  \/ DeleteDeadLetter(w, d) \/ DeleteRaw(w, d) \/ DeleteRows(w, d)
  \/ InsertTombstone(w, d) \/ MarkPurged(w, d) \/ ListStale(w, d)
  \/ MarkStale(w, d)

GraphRag(w) ==
  \/ \E d \in Doc : \/ CheckEligible(w, d) \/ AggregateDocument(w, d)
                    \/ UpsertMentions(w, d)
  \/ MarkGraphragIndexed(w)

Step(w) ==
  \/ \E d \in Doc : \/ GetDocument(w, d) \/ Compensate(w, d) \/ Ingest(w, d)
                    \/ Purge(w, d) \/ ClearTombstone(w, d) \/ Revive(w, d)
  \/ GraphRag(w)

Next ==
  \E w \in Worker :
    \/ \E o \in Ops, B \in SUBSET Doc : Start(w, o, B)
    \/ Step(w)
    \/ Crash(w)

Spec == Init /\ [][Next]_vars

\* A running pod is scheduled until it ends; nothing obliges anyone to start
\* one, and nothing obliges a call to fail.
FairSpec == Spec /\ \A w \in Worker : WF_vars(Step(w))

-----------------------------------------------------------------------------
(* What must hold.  There is no lock on a document, so most promises are   *)
(* about documents no two conflicting operations ever met on.              *)

Sequential(d) == d \notin contended

Erased(d) == d \in tombstones \/ ingest_state[d] = "purged"

\* Once purge_document has buried a document, or marked it purged, nothing of
\* it is left in the stores it writes, whatever ran before, crashed half-way or
\* is asked for later: ingest is refused, GraphRAG finds it ineligible, and a
\* reingest or a restore brings no content back by itself.  (OCR pages are not
\* in the list: purge does not delete them, see NoPagesAfterPurge.)
PurgeLeavesNothing ==
  \A d \in Doc : Sequential(d) /\ Erased(d) =>
    /\ rows[d] = {} /\ embedded[d] = {} /\ vertices[d] = {}
    /\ artifact[d] = {} /\ d \notin parsed /\ d \notin letters

\* The graph holds no Chunk vertex that has no chunk row, although the two are
\* in different databases and every write may stop half-way: rows are the truth
\* that the index reconciliation compares the graph with.
VerticesCovered ==
  \A d \in Doc : Sequential(d) => vertices[d] \subseteq rows[d]

\* A document is marked indexed only with its chunks.jsonl and the rows of those
\* very chunks there, so that GraphRAG can aggregate it at any later time; it
\* may have lost its embeddings (a compensation that stopped), but never some.
IndexedIsBacked ==
  \A d \in Doc : Sequential(d) /\ ingest_state[d] \in Indexed =>
    /\ artifact[d] # {} /\ artifact[d] \subseteq rows[d]
    /\ embedded[d] = {} \/ artifact[d] \subseteq embedded[d]

\* A document in state dead_letter has the error.json an operator looks for.
DeadLetterExplained ==
  \A d \in Doc : Sequential(d) /\ ingest_state[d] = "dead_letter" => d \in letters

\* A purged document changes state only by a restore that somebody asked for,
\* or by a second purge that was under way; even when a restore died between its
\* two writes and ingests were tried since.
ErasedUntilRestored ==
  [][\A d \in Doc :
       /\ ingest_state[d] = "purged" /\ ingest_state'[d] # "purged"
       /\ d \notin contended'
       => \E w \in Worker : /\ d \in batch[w]
                            /\ \/ op[w] = "restore"
                               \/ op[w] \in PurgeOps /\ ingest_state'[d] = "purging"
     ]_vars

\* When no call failed, every document that is purged, and whose purge is over,
\* left the project flagged for wiki and community regeneration, also when two
\* purges read the flags at the same time.
StaleFlagged ==
  (/\ crashes = 0
   /\ \E d \in Doc : /\ ingest_state[d] = "purged"
                     /\ \A w \in Worker : d \in batch[w] => op[w] \notin PurgeOps)
  => stale # {}

ParsedAlike(d) == \A X, Y \in outcomes[d] : X = Y

\* When no call failed and nothing else runs than ingests and GraphRAG runs (the
\* Ops of the run), the vectors search uses are those of chunks.jsonl, nothing
\* less and nothing left over, once no operation is in flight: also after
\* ingests and GraphRAG runs that raced each other, as long as parsing the
\* document always gives the same chunks.
IndexMirrorsArtifact ==
  \A d \in Doc :
    /\ crashes = 0 /\ ~InFlight(d) /\ ingest_state[d] \in Indexed
    /\ Sequential(d) \/ ParsedAlike(d)
    => embedded[d] = artifact[d]

\* An ingest that got as far as writing its documents row leaves the document
\* indexed or in dead_letter, if no more calls fail than Argo has retries.  A
\* document whose parsing fails is covered only when no call does: a dead letter
\* is a failed attempt too, and the next one sets the document back to pending.
IngestSettles ==
  \A d \in Doc :
    (\E w \in Worker : op[w] = "ingest" /\ At(w, d, "insert"))
      ~> \/ ingest_state[d] \in Indexed \cup {"dead_letter"}
         \/ ~Sequential(d)
         \/ {} \in outcomes[d] /\ crashes > 0

\* The pipeline keeps the promises of DocumentContract.
Contract == INSTANCE DocumentContract WITH
  status <- [d \in Doc |-> IF Erased(d) THEN "erased"
                           ELSE IF ingest_state[d] \in Indexed THEN "indexed"
                           ELSE "open"],
  text <- rows, graph <- vertices, contended <- contended

KeepsContract == Contract!Spec

-----------------------------------------------------------------------------
(* What the documents say and the code does not do.                        *)

\* ARCHITECTURE.md, Purge: upload, upsert and manifest are blocked.  So no
\* buried document is left marked indexed.
TombstoneBlocksIndexing ==
  \A d \in Doc : d \in tombstones /\ ~InFlight(d) => ingest_state[d] \notin Indexed

\* ARCHITECTURE.md, ingest_state: indexed_rag is "pgvector upsert done
\* (chunks.embedding)".
IndexedIsSearchable ==
  \A d \in Doc : ingest_state[d] = "indexed_rag" /\ ~InFlight(d) =>
    artifact[d] \subseteq embedded[d]

\* ARCHITECTURE.md, Compensation: a re-ingest first clears the old embeddings,
\* so an indexed document has none but those of its chunks.
NoStaleVectors ==
  \A d \in Doc : ingest_state[d] \in Indexed /\ ~InFlight(d) =>
    embedded[d] \subseteq artifact[d]

\* Purge is information deletion: no page text or image of the document stays.
NoPagesAfterPurge ==
  \A d \in Doc : ingest_state[d] = "purged" => d \notin pages
=============================================================================
