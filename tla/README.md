# path-graph in TLA+

A verification project for path-graph: the pipeline that collects documents,
parses and chunks them, indexes the chunks in PostgreSQL (pgvector), builds a
graph in Nebula and wiki pages from it, and purges documents again. The source
paths below are relative to `pipeline/src/path_graph/` unless they start
with `deploy/` or `agents/`.

The system has no transaction over more than one call and no lock on a document.
Its state lives in three stores (PostgreSQL, Garage blobs, Nebula), and pods,
API calls and workflows that know nothing of each other move data between them.
Almost everything that can go wrong is of one kind: two of these operations
interleave, or one of them dies half-way, and the stores no longer agree. That
is what the modules are about.

## The system

| Component | State it keeps | Operations | What is hard | What makes it correct |
|---|---|---|---|---|
| Ingest (`steps/ingest_*.py`, `steps/ingest.py`, `steps/rag_index.py`) | none of its own; a pod between two calls | `ingest_item`: load, tombstone check, compensation, `upsert_document`, parse and OCR, dead letter, `chunks.jsonl`, `upsert_chunks`, `mark_rag_indexed`; Argo retries | a failure between any two calls, the retry, parsing that is not deterministic, a purge in between | indexed means artifact, rows and embeddings agree; an ingest settles |
| Purge, restore, reingest (`lifecycle/`, `admin/lifecycle.py`) | `documents.ingest_state`, `document_tombstones` | `purge_document`, `compensate_document_index`, `check_tombstone`, `api_restore_document`, `api_reingest_document`, `mark_project_wiki_stale` | a dozen writes in three stores; check-then-act tombstones; a second purge of what the first left | nothing is left of a purged document and nothing comes back unless restored |
| GraphRAG run (`admin/downstream.py`, `steps/graphrag_pipeline.py`, `steps/graph_pipeline.py`) | the batch's chunks, what the agent found | aggregate, prepare the space, mentions, entities, edges, communities, wiki, `apply_graphrag_success` (twice) | acts on states and chunks it read long before; dies between any two of a hundred writes in three stores; runs of other batches and a purge beside it | the graph mentions only chunks that have rows; indexed_graph means everything is there |
| `PgMetaStore` (`meta/pg.py`) | all rows | one transaction per method | the transaction ends before the decision it served is acted on | |
| Nebula store (`graph/`) | vertices, edges, `_prepared_spaces` | upserts and deletes, statement by statement; schema preparation with two waits | half-done calls, a cache of a schema another pod dropped | an entity row has its vertex; waits end |
| Uploads, manifests (`admin/uploads.py`) | raw files, `documents`, `batches/…/manifest.jsonl` | `upload_raw_file`, `build_ingest_manifest` | exists-check, tombstone check, put and row are four calls | rows and files stay together, a buried document is blocked |
| Artifact cleanup (`lifecycle/artifact_cleanup.py`) | none | list, list, list, delete | three listings at three moments, no age | it deletes orphans only |
| Collectors (`collectors/`, `admin/runner.py`) | raw files, manifest, delta cursor | `collect_folder`, `collect_delta`, `write_batch_manifest` | files, manifest, ingest and cursor are four moments; runs of one source overlap; the console edits the row the cursor is in | the cursor never passes a change nobody collected |
| Project lifecycle (`admin/projects.py`, `steps/purge_step.py`, `lifecycle/purge.py`) | `projects.purge_state` | purge or delete a project, `assert_project_lifecycle_idle`, failure handler | check-then-act, a workflow that dies | one lifecycle operation at a time; purged means purged |
| Sources and runs (`admin/sources.py`) | `sources`, `pipeline_runs` | insert, finalize, has-active queries | late and repeated status reports | a finished run stays finished |
| Agent calls (`steps/agent_cache.py`, `steps/agent_invoke.py`) | cached output and its meta | `load_or_invoke_…`, submit and poll | two objects per entry and no lock; the agent reads the key, not the bytes that were hashed; deadlines | meta vouches for the output it stands next to |
| Communities and wiki (`steps/community_pipeline.py`, `steps/wiki_pipeline.py`, `graph/community_detector.py`) | communities, contexts, wiki files and their rows | detect, write | which component is kept; file and row of a page are two writes; an export that fails says nothing | every community a finished run found has its context, its row and its pages |
| Parsers, OCR, chunkers (`parsers/`, `chunkers/`, `ids.py`) | OCR page files | parse, split | cuts at lines and words, stripping, off-by-one | chunks cover the text |
| Retrieval (`retrieval/`, `rag/`) | none, reads only | `knowledge_search` in four modes, rank fusion | up to a dozen queries of one search, each a transaction of its own, beside the writers; nested limits | nothing whose purge is over is found, unless an ingest was about to write then; a fusion does no hit wrong |
| Agents (`agents/`) | a job: groups, batches, calls | batching, cutting, asking | answers that fail in four ways, coroutines that outlive their job | every character is asked about once; the job ends |
| Console facade, templates, credentials, configuration | settings | re-exports | | |

They interact through the stores only. The console's API calls a component
directly; Argo starts a pod for a manifest line or a batch and starts it again
when the template says so (only `ingest-one` does); the console's reconciler polls
finished workflows and calls `apply_graphrag_success` a second time.

`PROJECT.json` lists every component with its status, and under "hazards" each
place in the code that is hard to test, with the property that covers it or the
reason why none does.

## The modules

### DocumentLifecycle

The core: one document between its stores. The variables are the stores, by
document; a worker is a pod or an API call, its `pc` the call it will make next.

| Variables | Code |
|---|---|
| `ingest_state`, `rows`, `embedded`, `tombstones`, `stale` | `documents`, `chunks` (with an embedding or with NULL), `document_tombstones`, `stale_communities` |
| `raw`, `parsed`, `pages`, `artifact`, `letters` | the raw file, `content.json` and its companions, OCR page images and texts, `chunks.jsonl`, `dead_letter/…/error.json` |
| `vertices` | `Chunk` vertices in Nebula |
| `pc`, `op`, `batch`, `held`, `tries` | where a worker is, what it runs on which documents, the chunk ids it has read or produced, Argo's retries |
| `outcomes`, `crashes`, `contended` | what parsing a document may return, failed calls so far, documents conflicting operations met on |

The remote calls that read or write one of these are actions, in the order of the
code, with the code's early returns. Where one decides only whether the next is made,
and that one fails if it has become wrong since, the two are one action (exists and
read of `chunks.jsonl`, in `AggregateDocument`):

- ingest: `LoadRaw`, `CheckTombstone` (in `ingest_item` and again in
  `upsert_document`), `GetDocument`, the compensation of an indexed document,
  `RecheckPurged`, `InsertDocument`, `RunOcr`, `ParseFails` or `PersistParsed`,
  `ChunksEmpty` or `WriteChunks`, `RecordDeadLetter`, `ReadChunks`, `UpsertChunks`,
  `MarkRagIndexed`;
- compensation: `ListChunks`, `ClearEmbeddings`, `DeleteVertices`;
- purge: `GetDocument`, `BeginPurge`, the compensation, the four blob deletions,
  `DeleteRows`, `InsertTombstone`, `MarkPurged`, `ListStale`, `MarkStale`;
- restore and reingest: `ClearTombstone`, `Revive`;
- GraphRAG: for each manifest line `CheckEligible`, which reads the document's state,
  and `AggregateDocument`, which reads its chunks; `UpsertMentions` per document,
  `MarkGraphragIndexed` from the pod and again from the reconciler;
- failure: `Crash`, before any call, with part of its work done where the call is
  not a transaction (Nebula); then the retry, or nothing.

Abstracted: chunk texts and embeddings (a chunk is its id, which the code derives
from position and text, so other text is another id), formats and parsers (what
they return, `Profiles`), the pages of a document (all or none), entities and
edges, the audit row a purge writes.
Init is a project whose documents were collected (no row yet) or uploaded
(pending).

### DocumentContract

What the pipeline promises about a document, without the stores: it is open,
indexed or erased; indexed text does not change; the graph never mentions a chunk
the database does not have; erased is reached from open with nothing left, and left
only for open. `DocumentLifecycle` instantiates it with a refinement mapping
(`Contract`) and the runs check `KeepsContract`.

### DocumentInvariant

`IInv`, the inductive invariant, and `MirrorInv`, the one behind `IndexMirrorsArtifact`.
Proofs: `DocumentLifecycleProofs`. See below.

### RawFiles

Proofs: `RawFilesProofs`, from `RawInvariant`.

The raw files of a project and the rows that name them: `upload_raw_file`,
`collect_source`, `build_ingest_manifest`, the manifest line an ingest starts from, soft
and hard purge, restore, and `artifact_cleanup` with and without a project. A raw file
is a pair of a content (the document) and a name (source and file name), as in
`s3_key_raw`; `uri` is the name the row keeps from its first insert. An operation starts
with its first call (`Start…`), and further calls are actions; the exists and the put of
`put_bytes(skip_if_exists)` are one (`PutUpload`, `PutCollected`), since the key holds
the content's hash and a second put would write the same. Ingest behind the row is one
step, since `DocumentLifecycle` has the rest. Left out: inline manifests,
`manifest.meta.json`, and two batches made in the same second, which would share an id
(`Fresh`).

### ProjectLifecycle

Proofs: `ProjectLifecycleProofs`, from `ProjectInvariant`.

The purge and the deletion of a project, from the request to the end of its run, and
beside them the purge of a source or of one document and everything else that goes on
in the project, since nothing but the request looks at `purge_state`.

| Variables | Code |
|---|---|
| `present`, `purge_state` | the row of `projects` |
| `status` | `pipeline_runs.status` of the workflow a request started |
| `state`, `tombstones` | `documents.ingest_state` (purging, purged or anything else), `document_tombstones` |
| `left` | by store, the documents something is left of: chunk rows, embeddings, parsed files, OCR pages, raw files, the Nebula space, the wiki |
| `pc`, `kind`, `todo`, `doc`, `doc_ids` | where a request and its workflow are, the listed documents not yet purged, the one being purged, the list `delete_project` made first |
| `failures`, `late`, `since`, `overlapped`, `lost` | failed calls so far; documents touched since a workflow listed them, and since the listing of the one that last emptied the project; whether two requests were being made at the same moment; whether a console died with `purge_state` set and no workflow to clear it |

The actions, in the order of the code: `Request` and `CheckRun` are the two checks of
`assert_project_lifecycle_idle`, `MarkStarted` is `mark_project_lifecycle_started`,
`Submit` the submission and `insert_pipeline_run`; the pod runs `GetProject`,
`ListIds` (of a deletion, which then calls `get_project` again), `ListDocuments`,
`BeginDocument` and `FinishDocument` for each, `DeleteWiki`, `DeleteRaw`,
`ClearEmbeddings`, `DropSpace`, `MarkPurged`, and of a deletion `DeletePrefixes` and
`DeleteData`. `Finalize` is the reconciler, which lists `ListLimit` open runs, newest id
first; after a failed workflow `ClearOnFailure` gives the project back. `Fail` is a
pod, a call or a console that dies before its next call. `Upload`, `Collect`, `Ingest`,
`GraphRag` and `Restore` are one step each: what they interleave with inside is in the
other modules, and here it matters only that a document was touched.

The console and its reconciler are not in this repository. `path_graph.console`
exports the functions they call, and `pipeline/DESIGN.md` the order (check, mark,
submit, run; later finalize and, on failure, clear). The submission to Argo and the
insertion of the run are taken to be one step.

### GraphRun

Proofs: `GraphRunProofs`, from `GraphInvariant`.

A GraphRAG run of a batch from the submission to the mark on its documents, beside runs
of the same and other batches and a purge of the project. `DocumentLifecycle` has the
run's effect on documents; this module has everything it writes about entities.

| Variables | Code |
|---|---|
| `space`, `verts`, `links`, `mentions` | the project's Nebula space (how far its schema is), `Entity` vertices, edges, MENTIONS |
| `rows`, `comms`, `pageRows` | `path_graph.entities`, `communities`, `wiki_pages` |
| `file`, `contexts`, `pages` | `communities.jsonl`, `graph_context` blobs, wiki files |
| `indexed` | batches whose documents are `indexed_graph` |
| `pc`, `batch`, `skip`, `answer`, `todo`, `records`, `page` | where a run is, `skip_agent`, what the agent found, what its phase still has to write, its communities, pages still to store |
| `disturbed`, `settled`, `last`, `asked`, `blind`, `dropped` | history, for the properties: runs that met a purge or a run of their own batch, batches whose last run ended undisturbed and what it found |

The actions, in order: `CheckIdle` and `Submit` (two calls, so that two runs of one
batch may both pass the check); `CreateSpace`, `SpaceUsable`, `CreateSchema`,
`SchemaReady`, with `GiveUp` for the two waits and `CatchUp` for the cluster;
`UpsertMentioned` and `UpsertMention`, the vertex and the edge of each wikilink;
`ExtractSemantic`; `UpsertEntity`, `SyncEntities`, `UpsertEdge`; `ExportAndDetect`,
`WriteCommunities`, `WriteContext`, `UpsertCommunities`; `Synthesize`, `WriteWikiPage`,
`IndexWikiPage` per page; `MarkIndexed`. A statement whose space is gone raises
(`StatementFails`, `ExportFails`); a MATCH that fails in a space that is there is
answered by nothing, and the run goes on (`ExportAndDetect`, which records it in
`blind`); a pod may `Die` anywhere, and `DropSpace` and `DeleteWikiTree` are the purge
of the project. Leiden is a choice among the partitions of the component it is given
(`Detected`), the agents are choices among `Answers` and `Reports`. Abstracted: texts,
embeddings, the levels above the first; what a context holds besides its members, so
that a read that fails while one is made (`WriteContext`) changes nothing here; `Chunk`
vertices, which are in `DocumentLifecycle` and `Search`; the export without a scope, for
which a batch would have to be without chunks, and an indexed document has some.

### AgentCache

Proofs: `AgentCacheProofs`.

One cached answer of an agent (either agent: `kind`) and the pods that ask for it:
`artifact` and `meta` are the two blobs, a content is a `Version` and its sha256 is the
version. A caller hashes the `input`, looks for both blobs (`Look`), compares the meta
(`Validate`), reads the artifact (`ReturnCached`), or posts a request (`Submit`, `Busy`
for 429 and 503), waits (`Answer`, `GiveUp` at the deadline) and puts artifact and meta.
The agent reads the key when it comes to run (`AgentStarts`), and `Rewrite` is another
run of the batch that writes the input again. A pod may `Die` before any call, also
between the two puts. `Undisturbed` excludes the two things no part of the code protects
against: an input rewritten under a call (`moved`), and a death between the two puts
after which the input is given back a content it had before (`halfWritten` and
`returned`), which the meta of the time still vouches for.

### Collect

Proofs: `CollectProofs`.

A source, the provider behind it, the runs that collect it and the console that edits
it. The provider numbers its changes (`changed`, `alive`, `tick`); a delta cursor is a
folder and a number. A run reads the source (`RunCollect`), lists (`ListDelta` for a
SharePoint source in delta mode, a folder otherwise), downloads one item at a time
(`StoreRaw`, which stores what the item holds then), purges what the delta says was
deleted (`PurgeDeleted`), writes the manifest, hands it to the ingest (`Ingest`) and saves
the cursor: `PatchSourceConfig` and `PatchUpdate` are the two reads and `Write` the
UPDATE, as `update_source` writes the whole row. The pages of one listing, and the
listing and the purges of one deletion, are one step each; a failure of any of them is
`Fail`. `Open`, `EditFolder` and `EditEnabled`
are the console. `Fail` ends a run anywhere. `Matches` is the test by which a deleted
item's document is looked for: whether the raw key holds its id.

### Chunking and GraphExtraction

Proofs: `GraphExtractionProofs`.

`Chunking` has the pure functions: the chunkers (`SplitOversized`, `ChunkFromBlocks`,
`ChunkFromPymupdfJson`) and the texts of the graph extractor (`Sanitize`,
`SplitChunkLineGroups`, `SplitChunkBatches`, `SplitBatchText` and the three ways it cuts).
A text is a sequence of characters; blanks and newlines are told apart, and every other
character is a number of its own, so that one can be followed through every cut
(`Numbered` says that no number is in two places of a document). The loops of the code are
folds over sequences, and the `while` of `_split_oversized` a recursive function.
`GraphExtraction` composes them: a job chunks its document, groups and batches the
chunks, runs the batches of a group behind a semaphore (`RunBatch`), and a call is
answered, empty (asked once more), too long (`Split`) or broken (`Raise`). What a failed
job left running goes on. The reference definition is `TextAccounted`: the
composition of all of them loses and repeats nothing. Abstracted: what NFC, control
characters and TeX commands do to a text (`Sanitize` has the newlines and blanks) and
what is in a graph.

### Search

Proofs: `SearchProofs`.

`knowledge_search` in each of its modes, beside what changes the index. A mode is a
program of labels (`Program`), one for each query and each fusion; every query is one
step that sees the rows of its moment and returns any ranking of some of them within its
limit. `Fuse` is `reciprocal_rank_fusion` with exact scores (in units of 1 / `Scale`, of
which every 1 / (k + rank) is a whole number), a tie going to the hit met first
(`MetFirst`) as in the stable sort; it is written as the set of the sequences in which
every hit is at its place, of which there is one. Hits of all kinds are fused by their
ids, which is why the ids of chunks are assumed to be no other's (`ids.chunk_id` and
`entity_vid` hash strings that differ in kind). Writers purge, ingest, restore and
reingest as short programs of the calls a search, or another of them, can notice
(`DocumentLifecycle` has them all). They take no lock: any number may be at work on one
document, and each may die between any two of its calls (`WriterEnds`). The GraphRAG run
reads chunks (`Aggregate`) and writes their mentions later (`UpsertMentions`). A MATCH
that fails is answered by nothing. Entities, edges and pages are constants, since only
the deletion of the project removes them.

One meeting breaks what a purge promises, and is therefore exempt: an ingest that
has set its document to pending writes its rows whatever a purge has made of the
document meanwhile (finding 1). `met` records a purge under way that such an ingest was
seen beside, and `quiet` the documents in state purged whose purge met none;
`NoBuriedHit` is about those. All other meetings are allowed and covered.

### MC modules

One for each group above: they name the parameters of the runs, and the cfgs choose.

## Contended documents

The code takes no lock on a document, so nearly every promise can be broken by
two operations that meet on it. The models do not forbid that. They record it:
`contended` grows when an operation starts on a document while a conflicting one
is in flight, and never shrinks. The properties then say what holds of documents
that are not contended, whatever ran on them before, failed half-way or runs
beside them on other documents. Operations that do not conflict (two purges, two
GraphRAG runs, two uploads) may meet freely. What holds even for contended
documents is said by `IndexMirrorsArtifact`; that purging does not work for them is
the `tombstone` run. The interleavings cut away like this are not covered by any other
property: the hazards in `PROJECT.json` say of each which part is.

## What the runs check

| Run | Question | Result |
|---|---|---|
| `safety` | two workers, all seven operations, one document, stable, broken or unstable parsing, three attempts, two failures anywhere | `PurgeLeavesNothing`, `VerticesCovered`, `IndexedIsBacked`, `DeadLetterExplained`, `StaleFlagged`, `ErasedUntilRestored`, `KeepsContract` and `IInv` hold |
| `batch` | two documents, one parsed by OCR, ingests and GraphRAG runs that race, no failure | `IndexMirrorsArtifact`, `KeepsContract` and `MirrorInv` hold |
| `liveness` | ingest and purge with one failure and a parser that may fail once | `IngestSettles` holds under `FairSpec` |
| `raw_files` | two workers, all operations, one content under three names, one failure | `RowHasFile`, `FileAccounted`, `SkippedHasRow`, `BuriedIsBlocked` and `IInv` hold |
| `project` | two requests (purge, delete), or purges of the source and the document, beside all else, one failure | `PurgedLeavesOnlyLate`, `DeletedLeavesNothing`, `OneOfAKind`, `LifecycleReleased`, `RunsFinalized` and `IInv` hold |
| `agent_cache` | two callers, each agent and each invoke mode, an input written again twice, one failure, between the puts too, an agent that may never answer | `CachedIsCurrent`, `MetaVouches`; `CallEnds` under `FairSpec` |
| `graph_run` | two runs of one batch or of two, skipped agents, deaths anywhere, a MATCH that fails, one purge | `RowHasVertex`, `IndexedIsComplete` and `IInv`; `RunsEnd` under `FairSpec` |
| `collect` | two runs of a source of each driver, two changes or deletions, one edit or failure | `CursorCovered`; `ChangeCollected` under `FairSpec` |
| `extraction` | documents of one to two boxes with every role and pattern of blanks, both chunkers, every answer of the LLM to every call | `TextAccounted`; `JobEnds` under `FairSpec` |
| `search` | every mode, beside two writers on one document that purge, ingest, restore and reingest, and may die, and a GraphRAG run; every fusion, with ties, overlaps, limits and edges, while nobody writes | `NoBuriedHit` and `FusedFairly` |
| `tombstone` | ingest beside a purge | violated: see findings |
| `collect_deletions` | delta runs and deletions, no failure | violated: see findings |

`IInv` is the inductive invariant of the module, the type invariant first; where a run
checks it, `TypeOK` is not listed beside it.

Every property of a passing run has a mutant in `PROJECT.json`: a plausible mistake
in one definition (written beside it in the module) with which TLC finds the
property violated.

### Findings

Two disagreements between the code and what is written about it are runs:

1. **An ingest under way when a purge ends revives the document's index**
   (`TombstoneBlocksIndexing`, run `tombstone`): both tombstone checks are at the head of
   `ingest_item`, `mark_rag_indexed` checks nothing.
2. **A file deleted at the provider keeps its document** (`DeletionCovered`, run
   `collect_deletions`): `collect_delta` looks for the remote id in the raw key, which is
   made of the content hash and the file name and does not hold it. The cursor moves on,
   so no later listing names the deletion. A deletion that fell before a first listing is
   not listed at all.

Seven more each have a definition in the modules and a cfg of their own. They are not among
the runs `PROJECT.json` lists: the cfg is there to reproduce the counterexample by hand.

| cfg | Definition | What the code does |
|---|---|---|
| `MCDocumentSearchable` | `IndexedIsSearchable` | `api_reingest_document` clears the embeddings first and sets pending later (`admin/lifecycle.py:112`): if it dies in between, an indexed document has nothing vector search can find, and no manifest picks it up. |
| `MCDocumentStaleVectors` | `NoStaleVectors` | Only an indexed document is compensated (`steps/ingest_helpers.py:84`). An attempt that died before `mark_rag_indexed` left it pending with embeddings; where OCR reads other text the second time, both attempts' vectors are searchable. |
| `MCDocumentPages` | `NoPagesAfterPurge` | `_delete_parsed_artifacts` (`lifecycle/purge.py:27`) does not delete the page images and page texts of OCR, which `pipeline/DESIGN.md:419-420` lists among a document's outputs. |
| `MCRawReopen` | `UploadNeverReopens` | The key an upload checks holds the file name (`admin/uploads.py:209`), so the same content under another name sets its document, indexed or not, back to pending. `ARCHITECTURE.md:42` promises a skip. |
| `MCRawOrphans` | `OrphanHasNoRow` | Without a project, the default, `artifact_cleanup` (`lifecycle/artifact_cleanup.py:41`) asks for no documents and deletes every raw file of the tenant. The comment at line 34 says "without PG document". |
| `MCGraphQuiet` | `IndexedHasCommunities` | `export_project_graph` returns no edges when its MATCH fails (`graph/nebula_store.py:307`, and `:379` for the scope). The run finds no community, writes no page and marks the batch indexed_graph, which `ARCHITECTURE.md:222` explains as GraphRAG, graph and wiki, being complete. |
| `MCProjectBusy` | `BusyIsRefused` | The purge inside a deletion marks the project purged while its rows are still there (`lifecycle/purge.py:188`), and a purge requested then is accepted. |

Read in the code while modelling, and not stated as properties:

- `_largest_connected_component` (`graph/community_detector.py:28`) returns the component
  of the first edge, not the largest (`pipeline/DESIGN.md:553`). `Detected` has any.
- Entities are inserted IF NOT EXISTS, after `UpsertMention` inserted the same vertex
  bare: such an entity never gets its description (`DESIGN.md:539-540` says semantic
  ones win). `UpsertEntity` does the same.
- No purge and no deletion removes the rows of `path_graph.entities`, though the
  docstring at `meta/pg.py:1588` says all metadata; hence `dropped` in `RowHasVertex`.
- `list_chunk_vertices` of the live store returns nothing, so the reconciliation
  `lifecycle/reconcile.py:20` describes deletes nothing.
- `communities.jsonl` holds all records and each row of `communities` names it as its
  own, so that `load_graph_context` can read it only for a batch of one community.
- `stale_communities` is written with the document's id, so no community is ever told
  stale; only the project is.
- A community whose page is written again under another title has two pages with one
  hit id: a global search then returns it twice, and drift adds both their scores.
  `FusedFairly` leaves such hits out of its comparison.
- Compensation clears embeddings, and full-text search asks for none: between it and
  the next ingest, or for good when that dies, the old chunks are found by words.
- Both halves of a text that was cut are asked at once under one permit, so requests
  exceed `max_concurrent_workers`; when one raises, the others go on after the job has
  failed (`Holders` is why).
- `chunk_from_pymupdf_json` drops a caption that no image follows, and does not cut an
  image's caption; `TextAccounted` is about tables and paragraphs (`Body`).
- A batch id is the second it was made in (`admin/uploads.py:294`, `admin/runner.py:118`):
  two in one second overwrite each other's manifest, and a collected batch is then
  ingested nowhere while its cursor moves on. The modules take ids to be distinct.
- An upload that dies between `store_raw` and `upsert_document` leaves a file no manifest
  lists, and every later upload answers already_exists; build_ingest_manifest looks at
  the first 500 pending rows only.
- An edit of a source's folder keeps the cursor of the old one, which the next delta
  uses (`ListDelta`; `Followed` excludes it); a run's `patch_source_config` may undo an
  edit made between its read and its write. A changed file becomes a new document, and
  the one of its old content stays.
- A dead letter's key is (tenant, content hash): a purge in one project deletes the
  dead letter of the same file in another.

What `project` shows to hold, with what it does not say: a project marked purged may
still have rows and parsed files of documents whose own purge died (they are in
`purging`, which `purge_project` skips), and pages of scans; only a deletion leaves
nothing. Two workflows of one kind do not run together as long as two requests are not
made at the same moment: nothing makes check and mark one step.

### Bounds

- Two workers: the conflicts are between two operations, and a third worker adds
  only another meeting. With three workers and two failures `safety` passes too (about
  a million states).
- One document in `safety`: operations touch only the documents of their batch, so
  documents interact through batches alone, which `batch` covers with two. The proofs
  are for any number.
- `Uncontended` (a constraint of `safety`): of the properties checked there, none
  says anything of a contended document, and there is one document, so the search may
  stop where it becomes contended. Without the constraint, and one failure, the run
  passes as well, with 11.7 million states.
- Two chunks, one with a wikilink: enough for a chunk with and one without a vertex,
  and for a second text that overlaps the first in no chunk.
- `RetryLimit` 2 in `safety`, as in the template; 1 in `liveness`, so that one failure
  and one dead letter exhaust it. `MaxCrashes` up to 2: one failure leaves an
  operation half-done, the second does it to the one that comes to repair it.
- `raw_files`: one content under two names of the manual source and one of a remote
  source. `PageLimit` 1 (500 in the code) is never exceeded there.
- `project`: two requests, enough for a purge beside a deletion, a second request after
  the failure of a first, and with `ListLimit` 1 (200 in the code) for a run hidden behind
  another; one document, since a workflow treats each alike and documents are touched
  one at a time; one failure. With two failures the run passes too (785,196 states).
- `agent_cache`: two callers (one that writes while another reads or writes), two
  versions of the input and two rewrites (away and back), one failure, and two attempts
  at a busy agent (5 in the code).
- `graph_run`: two runs, of one batch or of two that share an entity; one wikilink each,
  an agent that names an entity it does not list, no or two pages per community, at most
  two communities, one purge. A third submission of a batch adds only a run that starts
  from what two have left.
- `collect`: two items in one of two folders, of which one may have its id in its name; two
  changes, enough for one before and one after a listing; two runs that overlap; one edit
  or failure. `collect_deletions`: one run, three changes.
- `extraction`: one or two boxes, texts of five to seven characters with a blank, a line, a
  break and none; windows, batches and groups as small as they can be so that every
  cut and every limit is reached.
- `search`: two documents of one chunk each, one mentioned in the graph; two entities, two
  pages of one community, one edge id; three hits out of channels of two, so that lists
  overlap, limits cut, and edges fill; one follow-up of a drift search with both of its
  sub-searches. All of these while no writer and no run has begun (`Quiescent`); beside
  two writers, the mentioned chunk and an entity that leads to it are the only hits
  (`OneChunk`): what a purge leaves is decided chunk by chunk, two writers are what it
  takes for an ingest to outlive a purge, and a fusion does not depend on who writes.
- Workers are symmetric; the symmetry is not used where liveness is checked.

### Fairness

`FairSpec` asks for weak fairness of the steps of each worker: a pod that is running
goes on until it ends, since every call returns or raises (the clients have
timeouts) and Argo notices pods that are gone. Nobody is obliged to start an
operation, and no call is obliged to fail or to succeed: `Start` and `Crash` have no
fairness. `IngestSettles` excludes a document whose parsing may fail when a call
failed too: a dead letter exits with 2, which Argo counts as a failed attempt, so the
retry sets the document back to pending and may be the last one.

`ProjectLifecycle` asks for weak fairness of the steps of each request together: the
console goes on with a request it began, Argo runs a submitted workflow to its end (or
its deadline, `Fail`), the reconciler polls. Without the reconciler neither
`RunsFinalized` nor `LifecycleReleased` could hold. Nobody is obliged to make a request.

`AgentCache`, `GraphRun` and `GraphExtraction` ask for weak fairness of the steps of
each call, run or job: a pod that lives runs on, its requests have timeouts and its
waits have deadlines. The agent, Nebula's propagation and the LLM owe nothing: that
`CallEnds`, `RunsEnd` and `JobEnds` hold all the same is what is checked. `Collect` asks
in addition that the schedule starts runs of the source's own mode again and again (a
source has a `schedule_cron`, `admin/sources.py`, for which the console keeps a
CronWorkflow, `deploy/k8s/base/backend-pipeline-rbac.yaml`); `ChangeCollected` is about
a file the source goes on following.

Runs that say `CHECK_DEADLOCK FALSE` are those where the system may really stop: no
worker has anything to do and nothing more may be asked for.

## What is proved

Every invariant and every action property a passing run checks is proved. A theorem
holds for every value of the constants (any documents, texts, names, workers, callers,
items, runs, batches, rankings, budgets, retries and failures); the assumptions are each
module's `ConstantsAssumption` (the parameters are of their kind; for the search also that
`Scale` suits the ranks there are, for an extraction `Numbered`), `ChunkingAssumption` (a
chunk may have three characters), for `Collect` `NoneAssumption` (the value that stands for
"nothing" is neither a config nor a row), and what three theorems say they assume of the
operations there are:

- `RowKeepsFile` assumes that `cleanup_all` is not run. `artifact_cleanup` without a
  project takes every raw file of the tenant for an orphan (see `PROJECT.json`, hazards),
  so that no file is safe from it, and `RowHasFile` is about everything else.
- `MirrorInvariance` and `IndexMirrors` assume that documents are only ingested and put in
  the graph, as in the run `batch`. A restore of a live document, which
  `api_restore_document` allows, ends it.

| Theorem | Says | In |
|---|---|---|
| `Invariance` | `Spec => []IInv` | `DocumentLifecycleProofs` |
| `TypeCorrect` | `Spec => []TypeOK` | |
| `PurgeComplete` | `Spec => []PurgeLeavesNothing` | |
| `GraphCovered` | `Spec => []VerticesCovered` | |
| `IndexBacked` | `Spec => []IndexedIsBacked` | |
| `DeadLettersExplained` | `Spec => []DeadLetterExplained` | |
| `WikiFlagged` | `Spec => []StaleFlagged` | |
| `StaysErased` | `Spec => ErasedUntilRestored` | |
| `ImplementsContract` | `Spec => KeepsContract` | |
| `MirrorInvariance` | `Spec => []MirrorInv`, if `Ops \subseteq {"ingest", "graphrag"}` | |
| `IndexMirrors` | `Spec => []IndexMirrorsArtifact`, if `Ops \subseteq {"ingest", "graphrag"}` | |
| `Invariance` | `Spec => []IInv` | `RawFilesProofs` |
| `TypeCorrect` | `Spec => []TypeOK` | |
| `NoFileIsLost` | `Spec => []FileAccounted` | |
| `SkippedRowIsWritten` | `Spec => []SkippedHasRow` | |
| `RowKeepsFile` | `Spec => []RowHasFile`, if `"cleanup_all" \notin Ops` | |
| `BuriedStaysBlocked` | `Spec => BuriedIsBlocked` | |
| `Invariance` | `Spec => []IInv` | `ProjectLifecycleProofs` |
| `TypeCorrect` | `Spec => []TypeOK` | |
| `PurgeLeavesOnlyLate` | `Spec => []PurgedLeavesOnlyLate` | |
| `DeletionLeavesNothing` | `Spec => []DeletedLeavesNothing` | |
| `OneWorkflowOfAKind` | `Spec => []OneOfAKind` | |
| `CacheInvariance` | `Spec => []CacheInv` | `AgentCacheProofs` |
| `CacheTyped` | `Spec => []TypeOK` | |
| `CacheCurrent` | `Spec => []CachedIsCurrent` | |
| `CacheVouches` | `Spec => []MetaVouches` | |
| `CursorInvariance` | `Spec => []CursorInv` | `CollectProofs` |
| `CollectTyped` | `Spec => []TypeOK` | |
| `CursorNeverAhead` | `Spec => []CursorCovered` | |
| `VertexInvariance` | `Spec => []VertexInv` | `GraphRunProofs` |
| `RowsHaveVertices` | `Spec => []RowHasVertex` | |
| `Invariance` | `Spec => []IInv` | |
| `TypeCorrect` | `Spec => []TypeOK` | |
| `IndexedBatchIsComplete` | `Spec => []IndexedIsComplete` | |
| `Invariance` | `Spec => []IInv` | `SearchProofs` |
| `PurgedIsNotFound` | `Spec => []NoBuriedHit` | |
| `FusionsFair` | `Spec => []FusedFairly` | |
| `JobInvariance` | `Spec => []JobInv` | `GraphExtractionProofs` |
| `JobTyped` | `Spec => []TypeOK` | |
| `TextIsAccounted` | `Spec => []TextAccounted` | |

### The argument for documents

None of the properties is inductive. Why a buried document is empty lies in what
its purge has deleted before it buried it; why it stays empty lies in what an ingest
or a GraphRAG run knows of the document it is in the middle of writing (for
instance that it is still pending, or still indexed). `CoreInv` says both: `Content` is
about the stores, `Knowledge` about each worker at each of its labels
(`Compensating`, `Purging`, `Ingesting`, `Graphing`), both for documents that are not
contended; `Exclusion` says that whoever meets on such a document runs operations that
are alike. `IInv` adds `Waking` (what a reingest read) and `Flagging` (who is about to
flag the wiki).

The argument is rely-guarantee, since one proof per pair of actions would not be
readable. A step is `Sound` when it leaves other documents
alone, re-establishes `Content` and its own `Knowledge` of its documents, and gives a
`Guarantee`: what an operation of the same kind relies on (a purge only removes, a
reingest leaves the rows, a GraphRAG run leaves the rows and an indexed document
indexed). `Relying` says that the knowledge of another worker survives a step that
leaves its document untouched or gives it that guarantee; `Composing`, that a sound
step therefore preserves `CoreInv`. What is left is one lemma per action that it is
sound, and the starting of an operation, where `contended` and `Exclusion` are
decided (`StartKeeps`).

Three results go beyond what a state looks like. `StaleFlagged` needs `Flagging`: as long
as no call failed and the flags are empty, every purged document has a purge at its last
two calls, also where many purges read the flags at the same moment. `ErasedUntilRestored`
follows for each action from `IInv` before the step: whoever could write
`ingest_state` of a purged document is known not to be there, or is a restore.
`KeepsContract` is shown action by action: the initial states map to initial states of
`DocumentContract`, and a step maps to one of its steps or leaves what it sees alone; what
an action may do to the index of a document is again what `Knowledge` says of the label.

`IndexMirrorsArtifact` has an invariant of its own, `MirrorInv`, since it speaks of
contended documents too. When an ingest clears the embeddings it comes to store new ones
(`Reindexing`); so the embeddings of a document are all of the artifact's or none, and
in the latter case somebody is on the way (`Mirrors`). Ingests that race write the same
chunks as long as parsing gives the same ones (`ParsedAlike`); of a document on which
none raced, nothing need be assumed of parsing (`Sequential`).

### The argument for raw files

A row has its file because of the order of an upload's calls, and loses it only to who
is about to erase the row: `Content` says the first of documents that are not contended,
`Knows` what each worker knows at each label of the file it is about, and `Exclusion`
that on such a document only storers meet. That no file is lost is about the listings of
the cleanup: it lists rows before files, so that a file it will delete had no row then,
and whoever stored it since would have been a conflict (`Sweeps`); and a file without a
row is in a manifest or in somebody's hands (`Accounted`). An upload that found a file
skips its row because of another upload that has the row still to write (`Skips`).
Both need that no call failed, which the properties say.

### The argument for projects

A purge empties one store after the other, and what is left is decided by what was touched
since it listed the documents. The labels from `Emptying` to `Unprefixed` are each
contained in the one before, and `Done` says, of a document nobody touched, what is gone
at each of them; `Remembered` is what a deletion listed for the stores it addresses by
document. `Kept` carries the documents of earlier purges. `Alone` is the argument for
`OneOfAKind`: of requests that do not overlap, the one that has looked still finds none.

### The argument for the cache

An entry is two objects, and two callers may put theirs in any order, or die between the
two. As long as no input is rewritten under a call, all
calls under way hashed one and the same content (`OneInput`), so their jobs read it
(`JobsCurrent`), their results are of it (`ResultsCurrent`), and whichever put comes last
puts the same as the others (`ArtifactCurrent`). An entry that nobody is writing and nobody
died over is `Whole`. Of one that is not, the meta is older than the artifact, since the
artifact is put first: it is of a content the input has had, and as long as the input is
given none of those back, it vouches for nothing (`MetaIsOfThePast`). `CacheInv` is these,
the type and the bound of a retry.

### The argument for the cursor

`CursorCovered` is about the cursor in the source's row, but a cursor is in five other
places on its way there: in the config a run has read, in the config it is about to
write, in the row a run or the console is about to write, and with a listing. `Covers`
says of each what it must cover, the last together with the items the run has still to
download and the contents it has still to hand over; a row written over another then
does no harm, because both cover what they must. A change at the provider takes the item
out of reach of every cursor there is, as its number is behind all of them
(`NumberedAnew`).

### The argument for entities

A vertex that was written stays until the space is dropped, and a run writes its rows
when it has no vertex left to write. `Written` says so of a run in its entities phase;
all other steps keep apart from both (`ApartKeeps`, `ElsewhereKeeps`).

### The argument for batches

`IndexedIsComplete` is about what a run wrote many phases ago and others could have
undone since. `IInv` of `GraphRun` says, of a run that no purge and no run of its own
batch came across, what it has written at every label: `InGraph`, `InCommunities` and
`InWiki`, each "all of it, but for what is still in `todo`". That an export that was
read (`~blind`) finds a community where the agent found an edge is a fact about
`Detected`. A run of another batch only adds to what is shared (vertices, edges, rows of
entities) and writes its communities and pages under ids of its own batch, so that one
lemma (`StepKeeps`) reduces a step to what it does for its own run, and short ones
(`MovesKeep`, `GotoKeeps`, `PhaseKeeps`) to a phase. That communities are gone through
in order needs that `Current`, the least of those left, exists: naturals are
well-founded.

### The argument for the search

A document in state purged whose purge met no ingest about to write its chunks has no
rows (`Gone`). No lock says so: it is in the order of the calls (`InOrder`). A purge
that has deleted the rows, and was never seen beside an ingest between `upsert_document`
and `upsert_chunks`, leaves none (`Cleared`), and when it has set the state, no ingest
is at that point either (`Calm`): to come there an ingest has to set the document to
pending first, and it is in state purged no longer. The graph may name its chunks long
after, but what a ranking holds came from a row, or is no chunk (`Found`). `Lasting`,
what a search may name, only grows while it runs, with what leaves the state purged.
That pages are turned into communities and nothing else is needs that only pages were
read before their fusion (`PagesFirst`), whatever follow-ups a drift search has.

`FusedFairly` is a fact about one fusion, whatever was ranked. A fusion gives a hit the
place that is one more than the number of hits `Before` it; as `Before` is a strict total
order (`BeforeOrders`), the places are 1 to n, each taken once (`PlaceIs`), and the result
is in its order (`FuseOrders`). What is left is about sums: a hit that is above another in
every ranking that names the other, which names it once, scores no less
(`ScoreAhead`), and when it scores the same it was met first. Sums are functions on the
first n numbers that the prover is shown to exist, to agree with each other and to grow
with their terms (`SumsExist`, `SumsAgree`, `TotalGrows`, `TotalOvertakes`); each is an
induction written as the impossibility of a least counterexample, which needs no
induction theorem, only that a set of naturals has a least member (`LeastOf`).

### The argument for extraction

A job's properties are about characters, so the first half of the module follows the
visible ones through every function of `Chunking`. Two predicates are enough: `Ink`,
what is visible of a sequence of texts, and `Apart`, that no character is in it twice.
Each cut gives two `Halves` of its text, whose ink together is the text's and which
share nothing if the text had every character once; `CutIs` says so of two parts that
leave out blanks only, and the three ways to halve a batch (`BatchTextIs`) and the
window of a chunker (`FirstPieceIs`) follow. A loop is a fold, of which it is first to
be shown that there is such a function (`FoldExists`), then what it is step by step
(`BoxedRuns`, `BlockedRuns`, `SanitizeRuns`, `GroupedRuns`, `BatchedRuns`, `JoinRuns`),
and then what a step does to ink and to sharing: `Climb` takes that from 0 to the
length. The recursion of `SplitOversized` ends because a cut is never at the start of
the rest (`PieceEndIs`, for which a chunk must be allowed three characters):
`ChoppedExist`, `OversizedIs`. `LoadedIs` puts them together: the batches of a document
are apart, each has something visible, and together they hold its body.

`JobInv` is the second half: `BatchesApart`, that the batches are like that; `OfBatches`,
that every text in a call, in a graph or among the lost is part of a batch that was begun;
`TextsApart`, that they share nothing; and `Covered`, that until the job fails the whole of
a begun batch is in them. Every step that ends a call is a `GivesWay`: the call is
replaced by calls that share nothing and lie within its text, or its text is put down, or
the job fails; one lemma (`CallKeeps`) shows that this keeps the invariant, and the
answers, the second attempts, the cuts and the failures are shown to be such steps.

### What is only model-checked

- Liveness, which is beyond the prover with everything that has ENABLED: `IngestSettles`,
  `LifecycleReleased`, `RunsFinalized`, `CallEnds`, `RunsEnd`,
  `ChangeCollected` and `JobEnds`.

## Not modelled

See "components" in `PROJECT.json` for each part and the reason. In short:
reconciliation does nothing in production (`list_chunk_vertices` returns an empty list
there); credentials, configuration and the agents' prompts have no protocol of their
own; formats, parsers and OCR appear as what they return; `chunk_from_markdown` is called
by nothing; the levels of communities above the first, the console's listings and the
audit rows are data no property depends on.

## Plan

Done: `DocumentLifecycle` with `DocumentContract`, `DocumentInvariant` and the proofs;
`RawFiles`; `ProjectLifecycle`; `AgentCache`; `GraphRun`, which has the preparation of the
space too; `Collect`; `Chunking` with `GraphExtraction`; `Search`.

Proved: every safety invariant and action property the passing runs check.

What would come next, in this order:

1. An abstract specification of a raw file (absent, held by somebody, named by a row or a
   manifest, gone) that `RawFiles` implements, and one of a project (open, being purged,
   purged, deleted) that `ProjectLifecycle` implements, as `DocumentContract` is for
   documents; their refinement checked and then proved.
2. `DocumentLifecycle`: what remains true of contended documents.
