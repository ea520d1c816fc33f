------------------------------ MODULE RawFiles ------------------------------
(***************************************************************************)
(* The raw files of a project and the rows that name them: uploads to a    *)
(* manual source, collected batches of a remote one, the manifests ingest  *)
(* is started from, document purge and restore, and the artifact cleanup   *)
(* that deletes whatever it takes for an orphan.                           *)
(*                                                                         *)
(* The key of a raw file holds the source, the content hash and the file   *)
(* name; the id of a document only the hash.  So a document may have       *)
(* several files, of which its row names the one it was inserted with.     *)
(* What ingest does behind the row is in DocumentLifecycle; here it ends   *)
(* with the document ingested or not.  An operation starts with its first  *)
(* call, and every further call is a step.                                 *)
(***************************************************************************)
EXTENDS Naturals, FiniteSets

CONSTANTS
  Doc,        \* documents by content hash, numbered in the order of their ids
  Name,       \* source and file name of a raw key
  Manual,     \* those of the manual source, the others are collected
  NoName,     \* the uri of a document without a row
  Batch,      \* batch ids
  Worker,     \* pods and API calls that may be running at one time
  Ops,        \* the operations the environment asks for in this instance
  PageLimit,  \* documents a manifest is built from, 500 in the code
  MaxCrashes  \* bound: how many calls fail or pods die in a behaviour

PurgeOps   == {"purge", "purge_hard"}        \* hard_raw = False, True
CleanupOps == {"cleanup", "cleanup_all"}     \* with and without a project_id
AllOps == {"upload", "collect", "build", "ingest", "restore"}
          \cup PurgeOps \cup CleanupOps

ASSUME ConstantsAssumption ==
  /\ Doc \subseteq Nat /\ IsFiniteSet(Doc)
  /\ Manual \subseteq Name /\ NoName \notin Name
  /\ Ops \subseteq AllOps
  /\ PageLimit \in Nat /\ MaxCrashes \in Nat

File == Doc \X Name

VARIABLES
  raw,        \* the files under raw/
  state,      \* documents.ingest_state; "ingested" stands for indexed_rag,
              \* indexed_graph and dead_letter, "none" for no row
  uri,        \* documents.s3_raw_uri, as the name of the file
  tombstones, \* documents whose content hash is buried
  manifests,  \* batches whose manifest.jsonl is there
  lines,      \* and the files it lists
  pc, op,     \* where a worker is, and what it runs
  items,      \* the files its operation is about
  todo,       \* of those, or of the orphans, the ones still to put or delete
  batches,    \* the batch it writes, or the manifests it will delete
  seen,       \* upload: already_exists
  crashes,    \* calls that failed so far
  shredded,   \* history: documents a hard purge deleted the file of
  contended   \* history: documents conflicting operations met on

storeVars == <<raw, state, uri, tombstones, manifests, lines>>
procVars  == <<pc, op, items, todo, batches, seen>>
envVars   == <<crashes, shredded, contended>>
vars      == <<storeVars, procVars, envVars>>

States == {"none", "pending", "ingested", "purging", "purged"}
Labels == {"idle", "load", "gate", "put", "upsert", "recheck", "insert",
           "settle", "write", "begin", "shred", "bury", "mark", "unbury",
           "revive", "list_docs", "list_raw", "delete"}

TypeOK ==
  /\ raw \subseteq File
  /\ state \in [Doc -> States]
  /\ uri \in [Doc -> Name \cup {NoName}]
  /\ \A d \in Doc : state[d] = "none" <=> uri[d] = NoName
  /\ tombstones \subseteq Doc /\ shredded \subseteq Doc /\ contended \subseteq Doc
  /\ manifests \subseteq Batch
  /\ lines \in [Batch -> SUBSET File]
  /\ pc \in [Worker -> Labels]
  /\ op \in [Worker -> AllOps \cup {"none"}]
  /\ items \in [Worker -> SUBSET File]
  /\ todo \in [Worker -> SUBSET File]
  /\ batches \in [Worker -> SUBSET Batch]
  /\ seen \in [Worker -> BOOLEAN]
  /\ crashes \in 0..MaxCrashes

Init ==
  /\ raw = {} /\ tombstones = {} /\ manifests = {}
  /\ state = [d \in Doc |-> "none"]
  /\ uri = [d \in Doc |-> NoName]
  /\ lines = [b \in Batch |-> {}]
  /\ pc = [w \in Worker |-> "idle"]
  /\ op = [w \in Worker |-> "none"]
  /\ items = [w \in Worker |-> {}]
  /\ todo = [w \in Worker |-> {}]
  /\ batches = [w \in Worker |-> {}]
  /\ seen = [w \in Worker |-> FALSE]
  /\ crashes = 0 /\ shredded = {} /\ contended = {}

-----------------------------------------------------------------------------
(* The control of an operation.  Variants of a definition, each with a     *)
(* mistake the checks must notice, stand before it.                        *)

\* Worker w is at label l of an operation on the single file f.
At(w, f, l) == pc[w] = l /\ items[w] = {f}

Goto(w, l) ==
  /\ pc' = [pc EXCEPT ![w] = l]
  /\ UNCHANGED <<op, items, batches, seen>>

Finish(w) ==
  /\ pc'      = [pc EXCEPT ![w] = "idle"]
  /\ op'      = [op EXCEPT ![w] = "none"]
  /\ items'   = [items EXCEPT ![w] = {}]
  /\ todo'    = [todo EXCEPT ![w] = {}]
  /\ batches' = [batches EXCEPT ![w] = {}]
  /\ seen'    = [seen EXCEPT ![w] = FALSE]

\* Argo may run a failed ingest pod again, from its first line.
Fail(w) == Finish(w) \/ (op[w] = "ingest" /\ Goto(w, "load") /\ UNCHANGED todo)

\* The documents an operation of kind o on the files F is about.
About(o, F) == IF o \in CleanupOps THEN Doc ELSE {f[1] : f \in F}

\* Whoever deletes or restores conflicts with everyone else.
Conflict(o, p) ==
  {o, p} \cap (PurgeOps \cup CleanupOps \cup {"restore"}) # {}

\* An operation starts on files F, at the call after the one it started with.
Begin(w, o, l, F, B, exists) ==
  /\ pc[w] = "idle" /\ o \in Ops
  /\ pc'      = [pc EXCEPT ![w] = l]
  /\ op'      = [op EXCEPT ![w] = o]
  /\ items'   = [items EXCEPT ![w] = F]
  /\ todo'    = [todo EXCEPT ![w] = IF l = "put" THEN F ELSE {}]
  /\ batches' = [batches EXCEPT ![w] = B]
  /\ seen'    = [seen EXCEPT ![w] = exists]
  /\ contended' = contended \cup
       {d \in About(o, F) : \E v \in Worker : /\ op[v] # "none"
                                              /\ d \in About(op[v], items[v])
                                              /\ Conflict(o, op[v])}
  /\ UNCHANGED <<storeVars, crashes, shredded>>

-----------------------------------------------------------------------------
(* upload_raw_file, collect_source and build_ingest_manifest.              *)

\* blob.exists at the head of an upload.
StartUpload(w, f) ==
  /\ f[2] \in Manual
  /\ Begin(w, "upload", "gate", {f}, {}, f \in raw)

\* A batch id is the second it was made in: two batches of one second would
\* share their manifest, which this module leaves out.
Fresh(b) == b \notin manifests /\ \A v \in Worker : b \notin batches[v]

StartCollect(w, F, b) ==
  /\ Fresh(b)
  /\ F \subseteq {f \in File : f[2] \notin Manual}
  /\ Begin(w, "collect", IF F = {} THEN "write" ELSE "put", F, {b}, FALSE)

\* The first PageLimit rows of SELECT ... ORDER BY id DESC.
Page(S) == {d \in S : Cardinality({e \in S : e > d}) < PageLimit}

PendingInSource == {d \in Doc : state[d] = "pending" /\ uri[d] \in Manual}

\* The page is cut before the documents W that were asked for are picked from
\* it; asking for none is asking for all.
StartBuild(w, W, b) ==
  /\ Fresh(b)
  /\ Begin(w, "build", "write",
           {<<d, uri[d]>> : d \in Page(PendingInSource) \cap W}, {b}, FALSE)

CheckNothing(w, f) ==
  /\ At(w, f, "gate") \/ At(w, f, "upsert")
  /\ Goto(w, CASE pc[w] = "upsert" -> "recheck"
               [] op[w] = "upload" -> "put"
               [] OTHER            -> "upsert")
  /\ UNCHANGED <<todo, storeVars, envVars>>

\* check_tombstone, and the same check at the head of upsert_document.
CheckTombstone(w, f) ==
  /\ At(w, f, "gate") \/ At(w, f, "upsert")
  /\ IF f[1] \in tombstones
     THEN Fail(w)
     ELSE /\ Goto(w, CASE pc[w] = "upsert" -> "recheck"
                       [] op[w] = "upload" -> "put"
                       [] OTHER            -> "upsert")
          /\ UNCHANGED todo
  /\ UNCHANGED <<storeVars, envVars>>

PutUploadOnly(w, f) ==
  /\ At(w, f, "put") /\ op[w] = "upload"
  /\ raw' = raw \cup {f}
  /\ Finish(w)
  /\ UNCHANGED <<state, uri, tombstones, manifests, lines, envVars>>

\* store_raw of an upload: a file that was there already gets no row.  The
\* exists and the put of put_bytes are one step, here and in PutCollected: if the
\* file exists the call is over, and if not only the put changes anything, and
\* to the same whatever happened in between, for a name holds one content.
PutUpload(w, f) ==
  /\ At(w, f, "put") /\ op[w] = "upload"
  /\ raw' = raw \cup {f}
  /\ IF seen[w] THEN Finish(w) ELSE Goto(w, "upsert") /\ UNCHANGED todo
  /\ UNCHANGED <<state, uri, tombstones, manifests, lines, envVars>>

\* store_raw of a collected file: it looks at no tombstone.
PutCollected(w, f) ==
  /\ pc[w] = "put" /\ op[w] = "collect" /\ f \in todo[w]
  /\ raw' = raw \cup {f}
  /\ todo' = [todo EXCEPT ![w] = @ \ {f}]
  /\ Goto(w, IF todo[w] = {f} THEN "write" ELSE "put")
  /\ UNCHANGED <<state, uri, tombstones, manifests, lines, envVars>>

WriteManifestOfRows(w) ==
  /\ pc[w] = "write"
  /\ manifests' = manifests \cup batches[w]
  /\ lines' = [b \in Batch |-> IF b \in batches[w]
                               THEN {f \in items[w] : state[f[1]] # "none"}
                               ELSE lines[b]]
  /\ Finish(w)
  /\ UNCHANGED <<raw, state, uri, tombstones, envVars>>

\* write_batch_manifest, for a collected batch and for one that was built.
WriteManifest(w) ==
  /\ pc[w] = "write"
  /\ manifests' = manifests \cup batches[w]
  /\ lines' = [b \in Batch |-> IF b \in batches[w] THEN items[w] ELSE lines[b]]
  /\ Finish(w)
  /\ UNCHANGED <<raw, state, uri, tombstones, envVars>>

-----------------------------------------------------------------------------
(* ingest of a manifest line, and upsert_document which upload shares.     *)

StartIngest(w, f, b) ==
  /\ b \in manifests /\ f \in lines[b]
  /\ Begin(w, "ingest", "load", {f}, {}, FALSE)

LoadRaw(w, f) ==
  /\ At(w, f, "load")
  /\ IF f \in raw THEN Goto(w, "gate") /\ UNCHANGED todo ELSE Fail(w)
  /\ UNCHANGED <<storeVars, envVars>>

RecheckPurged(w, f) ==
  /\ At(w, f, "recheck")
  /\ IF state[f[1]] = "purged"
     THEN Fail(w)
     ELSE Goto(w, "insert") /\ UNCHANGED todo
  /\ UNCHANGED <<storeVars, envVars>>

InsertWithoutUri(w, f) ==
  /\ At(w, f, "insert")
  /\ state' = [state EXCEPT ![f[1]] = "pending"]
  /\ IF op[w] = "upload" THEN Finish(w) ELSE Goto(w, "settle") /\ UNCHANGED todo
  /\ UNCHANGED <<raw, uri, tombstones, manifests, lines, envVars>>

\* INSERT ... ON CONFLICT DO UPDATE: pending again, but the first uri stays.
InsertDocument(w, f) ==
  /\ At(w, f, "insert")
  /\ state' = [state EXCEPT ![f[1]] = "pending"]
  /\ uri' = [uri EXCEPT ![f[1]] = IF @ = NoName THEN f[2] ELSE @]
  /\ IF op[w] = "upload" THEN Finish(w) ELSE Goto(w, "settle") /\ UNCHANGED todo
  /\ UNCHANGED <<raw, tombstones, manifests, lines, envVars>>

\* The rest of ingest_item: indexed, dead_letter, or without --rag no change.
SettleDocument(w, f) ==
  /\ At(w, f, "settle")
  /\ state' \in {state, [state EXCEPT ![f[1]] = "ingested"]}
  /\ Fail(w)
  /\ UNCHANGED <<raw, uri, tombstones, manifests, lines, envVars>>

-----------------------------------------------------------------------------
(* purge_document and api_restore_document.  Their first call reads the    *)
(* row, and with it the uri of the file a hard purge deletes.              *)

StartPurge(w, d, o) ==
  /\ o \in PurgeOps /\ state[d] \notin {"none", "purged"}
  /\ Begin(w, o, "begin", {<<d, uri[d]>>}, {}, FALSE)

SetState(d, s) == state' = [state EXCEPT ![d] = s]

BeginPurge(w, f) ==
  /\ At(w, f, "begin")
  /\ SetState(f[1], "purging")
  /\ Goto(w, IF op[w] = "purge_hard" THEN "shred" ELSE "bury")
  /\ UNCHANGED <<todo, raw, uri, tombstones, manifests, lines, envVars>>

DeleteRaw(w, f) ==
  /\ At(w, f, "shred")
  /\ raw' = raw \ {f}
  /\ shredded' = shredded \cup {f[1]}
  /\ Goto(w, "bury")
  /\ UNCHANGED <<todo, state, uri, tombstones, manifests, lines, crashes,
                 contended>>

InsertTombstone(w, f) ==
  /\ At(w, f, "bury")
  /\ tombstones' = tombstones \cup {f[1]}
  /\ Goto(w, "mark")
  /\ UNCHANGED <<todo, raw, state, uri, manifests, lines, envVars>>

MarkPurged(w, f) ==
  /\ At(w, f, "mark")
  /\ SetState(f[1], "purged")
  /\ Finish(w)
  /\ UNCHANGED <<raw, uri, tombstones, manifests, lines, envVars>>

StartRestore(w, d) ==
  /\ state[d] # "none"
  /\ Begin(w, "restore", "unbury", {<<d, uri[d]>>}, {}, FALSE)

ClearTombstone(w, f) ==
  /\ At(w, f, "unbury")
  /\ tombstones' = tombstones \ {f[1]}
  /\ Goto(w, "revive")
  /\ UNCHANGED <<todo, raw, state, uri, manifests, lines, envVars>>

Revive(w, f) ==
  /\ At(w, f, "revive")
  /\ SetState(f[1], "pending")
  /\ Finish(w)
  /\ UNCHANGED <<raw, uri, tombstones, manifests, lines, envVars>>

-----------------------------------------------------------------------------
(* artifact_cleanup: three listings, then one deletion after the other.    *)

\* The keys batches/{tenant}/*/manifest.jsonl, of any age.
StartCleanup(w, o) ==
  /\ o \in CleanupOps
  /\ Begin(w, o, "list_docs", {}, manifests, FALSE)

ListPendingDocuments(w) ==
  /\ pc[w] = "list_docs"
  /\ items' = [items EXCEPT ![w] =
       IF op[w] = "cleanup"
       THEN {f \in File : state[f[1]] = "pending"} ELSE {}]
  /\ pc' = [pc EXCEPT ![w] = "list_raw"]
  /\ UNCHANGED <<op, todo, batches, seen, storeVars, envVars>>

\* The content hashes with a row; without a project_id none are asked for.
ListDocuments(w) ==
  /\ pc[w] = "list_docs"
  /\ items' = [items EXCEPT ![w] =
       IF op[w] = "cleanup" THEN {f \in File : state[f[1]] # "none"} ELSE {}]
  /\ pc' = [pc EXCEPT ![w] = "list_raw"]
  /\ UNCHANGED <<op, todo, batches, seen, storeVars, envVars>>

ListRaw(w) ==
  /\ pc[w] = "list_raw"
  /\ todo' = [todo EXCEPT ![w] = raw \ items[w]]
  /\ Goto(w, "delete")
  /\ UNCHANGED <<storeVars, envVars>>

DeleteManifest(w, b) ==
  /\ pc[w] = "delete" /\ b \in batches[w]
  /\ manifests' = manifests \ {b}
  /\ lines' = [lines EXCEPT ![b] = {}]
  /\ batches' = [batches EXCEPT ![w] = @ \ {b}]
  /\ UNCHANGED <<pc, op, items, todo, seen, raw, state, uri, tombstones, envVars>>

DeleteOrphan(w, f) ==
  /\ pc[w] = "delete" /\ batches[w] = {} /\ f \in todo[w]
  /\ raw' = raw \ {f}
  /\ todo' = [todo EXCEPT ![w] = @ \ {f}]
  /\ UNCHANGED <<pc, op, items, batches, seen, state, uri, tombstones, manifests,
                 lines, envVars>>

EndCleanup(w) ==
  /\ pc[w] = "delete" /\ batches[w] = {} /\ todo[w] = {}
  /\ Finish(w)
  /\ UNCHANGED <<storeVars, envVars>>

-----------------------------------------------------------------------------
\* A call fails or the pod dies: the API calls are not repeated.
Crash(w) ==
  /\ pc[w] # "idle" /\ crashes < MaxCrashes
  /\ crashes' = crashes + 1
  /\ Fail(w)
  /\ UNCHANGED <<storeVars, shredded, contended>>

Start(w) ==
  \/ \E f \in File : StartUpload(w, f) \/ \E b \in Batch : StartIngest(w, f, b)
  \/ \E F \in SUBSET File, b \in Batch : StartCollect(w, F, b)
  \/ \E W \in SUBSET Doc \ {{}}, b \in Batch : StartBuild(w, W, b)
  \/ \E d \in Doc : StartRestore(w, d) \/ \E o \in PurgeOps : StartPurge(w, d, o)
  \/ \E o \in CleanupOps : StartCleanup(w, o)

Store(w, f) ==
  \/ CheckTombstone(w, f) \/ PutUpload(w, f) \/ PutCollected(w, f)
  \/ LoadRaw(w, f) \/ RecheckPurged(w, f) \/ InsertDocument(w, f)
  \/ SettleDocument(w, f)

Purge(w, f) ==
  \/ BeginPurge(w, f) \/ DeleteRaw(w, f) \/ InsertTombstone(w, f)
  \/ MarkPurged(w, f) \/ ClearTombstone(w, f) \/ Revive(w, f)

Cleanup(w) ==
  \/ ListDocuments(w) \/ ListRaw(w) \/ EndCleanup(w)
  \/ \E b \in Batch : DeleteManifest(w, b)
  \/ \E f \in File : DeleteOrphan(w, f)

Next ==
  \E w \in Worker :
    \/ Start(w) \/ WriteManifest(w) \/ Cleanup(w) \/ Crash(w)
    \/ \E f \in File : Store(w, f) \/ Purge(w, f)

Spec == Init /\ [][Next]_vars

-----------------------------------------------------------------------------
(* What must hold, of documents no conflicting operations met on.          *)

\* The file a row names is there, so that the document can be ingested again at
\* any time: no cleanup of the project takes it, and a purge that is restored
\* left it, unless it was a hard purge.
RowHasFile ==
  \A d \in Doc \ contended :
    state[d] \in {"pending", "ingested"} /\ d \notin shredded
    => <<d, uri[d]>> \in raw

\* When no call failed, no raw file is lost from sight: its document has a row,
\* a manifest lists it, or an operation on it is still under way.  So what the
\* cleanup takes for an orphan is what nothing would ever ingest.
FileAccounted ==
  \A f \in raw :
    \/ crashes > 0 \/ f[1] \in contended
    \/ state[f[1]] # "none"
    \/ \E b \in manifests : f \in lines[b]
    \/ \E w \in Worker : f \in items[w] \cup todo[w]

\* When no call failed, an upload that answers already_exists is right to write
\* no row: the file's document has one, or another upload is about to write it.
SkippedHasRow ==
  \A w \in Worker : crashes = 0 /\ pc[w] = "put" /\ seen[w] =>
    \A f \in items[w] :
      \/ f[1] \in contended \/ state[f[1]] # "none"
      \/ \E v \in Worker \ {w} : op[v] = "upload" /\ ~seen[v] /\ items[v] = {f}

\* A buried document is blocked everywhere the pipeline promises: no upload
\* stores a file of it, no manifest built later lists it and its row does not
\* leave purging or purged.  (A collector stores and lists it: see ingest.)
BuriedIsBlocked ==
  [][\A d \in (tombstones \cap tombstones') \ contended' :
       /\ \A f \in raw' \ raw : f[1] = d => \E w \in Worker :
            op[w] = "collect" /\ f \in items[w]
       /\ \A b \in Batch : \A f \in lines'[b] \ lines[b] : f[1] = d =>
            \E w \in Worker : op[w] = "collect" /\ f \in items[w]
       /\ state[d] = "purged" => state'[d] = "purged"
       /\ state'[d] \in {"purging", "purged"}]_vars

-----------------------------------------------------------------------------
(* What the documents and comments say and the code does not do.           *)

\* ARCHITECTURE.md, idempotent upload: documents is set to pending only for
\* newly stored content.  So an upload never reopens an ingested document.
UploadNeverReopens ==
  [][\A d \in Doc : state[d] = "ingested" /\ state'[d] = "pending" =>
       ~\E w \in Worker, f \in File :
          op[w] = "upload" /\ f[1] = d /\ InsertDocument(w, f)]_vars

\* artifact_cleanup.py: raw orphans are keys without a PG document.
OrphanHasNoRow ==
  \A w \in Worker : pc[w] = "delete" =>
    \A f \in todo[w] : state[f[1]] = "none"
=============================================================================
