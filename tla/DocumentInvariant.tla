-------------------------- MODULE DocumentInvariant --------------------------
(***************************************************************************)
(* The inductive invariant of DocumentLifecycle: what every operation may  *)
(* rely on at each of its labels, for the documents no conflicting         *)
(* operations met on.  PurgeLeavesNothing and its siblings are not         *)
(* inductive by themselves: why a buried document is empty lies in what    *)
(* purge has deleted so far, and why it stays empty in what ingest and     *)
(* GraphRAG know about the document they are in the middle of writing.     *)
(***************************************************************************)
EXTENDS DocumentLifecycle

\* Labels of purge_document after each of its deletions.
Unlinked   == {"del_parsed", "del_chunks", "del_letter", "del_raw", "del_rows",
               "bury", "mark_purged", "flag", "mark_stale"}
Unparsed   == Unlinked \ {"del_parsed"}
Unchunked  == Unparsed \ {"del_chunks"}
Unlettered == Unchunked \ {"del_letter"}
Rowless    == {"bury", "mark_purged", "flag", "mark_stale"}

\* Labels of ingest_item after the document row was written.
Inserted == {"parse", "paged", "chunk", "dead", "read", "store", "mark"}

\* The labels an operation can be at.
LabelsOf(o) ==
  CASE o \in IngestOps -> {"lookup"} \cup IngestLabels \cup CompensationLabels
    [] o \in PurgeOps  -> {"lookup"} \cup PurgeLabels \cup CompensationLabels
    [] o = "restore"   -> {"lookup", "unbury", "revive"}
    [] o = "reingest"  -> {"lookup", "revive"} \cup CompensationLabels
    [] o = "graphrag"  -> GraphLabels
    [] OTHER           -> {"idle"}

Control ==
  \A w \in Worker :
    /\ pc[w] \in LabelsOf(op[w])
    /\ op[w] = "none" => batch[w] = {} /\ held[w] = NoChunks

Exclusion ==
  \A v, w \in Worker : \A d \in Doc \ contended :
    v # w /\ d \in batch[v] /\ d \in batch[w] => Alike(op[v], op[w])

\* The stores, about a document that is not contended.
Content(d) ==
  /\ vertices[d] \subseteq rows[d]
  /\ embedded[d] \subseteq rows[d]
  /\ Erased(d) =>
       rows[d] = {} /\ artifact[d] = {} /\ d \notin parsed /\ d \notin letters
  /\ ingest_state[d] \in Indexed =>
       /\ d \notin tombstones
       /\ artifact[d] # {} /\ artifact[d] \subseteq rows[d]
       /\ embedded[d] = {} \/ artifact[d] \subseteq embedded[d]
  /\ ingest_state[d] = "dead_letter" => d \in letters

\* What a worker knows between two calls.
Compensating(w, d) == pc[w] \in {"clear", "unlink"} => rows[d] \subseteq held[w][d]

Purging(w, d) ==
  op[w] \in PurgeOps =>
    /\ pc[w] = "begin" => ingest_state[d] # "none"
    /\ pc[w] \notin {"lookup", "begin"} => ingest_state[d] \in {"purging", "purged"}
    /\ pc[w] \in Unlinked => vertices[d] = {}
    /\ pc[w] \in Unparsed => d \notin parsed
    /\ pc[w] \in Unchunked => artifact[d] = {}
    /\ pc[w] \in Unlettered => d \notin letters
    /\ pc[w] \in Rowless => rows[d] = {}

Ingesting(w, d) ==
  op[w] \in IngestOps =>
    /\ pc[w] \notin {"load", "gate"} => d \notin tombstones
    /\ pc[w] = "insert" => ingest_state[d] # "purged"
    /\ pc[w] \in Inserted => ingest_state[d] = "pending"
    /\ pc[w] = "dead" => d \in letters
    /\ pc[w] = "store" => held[w][d] = artifact[d] /\ artifact[d] # {}
    /\ pc[w] = "mark" => artifact[d] # {} /\ artifact[d] \subseteq embedded[d]

Graphing(w, d) ==
  op[w] = "graphrag" =>
    /\ held[w][d] # {} => ingest_state[d] \in Indexed
    /\ pc[w] = "merge" /\ d = Line(batch[w], held[w]) => ingest_state[d] \in Indexed
    /\ pc[w] \notin {"aggregate", "merge"} => ingest_state[d] \in Indexed
    /\ held[w][d] \subseteq rows[d]

Knowledge(w, d) ==
  Compensating(w, d) /\ Purging(w, d) /\ Ingesting(w, d) /\ Graphing(w, d)

CoreInv ==
  /\ TypeOK
  /\ Control
  /\ Exclusion
  /\ \A d \in Doc \ contended : Content(d)
  /\ \A w \in Worker : \A d \in batch[w] \ contended : Knowledge(w, d)

\* A reingest past its lookup read a state that only a purge, its conflict,
\* could have turned into "purged" since.
Waking ==
  \A w \in Worker : \A d \in batch[w] \ contended :
    op[w] = "reingest" /\ pc[w] # "lookup" => ingest_state[d] # "purged"

\* While no call failed and the project is not flagged, each purged document
\* has a purge that is about to flag it: whoever met whom.
AboutToFlag(w, d) ==
  d \in batch[w] /\ op[w] \in PurgeOps /\ pc[w] \in {"flag", "mark_stale"}

Flagging ==
  crashes = 0 /\ stale = {} =>
    \A d \in Doc : ingest_state[d] = "purged" =>
      \E w \in Worker : AboutToFlag(w, d)

IInv == CoreInv /\ Waking /\ Flagging

\* The same for IndexMirrorsArtifact, while documents are only ingested and put
\* in the graph.
OnlyIndexing ==
  /\ tombstones = {}
  /\ \A d \in Doc : ingest_state[d] \notin {"purging", "purged"}
  /\ \A w \in Worker : op[w] \in {"none", "ingest", "graphrag"}

\* Labels of an ingest that has cleared the embeddings, if there were any, and
\* is on its way to store new ones.
Reindexing == {"unlink", "upsert", "recheck", "insert", "parse", "paged",
               "chunk", "read", "store"}

Working(d, labels) == \E w \in Worker : d \in batch[w] /\ pc[w] \in labels

\* The embeddings are all or none of the artifact's; if none, an ingest is about
\* to store them, or parsing failed and the document is not indexed.
Mirrors(d) ==
  /\ artifact[d] \in outcomes[d] \cup {{}}
  /\ embedded[d] \in {{}, artifact[d]}
  /\ \/ embedded[d] = artifact[d] \/ Working(d, Reindexing)
     \/ {} \in outcomes[d] /\ ingest_state[d] \notin Indexed
  /\ Sequential(d) =>
       \/ embedded[d] = {} \/ ingest_state[d] \in Indexed
       \/ Working(d, {"mark"})

\* What an ingest carries to them.
Carrying(w, d) ==
  /\ pc[w] = "chunk" => held[w][d] \in outcomes[d]
  /\ pc[w] \in {"read", "store"} => artifact[d] # {}
  /\ pc[w] = "store" => held[w][d] = artifact[d]
  /\ Sequential(d) =>
       /\ pc[w] \in Reindexing \cup {"dead"} => embedded[d] = {}
       /\ pc[w] = "mark" => embedded[d] = artifact[d]

\* Of a document ingests raced on, only if parsing it always gives the same.
Mirrored(d) ==
  Sequential(d) \/ ParsedAlike(d) =>
    Mirrors(d) /\ \A w \in Worker : d \in batch[w] => Carrying(w, d)

MirrorInv == OnlyIndexing /\ (crashes = 0 => \A d \in Doc : Mirrored(d))
=============================================================================
