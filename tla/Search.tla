------------------------------- MODULE Search -------------------------------
(***************************************************************************)
(* knowledge_search beside what changes the index it reads: one search in  *)
(* one of its modes, query by query, each a transaction of its own, while  *)
(* writers purge, restore and ingest documents, several at a time and also *)
(* the same one, and GraphRAG runs write the mentions of chunks they read  *)
(* earlier.                                                                *)
(*                                                                         *)
(* What a query finds, and in which order, is a choice: any ranking of the *)
(* rows it may see, cut at its limit.  Entities, edges and wiki pages are  *)
(* not deleted by anything but the deletion of their project, so that they *)
(* are constants of which a query may find any.                            *)
(***************************************************************************)
EXTENDS Integers, Sequences, FiniteSets, SequencesExt

CONSTANTS
  Writer,        \* the pods and calls that purge, ingest and restore
  Document, Chunk,
  DocumentOf,    \* the document of a chunk
  Entity,
  Mentioned,     \* the entities a chunk's text mentions
  Relation,      \* ids "source->target" of the edges
  Page, Community,
  CommunityOf,   \* the community of a wiki page: a later run may give one
                 \* community a page under another title
  Modes,         \* "basic", "local", "global", "drift"
  TopK, ChannelLimit, RrfK,
  Scale,         \* what a score of 1 is worth, so that scores are integers
  Followups,     \* how many of the sub-queries are followed, drift_k_followups
  Depth          \* drift_max_depth

\* How many pages a drift search starts from, at most.
Primer == Min({3, TopK})

ASSUME ConstantsAssumption ==
  /\ DocumentOf \in [Chunk -> Document]
  /\ Mentioned \in [Chunk -> SUBSET Entity]
  /\ CommunityOf \in [Page -> Community]
  /\ Modes \subseteq {"basic", "local", "global", "drift"}
  /\ {TopK, ChannelLimit, Followups} \subseteq Nat \ {0}
  /\ RrfK \in Nat /\ Depth \in 1..2
  \* 1 / (k + rank) is a whole number of 1 / Scale, for every rank there is.
  /\ Scale \in Nat \ {0}
  /\ \A rank \in 1..Max({ChannelLimit, Primer}) : Scale % (RrfK + rank) = 0
  \* Hits of all kinds are fused by id: chunk ids are hashes of their own.
  /\ Chunk \cap (Entity \cup Relation \cup Page \cup Community) = {}

VARIABLES
  row,       \* chunks table: "none", "text", "embedded"
  tombstone, \* documents whose content has one
  purged,    \* documents in ingest_state purged
  vertices,  \* Chunk vertices with their MENTIONS
  writer,    \* what each writer still has to do, and to which document
  reading,   \* chunks whose mentions GraphRAG runs have still to write
  met,       \* history: purges under way that met an ingest about to write
  quiet,     \* history: documents in state purged whose purge met none
  mode,      \* of the search under way, or of the last one
  todo,      \* what the search has still to do
  lists,     \* rankings read since the last fusion
  parts,     \* rankings a local search fuses at its end
  edges,     \* relationship hits of a local search
  mentions,  \* chunk ids the graph named for the seeds
  answers,   \* rankings a drift search fuses, and at the end the answer
  fused,     \* the fusion just made: of, limit, hits
  since      \* history: quiet when the search began, and ever since

store   == <<row, tombstone, purged, vertices>>
writers == <<writer, met, quiet>>
search  == <<mode, todo, lists, parts, edges, mentions, answers, fused, since>>
vars    == <<store, writers, reading, search>>

Idle == [op |-> "none", doc |-> "none", todo |-> <<>>]
NoFusion == [of |-> <<>>, limit |-> 0, hits |-> <<>>]

ChunksOf(d) == {c \in Chunk : DocumentOf[c] = d}

\* Anything may be indexed when the first search begins.
Init ==
  /\ row \in [Chunk -> {"none", "text", "embedded"}]
  /\ purged \in SUBSET {d \in Document :
                        \A c \in ChunksOf(d) : row[c] = "none"}
  /\ tombstone = purged /\ quiet = purged
  /\ vertices = {c \in Chunk : row[c] # "none"}
  /\ writer = [w \in Writer |-> Idle] /\ met = {} /\ reading = {}
  /\ mode = "none" /\ todo = <<>>
  /\ lists = <<>> /\ parts = <<>> /\ edges = <<>> /\ mentions = {}
  /\ answers = <<>> /\ fused = NoFusion /\ since = {}

-----------------------------------------------------------------------------
(* Reciprocal rank fusion.                                                 *)

Listed(ls) == UNION {ToSet(ls[i]) : i \in DOMAIN ls}

First(list, x) == Min({i \in DOMAIN list : list[i] = x})

\* The sum of a sequence of numbers.
Total(f) ==
  LET sum[n \in Nat] == IF n = 0 THEN 0 ELSE sum[n - 1] + f[n]
  IN  sum[Len(f)]

\* A hit that a list names twice scores twice.
ListScore(list, x) ==
  Total([rank \in DOMAIN list |->
           IF list[rank] = x THEN Scale \div (RrfK + rank) ELSE 0])

Score(ls, x) == Total([i \in DOMAIN ls |-> ListScore(ls[i], x)])

\* The lists are read one after the other.
Home(ls, x) == Min({i \in DOMAIN ls : x \in ToSet(ls[i])})

MetFirst(ls, x, y) ==
  \/ Home(ls, x) < Home(ls, y)
  \/ /\ Home(ls, x) = Home(ls, y)
     /\ First(ls[Home(ls, x)], x) < First(ls[Home(ls, x)], y)

\* The better score, and of two equal ones the hit that was met first.
Before(ls, score, x, y) ==
  \/ score[x] > score[y]
  \/ score[x] = score[y] /\ MetFirst(ls, x, y)

\* The first n of what has a place, or all of it, in their order.
Best(place, n) ==
  LET m == Min({n, Cardinality(DOMAIN place)})
  IN  {s \in [1..m -> DOMAIN place] : \A i \in 1..m : place[s[i]] = i}

Place(ls) ==
  LET score == [x \in Listed(ls) |-> Score(ls, x)]
  IN  [x \in Listed(ls) |->
         1 + Cardinality({y \in Listed(ls) : Before(ls, score, y, x)})]

Fuse(ls, n) == Best(Place(ls), n)

-----------------------------------------------------------------------------
(* The writers and the GraphRAG runs.                                      *)

\* An ingest that has set the document to pending goes on to parse it and to
\* write its chunks, whatever becomes of the document meanwhile.
Indexing(w, d) ==
  /\ writer[w].todo # <<>> /\ Head(writer[w].todo) = "upsert"
  /\ writer[w].doc = d

\* What the writers do next, and which purges met such an ingest on the way.
Turn(w, work) ==
  /\ writer' = [writer EXCEPT ![w] = work]
  /\ met' = {v \in Writer : /\ writer'[v].op = "purge"
                            /\ \/ v \in met
                               \/ \E u \in Writer :
                                    Indexing(u, writer[v].doc)'}

\* No lock is taken on the document: others may be at work on it.
Begin(w, op, d, labels) ==
  /\ writer[w] = Idle
  /\ Turn(w, [op |-> op, doc |-> d, todo |-> labels])
  /\ UNCHANGED <<store, quiet, reading, search>>

\* What purge_document, an ingest (of an indexed document: compensation first),
\* a restore and a reingest do to what a search reads, and to what the others
\* look at, in their order; the whole of them is in DocumentLifecycle.
PurgeDocument(w, d) ==
  /\ d \notin purged
  /\ Begin(w, "purge", d, <<"purging", "embeddings", "vertices", "rows",
                           "tombstone", "purged">>)

IngestDocument(w, d) ==
  /\ d \notin tombstone
  /\ \/ Begin(w, "ingest", d, <<"embeddings", "vertices", "check", "recheck",
                               "pending", "upsert", "mark">>)
     \/ Begin(w, "ingest", d, <<"check", "recheck", "pending", "upsert",
                               "mark">>)

RestoreDocument(w, d) == Begin(w, "restore", d, <<"clear", "restore">>)

ReingestDocument(w, d) ==
  /\ d \notin purged
  /\ Begin(w, "reingest", d, <<"embeddings", "vertices", "restore">>)

\* The writer is done with the first of what it has to do.
WriterStep(w, label) ==
  /\ writer[w].todo # <<>> /\ Head(writer[w].todo) = label
  /\ Turn(w, IF Len(writer[w].todo) = 1 THEN Idle
             ELSE [writer[w] EXCEPT !.todo = Tail(@)])
  /\ UNCHANGED <<reading, mode, todo, lists, parts, edges, mentions, answers,
                 fused>>

ClearEmbeddings(w) ==
  /\ WriterStep(w, "embeddings")
  /\ row' = [c \in Chunk |->
               IF DocumentOf[c] = writer[w].doc /\ row[c] = "embedded"
               THEN "text" ELSE row[c]]
  /\ UNCHANGED <<tombstone, purged, vertices, quiet, since>>

DeleteVertices(w) ==
  /\ WriterStep(w, "vertices")
  /\ vertices' = vertices \ ChunksOf(writer[w].doc)
  /\ UNCHANGED <<row, tombstone, purged, quiet, since>>

DeleteRows(w) ==
  /\ WriterStep(w, "rows")
  /\ row' = [c \in Chunk |->
               IF DocumentOf[c] = writer[w].doc THEN "none" ELSE row[c]]
  /\ UNCHANGED <<tombstone, purged, vertices, quiet, since>>

InsertTombstone(w) ==
  /\ WriterStep(w, "tombstone")
  /\ tombstone' = tombstone \cup {writer[w].doc}
  /\ UNCHANGED <<row, purged, vertices, quiet, since>>

MarkPurged(w) ==
  /\ WriterStep(w, "purged")
  /\ purged' = purged \cup {writer[w].doc}
  /\ quiet' = quiet \cup (IF w \in met THEN {} ELSE {writer[w].doc})
  /\ UNCHANGED <<row, tombstone, vertices, since>>

\* Any other state is written whatever the state was: purging by a purge,
\* pending by an ingest, a restore and a reingest, indexed_rag when the rows are there.
SetIngestState(w) ==
  /\ \E label \in {"purging", "pending", "mark", "restore"} :
       WriterStep(w, label)
  /\ purged' = purged \ {writer[w].doc}
  /\ quiet' = quiet \ {writer[w].doc} /\ since' = since \ {writer[w].doc}
  /\ UNCHANGED <<row, tombstone, vertices>>

ClearTombstone(w) ==
  /\ WriterStep(w, "clear")
  /\ tombstone' = tombstone \ {writer[w].doc}
  /\ UNCHANGED <<row, purged, vertices, quiet, since>>

\* The two things upsert_document looks at before it writes, one after the
\* other; where it refuses, the ingest ends.
CheckTombstone(w) ==
  /\ WriterStep(w, "check")
  /\ writer[w].doc \notin tombstone
  /\ UNCHANGED <<store, quiet, since>>

RecheckPurged(w) ==
  /\ WriterStep(w, "recheck")
  /\ writer[w].doc \notin purged
  /\ UNCHANGED <<store, quiet, since>>

UpsertChunks(w) ==
  /\ WriterStep(w, "upsert")
  /\ row' = [c \in Chunk |->
               IF DocumentOf[c] = writer[w].doc THEN "embedded" ELSE row[c]]
  /\ UNCHANGED <<tombstone, purged, vertices, quiet, since>>

\* A pod may die between any two of them, and an ingest ends where it is
\* refused.
WriterEnds(w) ==
  /\ writer[w] # Idle
  /\ Turn(w, Idle)
  /\ UNCHANGED <<store, quiet, reading, search>>

\* A run copies the chunks of a batch, of whichever of its documents.
Aggregate ==
  /\ reading' = reading \cup
                {c \in Chunk : row[c] # "none" /\ Mentioned[c] # {}}
  /\ reading' # {}
  /\ UNCHANGED <<store, writers, search>>

\* It does not look whether the chunk is still there; another run may have
\* copied the chunk as well.
UpsertMentions(c) ==
  /\ c \in reading
  /\ reading' \in {reading, reading \ {c}}
  /\ vertices' = vertices \cup {c}
  /\ UNCHANGED <<row, tombstone, purged, writers, search>>

-----------------------------------------------------------------------------
(* The search.  Variants of a definition, each with a mistake the checks   *)
(* must notice, stand before it.                                           *)

Chunks == <<"chunks_fts", "chunks_vector">>
Local  == <<"entities_fts", "entities_vector", "seeds", "edges", "mentions",
            "chunks">> \o Chunks \o <<"part", "local">>
Global == <<"wiki_fts", "wiki_vector", "global">>
Drift  == Local \o (IF Depth > 1 THEN Append(Chunks, "basic") ELSE <<>>)

\* What is done for each follow-up, one after the other.
Followed(n) == [i \in 1..(n * Len(Drift)) |-> Drift[1 + ((i - 1) % Len(Drift))]]

Program(m, followups) ==
  CASE m = "basic"  -> Append(Chunks, "basic")
    [] m = "local"  -> Local
    [] m = "global" -> Global
    [] m = "drift"  -> Global \o Followed(followups) \o <<"drift">>

\* What the searches inside a drift search are asked for.
Asked == IF mode = "drift" THEN ChannelLimit ELSE TopK

\* A search asked for "auto" is given one of the modes by its words.
KnowledgeSearch(m, followups) ==
  /\ todo = <<>>
  /\ mode' = m
  /\ todo' = Program(m, followups)
  /\ since' = quiet
  /\ lists' = <<>> /\ parts' = <<>> /\ edges' = <<>> /\ mentions' = {}
  /\ answers' = <<>> /\ fused' = NoFusion
  /\ UNCHANGED <<store, writers, reading>>

Step(label) ==
  /\ todo # <<>> /\ Head(todo) = label
  /\ todo' = Tail(todo)
  /\ UNCHANGED <<store, writers, reading, mode, since>>

\* Every ranking of some of S, at most limit of them.
Ranked(S, limit) ==
  {s \in UNION {[1..n -> S] : n \in 0..limit} : IsInjective(s)}

Query(label, S) ==
  /\ Step(label)
  /\ \E ranked \in Ranked(S, ChannelLimit) : lists' = Append(lists, ranked)
  /\ fused' = NoFusion
  /\ UNCHANGED <<parts, edges, mentions, answers>>

SearchFts      == Query("chunks_fts", {c \in Chunk : row[c] # "none"})
SearchVector   == Query("chunks_vector", {c \in Chunk : row[c] = "embedded"})
SearchEntities == Query("entities_fts", Entity)
SearchEntitiesVector == Query("entities_vector", Entity)
SearchWiki     == Query("wiki_fts", Page)
SearchWikiVector == Query("wiki_vector", Page)

\* The first three edges at the seeds: two edges of different types between
\* the same entities have one id.
ExpandNeighborhood ==
  /\ Step("edges")
  /\ edges' \in IF parts[1] = <<>> THEN {<<>>}
                ELSE UNION {[1..n -> Relation] : n \in 0..3}
  /\ fused' = NoFusion
  /\ UNCHANGED <<lists, parts, mentions, answers>>

\* A MATCH that fails is answered by nothing.
GetChunksForEntities ==
  /\ Step("mentions")
  /\ mentions' \in {{}, {c \in vertices :
                          Mentioned[c] \cap ToSet(parts[1]) # {}}}
  /\ fused' = NoFusion
  /\ UNCHANGED <<lists, parts, edges, answers>>

TakeChunks(S) ==
  /\ Step("chunks")
  /\ \E ranked \in Ranked(S, ChannelLimit) :
       /\ Len(ranked) = Min({ChannelLimit, Cardinality(S)})
       /\ parts' = Append(parts, ranked)
  /\ mentions' = {} /\ fused' = NoFusion
  /\ UNCHANGED <<lists, edges, answers>>

\* The graph's word is taken for it.
GetChunksOfTheGraph == TakeChunks(mentions)

\* In no order the query gives them.
GetChunksByIds == TakeChunks({c \in mentions : row[c] # "none"})

\* The rankings of a pair of channels, or of all parts, become one.
Fusion(label, of, limit) ==
  /\ Step(label)
  /\ \E hits \in Fuse(of, limit) :
       fused' = [of |-> of, limit |-> limit, hits |-> hits]

FuseSeeds ==
  /\ Fusion("seeds", lists, Min({ChannelLimit, Asked}))
  /\ lists' = <<>> /\ parts' = <<fused'.hits>>
  /\ UNCHANGED <<edges, mentions, answers>>

FusePart ==
  /\ Fusion("part", lists, ChannelLimit)
  /\ lists' = <<>> /\ parts' = Append(parts, fused'.hits)
  /\ UNCHANGED <<edges, mentions, answers>>

FuseBasic ==
  /\ Fusion("basic", lists, Asked)
  /\ lists' = <<>> /\ answers' = Append(answers, fused'.hits)
  /\ UNCHANGED <<parts, edges, mentions>>

\* A page is known by its community.
WikiHits(pages) == [i \in DOMAIN pages |-> CommunityOf[pages[i]]]

FuseGlobal ==
  /\ Fusion("global", lists, IF mode = "drift" THEN Primer ELSE TopK)
  /\ lists' = <<>>
  /\ answers' = Append(answers, WikiHits(fused'.hits))
  /\ UNCHANGED <<parts, edges, mentions>>

\* The edges in the order they were first met, each once.
NewEdges(hits) ==
  LET new == ToSet(edges) \ ToSet(hits)
  IN  [e \in new |->
         Cardinality({f \in new : First(edges, f) <= First(edges, e)})]

\* Appended without a look at how many hits there are.
AppendEveryEdge(hits, limit) ==
  {hits \o s : s \in Best(NewEdges(hits), Len(edges))}

\* The edges fill what is left of the answer.
AppendEdges(hits, limit) ==
  {hits \o s : s \in Best(NewEdges(hits), limit - Len(hits))}

FuseLocal ==
  /\ Step("local")
  /\ \E hits \in Fuse(parts, Asked) : \E all \in AppendEdges(hits, Asked) :
       fused' = [of |-> parts, limit |-> Asked, hits |-> all]
  /\ answers' = Append(answers, fused'.hits)
  /\ parts' = <<>> /\ edges' = <<>>
  /\ UNCHANGED <<lists, mentions>>

FuseDrift ==
  /\ Fusion("drift", answers, TopK)
  /\ answers' = <<fused'.hits>>
  /\ UNCHANGED <<lists, parts, edges, mentions>>

\* A database, the graph or the embedding service does not answer: the search
\* raises, whatever it has found.
Raise ==
  /\ todo # <<>>
  /\ todo' = <<>>
  /\ lists' = <<>> /\ parts' = <<>> /\ edges' = <<>> /\ mentions' = {}
  /\ answers' = <<>> /\ fused' = NoFusion
  /\ UNCHANGED <<store, writers, reading, mode, since>>

Next ==
  \/ \E w \in Writer, d \in Document :
       \/ PurgeDocument(w, d) \/ IngestDocument(w, d)
       \/ RestoreDocument(w, d) \/ ReingestDocument(w, d)
  \/ \E w \in Writer :
       \/ ClearEmbeddings(w) \/ DeleteVertices(w) \/ DeleteRows(w)
       \/ InsertTombstone(w) \/ MarkPurged(w)
       \/ ClearTombstone(w) \/ SetIngestState(w)
       \/ CheckTombstone(w) \/ RecheckPurged(w)
       \/ UpsertChunks(w) \/ WriterEnds(w)
  \/ Aggregate \/ \E c \in Chunk : UpsertMentions(c)
  \/ \E m \in Modes, n \in 1..Followups : KnowledgeSearch(m, n)
  \/ SearchFts \/ SearchVector \/ SearchEntities \/ SearchEntitiesVector
  \/ SearchWiki \/ SearchWikiVector
  \/ ExpandNeighborhood \/ GetChunksForEntities \/ GetChunksByIds
  \/ FuseSeeds \/ FusePart \/ FuseBasic \/ FuseGlobal \/ FuseLocal \/ FuseDrift
  \/ Raise

Spec == Init /\ [][Next]_vars

-----------------------------------------------------------------------------
\* A search that began after a document was marked purged names none of its
\* chunks for as long as the document is, whatever other purges, ingests and
\* restores of it do and also where a GraphRAG run that had read its chunks
\* before goes on writing their mentions: a chunk the graph names counts only
\* with its row.  Not claimed of a document whose purge met an ingest between
\* upsert_document and upsert_chunks: nothing stops that ingest from writing
\* the rows of the purged document.
NoBuriedHit ==
  \A c \in Chunk \cap (Listed(lists) \cup Listed(parts) \cup Listed(answers)) :
    DocumentOf[c] \notin since

Above(list, x, y) ==
  \E i \in DOMAIN list : list[i] = x /\ \A j \in 1..i : list[j] # y

Once(list, y) == Cardinality({i \in DOMAIN list : list[i] = y}) <= 1

\* A fusion fills what is asked for as far as what it fuses goes, never exceeds
\* it, and names no hit twice.
FusedToMeasure ==
  /\ IsInjective(fused.hits)
  /\ Len(fused.hits) <= fused.limit
  /\ Len(fused.hits) >= Min({fused.limit, Cardinality(Listed(fused.of))})

\* Nothing stands before, or in place of, what was above it in every ranking
\* that had it.  Only a community with two pages, named twice by one ranking,
\* may outdo a better one.
Fair(of, hits) ==
  \A x \in Listed(of) : \A y \in ToSet(hits) \ {x} :
    \/ Above(hits, x, y)
    \/ \E i \in DOMAIN of : /\ y \in ToSet(of[i])
                            /\ ~Above(of[i], x, y) \/ ~Once(of[i], y)

\* A fusion does no hit wrong, an edge never displaces a hit, and what is asked
\* for is met.
FusedFairly == FusedToMeasure /\ Fair(fused.of, fused.hits)
=============================================================================
