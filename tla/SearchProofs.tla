----------------------------- MODULE SearchProofs -----------------------------
(***************************************************************************)
(* What Search promises about purged documents, proved for all writers,    *)
(* documents, chunks, entities, edges and pages, whatever the limits of a  *)
(* search and however many follow-ups a drift search has.  That a search   *)
(* names no chunk of a document quietly purged before it began rests on    *)
(* three things: a purge that met no ingest about to write leaves no rows  *)
(* (Calm), a document it purged gets none for as long as it is in state    *)
(* purged, since an ingest writes another state before it writes rows      *)
(* (Gone), and a hit gets into a ranking by its row only (Found).          *)
(***************************************************************************)
EXTENDS Search, FiniteSetTheorems, SequenceTheorems, WellFoundedInduction,
        TLAPS

-----------------------------------------------------------------------------
(* The inductive invariant.                                                *)

\* What a search may name: anything but a chunk of a document that was
\* quietly purged when it began and still is.
Id == Chunk \cup Entity \cup Relation \cup Page \cup Community
Lasting == {x \in Id : x \in Chunk => DocumentOf[x] \notin since}

\* What writers do.
Tasks == {"purging", "embeddings", "vertices", "rows", "tombstone", "purged",
          "check", "recheck", "pending", "upsert", "mark", "clear", "restore"}
Work == [op : {"none", "purge", "ingest", "restore", "reingest"},
         doc : Document \cup {"none"}, todo : Seq(Tasks)]

\* What a search does.
LabelsLocal == {"entities_fts", "entities_vector", "seeds", "edges", "mentions",
                "chunks", "chunks_fts", "chunks_vector", "part", "local",
                "basic"}
Labels == LabelsLocal \cup {"wiki_fts", "wiki_vector", "global", "drift"}

StoreTyped ==
  /\ row \in [Chunk -> {"none", "text", "embedded"}]
  /\ purged \subseteq Document
  /\ quiet \subseteq purged /\ since \subseteq quiet
  /\ vertices \subseteq Chunk /\ mentions \subseteq Chunk
  /\ todo \in Seq(Labels)

\* A quietly purged document has no rows.
Gone == \A c \in Chunk : DocumentOf[c] \in quiet => row[c] = "none"

\* Chunks are written when the state has been, a tombstone when the rows are
\* deleted, and the state purged when the tombstone is there, by a purge.
InOrder(work) ==
  \A i \in DOMAIN work.todo :
    /\ work.todo[i] = "purged" => work.op = "purge"
    /\ i > 1 =>
         /\ work.todo[i] = "upsert" => work.todo[i - 1] = "pending"
         /\ work.todo[i] = "tombstone" => work.todo[i - 1] = "rows"
         /\ work.todo[i] = "purged" => work.todo[i - 1] = "tombstone"

\* A piece of work that a writer may have before it.
Sound(work) ==
  /\ work \in Work
  /\ work.todo # <<>> => work.doc \in Document
  /\ InOrder(work)

Working == writer \in [Writer -> Work] /\ \A w \in Writer : Sound(writer[w])

\* A purge that has deleted the rows and met no ingest about to write.
Cleared(w) ==
  /\ writer[w].op = "purge" /\ w \notin met
  /\ writer[w].todo # <<>> /\ Head(writer[w].todo) \in {"tombstone", "purged"}

NoRows(d) == \A c \in Chunk : DocumentOf[c] = d => row[c] = "none"

\* No ingest is about to write the chunks of a quietly purged document, or of
\* one whose purge has met none; such a purge leaves no rows.
Calm ==
  /\ \A w \in Writer : \A d \in quiet : ~Indexing(w, d)
  /\ \A w \in Writer \ met : writer[w].op = "purge" =>
       \A u \in Writer : ~Indexing(u, writer[w].doc)
  /\ \A w \in Writer : Cleared(w) => NoRows(writer[w].doc)

\* Every ranking a search holds names what may be named.
Found ==
  /\ lists \in Seq(Seq(Lasting)) /\ parts \in Seq(Seq(Lasting))
  /\ answers \in Seq(Seq(Lasting)) /\ edges \in Seq(Relation)

\* Where pages are fused, only pages have been read: before the fusion come
\* the queries for pages and nothing else.
PagesFirst ==
  \A i \in DOMAIN todo : todo[i] = "global" =>
    /\ lists \in Seq(Seq(Page))
    /\ \A j \in 1..(i - 1) : todo[j] \in {"wiki_fts", "wiki_vector"}

IInv == StoreTyped /\ Gone /\ Working /\ Calm /\ Found /\ PagesFirst

-----------------------------------------------------------------------------
(* Rankings.                                                               *)

LEMMA ListedIn ==
  ASSUME NEW S, NEW ls \in Seq(Seq(S))
  PROVE  /\ Listed(ls) \subseteq S
         /\ \A i \in DOMAIN ls : ToSet(ls[i]) \subseteq Listed(ls)
  BY DEF Listed, ToSet

\* A sequence has finitely many members.
LEMMA MembersFinite ==
  ASSUME NEW S, NEW s \in Seq(S)
  PROVE  IsFiniteSet(ToSet(s))
<1>1. s \in Surjection(1..Len(s), ToSet(s))
  BY DEF Surjection, ToSet
<1>2. IsFiniteSet(1..Len(s))
  BY FS_Interval
<1> QED BY <1>1, <1>2, FS_Surjection

LEMMA ListedFinite ==
  ASSUME NEW S, NEW ls \in Seq(Seq(S))
  PROVE  IsFiniteSet(Listed(ls))
<1> DEFINE f == [i \in DOMAIN ls |-> ToSet(ls[i])]
           T == {ToSet(ls[i]) : i \in DOMAIN ls}
<1>1. f \in Surjection(DOMAIN ls, T) /\ DOMAIN ls = 1..Len(ls)
  <2>1. f \in [DOMAIN ls -> T] /\ \A t \in T : \E i \in DOMAIN ls : f[i] = t
    BY Zenon
  <2> QED BY <2>1 DEF Surjection
<1>2. IsFiniteSet(T)
  BY <1>1, FS_Surjection, FS_Interval
<1>3. \A A \in T : IsFiniteSet(A)
  BY MembersFinite
<1> QED BY <1>2, <1>3, FS_UNION DEF Listed

\* The lesser of two.
LEMMA MinOf ==
  ASSUME NEW m \in Nat, NEW n \in Nat
  PROVE  Min({m, n}) \in Nat /\ Min({m, n}) <= m /\ Min({m, n}) <= n
<1>1. \E x \in {m, n} : \A y \in {m, n} : x <= y
  BY SMT
<1> QED BY <1>1 DEF Min

LEMMA BestIs ==
  ASSUME NEW place, IsFiniteSet(DOMAIN place), NEW n \in Nat,
         NEW s \in Best(place, n)
  PROVE  /\ s \in Seq(DOMAIN place) /\ Len(s) <= n /\ IsInjective(s)
         /\ Len(s) = Min({n, Cardinality(DOMAIN place)})
<1> DEFINE m == Min({n, Cardinality(DOMAIN place)})
<1>1. m \in Nat /\ m <= n
  BY MinOf, FS_CardinalityType
<1>2. s \in [1..m -> DOMAIN place]
  BY DEF Best
<1>3. IsInjective(s)
  BY <1>2 DEF Best, IsInjective
<1> HIDE DEF m
<1>4. s \in Seq(DOMAIN place) /\ Len(s) <= n /\ Len(s) = m
  BY <1>1, <1>2
<1> QED BY <1>3, <1>4 DEF m

\* A fusion names what a ranking named, and no more than was asked for.
LEMMA FuseIs ==
  ASSUME NEW S, NEW ls \in Seq(Seq(S)), NEW n \in Nat, NEW s \in Fuse(ls, n)
  PROVE  /\ s \in Seq(S) /\ Len(s) <= n /\ IsInjective(s)
         /\ Len(s) = Min({n, Cardinality(Listed(ls))})
<1>1. PICK place : DOMAIN place = Listed(ls) /\ s \in Best(place, n)
  BY DEF Fuse, Place
<1>2. /\ s \in Seq(Listed(ls)) /\ Len(s) <= n /\ IsInjective(s)
      /\ Len(s) = Min({n, Cardinality(Listed(ls))})
  BY <1>1, BestIs, ListedFinite
<1> QED BY <1>2, ListedIn

\* What fills up an answer are edges.
LEMMA AppendEdgesIs ==
  ASSUME NEW S, Relation \subseteq S, edges \in Seq(Relation),
         NEW hits \in Seq(S), NEW n \in Nat, Len(hits) <= n,
         NEW s \in AppendEdges(hits, n)
  PROVE  /\ s \in Seq(S) /\ Len(s) <= n /\ Len(s) >= Len(hits)
         /\ IsInjective(hits) => IsInjective(s)
<1>1. PICK t \in Best(NewEdges(hits), n - Len(hits)) : s = hits \o t
  BY DEF AppendEdges
<1>2. DOMAIN NewEdges(hits) \subseteq ToSet(edges) /\ ToSet(edges) \subseteq S
  BY DEF NewEdges, ToSet
<1>3. IsFiniteSet(DOMAIN NewEdges(hits))
  BY <1>2, MembersFinite, FS_Subset
<1>4. /\ t \in Seq(DOMAIN NewEdges(hits)) /\ Len(t) <= n - Len(hits)
      /\ IsInjective(t) /\ t \in Seq(S)
  <2>1. n - Len(hits) \in Nat
    OBVIOUS
  <2>2. /\ t \in Seq(DOMAIN NewEdges(hits)) /\ Len(t) <= n - Len(hits)
        /\ IsInjective(t)
    BY <1>1, <1>3, <2>1, BestIs
  <2> QED BY <1>2, <2>2
<1>5. /\ s \in Seq(S) /\ Len(s) = Len(hits) + Len(t)
      /\ \A i \in DOMAIN s : s[i] = IF i <= Len(hits) THEN hits[i]
                                    ELSE t[i - Len(hits)]
  BY <1>1, <1>4
<1>6. \A i \in DOMAIN t, j \in DOMAIN hits : t[i] # hits[j]
  BY <1>4 DEF NewEdges, ToSet
<1>7. ASSUME IsInjective(hits) PROVE IsInjective(s)
  <2> SUFFICES ASSUME NEW i \in DOMAIN s, NEW j \in DOMAIN s, s[i] = s[j]
               PROVE  i = j
    BY DEF IsInjective
  <2>1. /\ i \in Nat \ {0} /\ j \in Nat \ {0}
        /\ i <= Len(hits) => i \in DOMAIN hits
        /\ j <= Len(hits) => j \in DOMAIN hits
        /\ i > Len(hits) => i - Len(hits) \in DOMAIN t
        /\ j > Len(hits) => j - Len(hits) \in DOMAIN t
    BY <1>4, <1>5
  <2>2. CASE i <= Len(hits) /\ j <= Len(hits)
    BY <1>5, <1>7, <2>1, <2>2 DEF IsInjective
  <2>3. CASE i > Len(hits) /\ j > Len(hits)
    <3>1. t[i - Len(hits)] = t[j - Len(hits)]
      BY <1>5, <2>1, <2>3
    <3>2. i - Len(hits) = j - Len(hits)
      BY <1>4, <2>1, <2>3, <3>1 DEF IsInjective
    <3> QED BY <2>1, <3>2
  <2>4. CASE (i <= Len(hits)) # (j <= Len(hits))
    BY <1>5, <1>6, <2>1, <2>4
  <2> QED BY <2>1, <2>2, <2>3, <2>4
<1> QED BY <1>4, <1>5, <1>7

LEMMA RankedIs ==
  ASSUME NEW S, NEW n \in Nat, NEW s \in Ranked(S, n)
  PROVE  s \in Seq(S)
  BY DEF Ranked

\* The limits of a search are numbers.
LEMMA Limits ==
  /\ TopK \in Nat /\ ChannelLimit \in Nat /\ Asked \in Nat
  /\ Primer \in Nat /\ Min({ChannelLimit, Asked}) \in Nat
<1>1. TopK \in Nat /\ ChannelLimit \in Nat /\ Asked \in Nat
  BY ConstantsAssumption DEF Asked
<1> QED BY <1>1, MinOf DEF Primer

\* Only chunks are ever purged, and what has a row is not, quietly.
LEMMA LastingHolds ==
  ASSUME StoreTyped, Gone
  PROVE  /\ Entity \subseteq Lasting /\ Relation \subseteq Lasting
         /\ Page \subseteq Lasting /\ Community \subseteq Lasting
         /\ {c \in Chunk : row[c] # "none"} \subseteq Lasting
  BY ConstantsAssumption DEF StoreTyped, Gone, Lasting, Id

-----------------------------------------------------------------------------
(* What the writers and the GraphRAG runs do.                              *)

\* What may be named when documents come back may be named still.
LEMMA LastingGrows ==
  ASSUME since' \subseteq since
  PROVE  \A ls \in Seq(Seq(Lasting)) : ls \in Seq(Seq(Lasting'))
<1>1. Lasting \subseteq Lasting'
  BY DEF Lasting
<1>2. Seq(Lasting) \subseteq Seq(Lasting')
  BY <1>1
<1> QED BY <1>2

LEMMA StoreKeeps ==
  ASSUME IInv, row' \in [Chunk -> {"none", "text", "embedded"}],
         purged' \subseteq Document, quiet' \subseteq purged',
         since' \subseteq since \cap quiet',
         vertices' \subseteq Chunk, Gone', Working', Calm',
         UNCHANGED <<todo, lists, parts, edges, mentions, answers>>
  PROVE  IInv'
<1>1. StoreTyped'
  BY DEF IInv, StoreTyped
<1>2. Found'
  <2>1. \A ls \in Seq(Seq(Lasting)) : ls \in Seq(Seq(Lasting'))
    BY LastingGrows
  <2> QED BY <2>1 DEF IInv, Found
<1>3. PagesFirst'
  BY DEF IInv, PagesFirst
<1> QED BY <1>1, <1>2, <1>3 DEF IInv

\* A writer's turn leaves the others to their work, and no purge that met an
\* ingest about to write passes for one that met none.
LEMMA TurnIs ==
  ASSUME IInv, NEW w \in Writer, NEW work, Sound(work), Turn(w, work)
  PROVE  /\ Working' /\ writer'[w] = work
         /\ \A v \in Writer \ {w} : writer'[v] = writer[v]
         /\ \A v \in Writer : writer'[v].op = "purge" /\ v \notin met' =>
              /\ v \notin met
              /\ \A u \in Writer : ~Indexing(u, writer[v].doc)'
<1>1. writer' = [writer EXCEPT ![w] = work] /\ work \in Work
  BY DEF Turn, Sound
<1>2. writer \in [Writer -> Work] /\ \A v \in Writer : Sound(writer[v])
  BY DEF IInv, Working
<1>3. /\ writer' \in [Writer -> Work] /\ writer'[w] = work
      /\ \A v \in Writer \ {w} : writer'[v] = writer[v]
  BY <1>1, <1>2
<1>4. Working'
  <2>1. ASSUME NEW v \in Writer PROVE Sound(writer'[v])
    BY <1>2, <1>3
  <2> QED BY <1>3, <2>1, Zenon DEF Working, Sound, InOrder
<1>5. met' = {v \in Writer : /\ writer'[v].op = "purge"
                            /\ \/ v \in met
                               \/ \E u \in Writer :
                                    Indexing(u, writer[v].doc)'}
  BY DEF Turn
<1>6. \A v \in Writer : writer'[v].op = "purge" /\ v \notin met' =>
        /\ v \notin met
        /\ \A u \in Writer : ~Indexing(u, writer[v].doc)'
  BY <1>5
<1> QED BY <1>3, <1>4, <1>6

\* A turn that purges no document and clears the rows before a tombstone keeps
\* the calm.
LEMMA TurnCalm ==
  ASSUME IInv, NEW w \in Writer, NEW work, Sound(work), Turn(w, work),
         quiet' \subseteq quiet,
         \A c \in Chunk : row[c] = "none" /\ row'[c] # "none" =>
                           Indexing(w, DocumentOf[c]),
         work.todo # <<>> /\ Head(work.todo) = "upsert" =>
           work.doc \notin quiet',
         work.op = "purge" /\ w \notin met' /\ work.todo # <<>>
           /\ Head(work.todo) \in {"tombstone", "purged"} =>
             \A c \in Chunk : DocumentOf[c] = work.doc => row'[c] = "none"
  PROVE  Working' /\ Gone' /\ Calm'
<1>1. /\ Working' /\ writer'[w] = work
      /\ \A v \in Writer \ {w} : writer'[v] = writer[v]
      /\ \A v \in Writer : writer'[v].op = "purge" /\ v \notin met' =>
           /\ v \notin met
           /\ \A u \in Writer : ~Indexing(u, writer[v].doc)'
  BY TurnIs
<1>2. /\ \A v \in Writer : \A d \in quiet : ~Indexing(v, d)
      /\ \A v \in Writer \ met : writer[v].op = "purge" =>
           \A u \in Writer : ~Indexing(u, writer[v].doc)
      /\ \A v \in Writer : Cleared(v) => NoRows(writer[v].doc)
  BY DEF IInv, Calm
<1>3. Gone'
  BY <1>2 DEF IInv, Gone
<1>4. ASSUME NEW v \in Writer, NEW d \in quiet' PROVE ~Indexing(v, d)'
  BY <1>1, <1>2 DEF Indexing
<1>5. ASSUME NEW v \in Writer, Cleared(v)' PROVE NoRows(writer[v].doc)'
  <2>1. CASE v = w
    BY <1>1, <1>5, <2>1 DEF Cleared, NoRows
  <2>2. CASE v # w
    <3>1. writer'[v] = writer[v] /\ v \notin met /\ writer[v].op = "purge"
      BY <1>1, <1>5, <2>2 DEF Cleared
    <3>2. Cleared(v)
      BY <1>5, <3>1 DEF Cleared
    <3>3. NoRows(writer[v].doc) /\ ~Indexing(w, writer[v].doc)
      BY <1>2, <3>1, <3>2
    <3> QED BY <3>1, <3>3 DEF NoRows
  <2> QED BY <2>1, <2>2
<1>6. ASSUME NEW v \in Writer, v \notin met', writer'[v].op = "purge",
             NEW u \in Writer
      PROVE  ~Indexing(u, writer[v].doc)'
  BY <1>1, <1>6
<1>7. Calm'
  BY <1>4, <1>5, <1>6 DEF Calm
<1> QED BY <1>1, <1>3, <1>7

LEMMA IdleIsSound ==
  /\ Sound(Idle) /\ Idle.todo = <<>> /\ Idle.op = "none"
<1>1. <<>> \in Seq(Tasks) /\ DOMAIN <<>> = {}
  OBVIOUS
<1> QED BY <1>1 DEF Sound, InOrder, Idle, Work

LEMMA BeginKeeps ==
  ASSUME IInv, NEW w \in Writer, NEW d \in Document,
         \/ PurgeDocument(w, d) \/ IngestDocument(w, d)
         \/ RestoreDocument(w, d) \/ ReingestDocument(w, d)
  PROVE  IInv'
<1> DEFINE purge    == <<"purging", "embeddings", "vertices", "rows",
                         "tombstone", "purged">>
           again    == <<"embeddings", "vertices", "check", "recheck",
                         "pending", "upsert", "mark">>
           ingest   == <<"check", "recheck", "pending", "upsert", "mark">>
           restore  == <<"clear", "restore">>
           reingest == <<"embeddings", "vertices", "restore">>
           work(op, labels) == [op |-> op, doc |-> d, todo |-> labels]
<1>1. /\ Sound(work("purge", purge)) /\ Sound(work("ingest", again))
      /\ Sound(work("ingest", ingest)) /\ Sound(work("restore", restore))
      /\ Sound(work("reingest", reingest))
  <2>1. Sound(work("purge", purge))
    BY DEF Sound, InOrder, Work, Tasks
  <2>2. Sound(work("ingest", again)) /\ Sound(work("ingest", ingest))
    BY DEF Sound, InOrder, Work, Tasks
  <2>3. Sound(work("restore", restore)) /\ Sound(work("reingest", reingest))
    BY DEF Sound, InOrder, Work, Tasks
  <2> QED BY <2>1, <2>2, <2>3
<1>2. PICK op, labels :
        /\ Begin(w, op, d, labels) /\ Sound(work(op, labels))
        /\ Head(labels) \in {"purging", "embeddings", "check", "clear"}
  <2>1. /\ Head(purge) = "purging" /\ Head(again) = "embeddings"
        /\ Head(ingest) = "check" /\ Head(restore) = "clear"
        /\ Head(reingest) = "embeddings"
    OBVIOUS
  <2> QED
    BY <1>1, <2>1
    DEF PurgeDocument, IngestDocument, RestoreDocument, ReingestDocument
<1>3. Turn(w, work(op, labels)) /\ UNCHANGED <<store, quiet, reading, search>>
  BY <1>2 DEF Begin
<1>4. work(op, labels).todo = labels
  OBVIOUS
<1> HIDE DEF work
<1>5. Working' /\ Gone' /\ Calm'
  BY <1>2, <1>3, <1>4, TurnCalm DEF store
<1> QED
  BY <1>3, <1>5, StoreKeeps DEF store, search, IInv, StoreTyped

LEMMA TailIs ==
  ASSUME NEW S, NEW t \in Seq(S), t # <<>>, Len(t) # 1
  PROVE  /\ \A i \in DOMAIN Tail(t) :
              /\ i + 1 \in DOMAIN t /\ i + 1 > 1 /\ (i + 1) - 1 = i
              /\ Tail(t)[i] = t[i + 1]
              /\ i > 1 => Tail(t)[i - 1] = t[i]
         /\ Tail(t) \in Seq(S) /\ Tail(t) # <<>> /\ Head(Tail(t)) = t[2]
         /\ 2 \in DOMAIN t /\ Head(t) = t[1]
<1>1. Len(t) \in Nat /\ Len(t) > 1 /\ DOMAIN t = 1..Len(t)
  <2>1. Len(t) \in Nat \ {0} /\ DOMAIN t = 1..Len(t)
    BY EmptySeq, LenProperties
  <2> QED BY <2>1
<1>2. /\ Tail(t) \in Seq(S) /\ Len(Tail(t)) = Len(t) - 1
      /\ DOMAIN Tail(t) = 1..Len(Tail(t))
      /\ \A i \in 1..Len(Tail(t)) : Tail(t)[i] = t[i + 1]
  BY <1>1
<1>3. Tail(t) # <<>> /\ Head(Tail(t)) = t[2] /\ Head(t) = t[1]
  <2>1. 1 \in 1..Len(Tail(t)) /\ Tail(t)[1] = t[1 + 1]
    BY <1>1, <1>2
  <2> DEFINE u == Tail(t)
  <2>2. u \in Seq(S) /\ Len(u) # 0
    BY <1>1, <1>2
  <2>3. u # <<>> /\ Head(u) = u[1] /\ Head(t) = t[1]
    <3> HIDE DEF u
    <3>1. Len(<<>>) = 0
      BY EmptySeq
    <3>2. \A s \in Seq(S) : Head(s) = s[1]
      OBVIOUS
    <3> QED BY <2>2, <3>1, <3>2
  <2> QED BY <2>1, <2>2, <2>3
<1>4. ASSUME NEW i \in DOMAIN Tail(t), i > 1 PROVE Tail(t)[i - 1] = t[i]
  <2>1. i - 1 \in 1..Len(Tail(t)) /\ (i - 1) + 1 = i
    BY <1>1, <1>2, <1>4
  <2> QED BY <1>2, <2>1
<1> QED BY <1>1, <1>2, <1>3, <1>4

\* What is left after the first of what is left.
LEMMA WorkLeft ==
  ASSUME IInv, NEW w \in Writer, NEW label, WriterStep(w, label)
  PROVE  \E left :
           /\ Sound(left) /\ Turn(w, left)
           /\ left.todo # <<>> =>
                /\ left.doc = writer[w].doc /\ left.op = writer[w].op
                /\ Head(left.todo) = "upsert" => label = "pending"
                /\ Head(left.todo) = "tombstone" => label = "rows"
                /\ Head(left.todo) = "purged" => label = "tombstone"
<1> DEFINE x == writer[w]
<1>1. /\ x \in Work /\ Sound(x) /\ x.todo # <<>> /\ Head(x.todo) = label
      /\ Turn(w, IF Len(x.todo) = 1 THEN Idle ELSE [x EXCEPT !.todo = Tail(@)])
  BY DEF WriterStep, IInv, Working
<1>2. CASE Len(x.todo) = 1
  BY <1>1, <1>2, IdleIsSound
<1>3. CASE Len(x.todo) # 1
  <2> DEFINE left == [x EXCEPT !.todo = Tail(@)]
  <2>1. x.todo \in Seq(Tasks) /\ x.doc \in Document /\ InOrder(x)
    BY <1>1 DEF Work, Sound
  <2>2. /\ \A i \in DOMAIN Tail(x.todo) :
             /\ i + 1 \in DOMAIN x.todo /\ i + 1 > 1 /\ (i + 1) - 1 = i
             /\ Tail(x.todo)[i] = x.todo[i + 1]
             /\ i > 1 => Tail(x.todo)[i - 1] = x.todo[i]
        /\ Tail(x.todo) \in Seq(Tasks) /\ Tail(x.todo) # <<>>
        /\ Head(Tail(x.todo)) = x.todo[2]
        /\ 2 \in DOMAIN x.todo /\ x.todo[1] = label
    BY <1>1, <1>3, <2>1, TailIs
  <2>3. /\ left.op = x.op /\ left.doc = x.doc /\ left.todo = Tail(x.todo)
        /\ left \in Work
    BY <1>1, <2>2 DEF Work
  <2>4. Turn(w, left)
    BY <1>1, <1>3
  <2> HIDE DEF left, x
  <2>5. InOrder(left)
    <3> SUFFICES ASSUME NEW i \in DOMAIN left.todo
                 PROVE  /\ left.todo[i] = "purged" => left.op = "purge"
                        /\ i > 1 =>
                             /\ left.todo[i] = "upsert" =>
                                  left.todo[i - 1] = "pending"
                             /\ left.todo[i] = "tombstone" =>
                                  left.todo[i - 1] = "rows"
                             /\ left.todo[i] = "purged" =>
                                  left.todo[i - 1] = "tombstone"
      BY DEF InOrder
    <3>1. /\ i + 1 \in DOMAIN x.todo /\ i + 1 > 1 /\ (i + 1) - 1 = i
          /\ left.todo[i] = x.todo[i + 1]
          /\ i > 1 => left.todo[i - 1] = x.todo[i]
      BY <2>2, <2>3
    <3>2. /\ x.todo[i + 1] = "purged" => x.op = "purge"
          /\ x.todo[i + 1] = "upsert" => x.todo[i] = "pending"
          /\ x.todo[i + 1] = "tombstone" => x.todo[i] = "rows"
          /\ x.todo[i + 1] = "purged" => x.todo[i] = "tombstone"
      BY <2>1, <3>1 DEF InOrder
    <3> QED BY <2>3, <3>1, <3>2
  <2>6. /\ x.todo[2] = "upsert" => label = "pending"
        /\ x.todo[2] = "tombstone" => label = "rows"
        /\ x.todo[2] = "purged" => label = "tombstone"
    <3>1. 2 \in DOMAIN x.todo /\ x.todo[1] = label /\ 2 > 1 /\ 2 - 1 = 1
      BY <2>2
    <3>2. /\ x.todo[2] = "upsert" => x.todo[2 - 1] = "pending"
          /\ x.todo[2] = "tombstone" => x.todo[2 - 1] = "rows"
          /\ x.todo[2] = "purged" => x.todo[2 - 1] = "tombstone"
      BY <2>1, <3>1, Zenon DEF InOrder
    <3> QED BY <3>1, <3>2
  <2>7. Sound(left)
    BY <2>1, <2>3, <2>5 DEF Sound
  <2>8. /\ left.doc = writer[w].doc /\ left.op = writer[w].op
        /\ Head(left.todo) = x.todo[2]
    BY <2>2, <2>3 DEF x
  <2> QED BY <2>4, <2>6, <2>7, <2>8
<1> QED BY <1>2, <1>3

\* The document at hand, and what a step that marks nothing purged keeps.
LEMMA StepKeeps ==
  ASSUME IInv, NEW w \in Writer, NEW label, WriterStep(w, label),
         quiet' \subseteq quiet, label = "pending" => writer[w].doc \notin quiet',
         \A c \in Chunk : row[c] = "none" /\ row'[c] # "none" =>
                           Indexing(w, DocumentOf[c]),
         label = "rows" =>
           \A c \in Chunk : DocumentOf[c] = writer[w].doc => row'[c] = "none",
         row' \in [Chunk -> {"none", "text", "embedded"}],
         purged' \subseteq Document, quiet' \subseteq purged',
         since' \subseteq since \cap quiet', vertices' \subseteq Chunk
  PROVE  IInv'
<1>1. PICK left :
        /\ Sound(left) /\ Turn(w, left)
        /\ left.todo # <<>> =>
             /\ left.doc = writer[w].doc /\ left.op = writer[w].op
             /\ Head(left.todo) = "upsert" => label = "pending"
             /\ Head(left.todo) = "tombstone" => label = "rows"
             /\ Head(left.todo) = "purged" => label = "tombstone"
  BY WorkLeft
<1>2. ASSUME left.op = "purge", w \notin met', left.todo # <<>>,
             Head(left.todo) \in {"tombstone", "purged"},
             NEW c \in Chunk, DocumentOf[c] = left.doc
      PROVE  row'[c] = "none"
  <2>1. CASE label = "rows"
    BY <1>1, <1>2, <2>1
  <2>2. CASE label = "tombstone"
    <3>1. w \notin met /\ writer'[w] = left
      BY <1>1, <1>2, TurnIs
    <3>2. Cleared(w)
      BY <1>1, <1>2, <2>2, <3>1 DEF Cleared, WriterStep
    <3>3. row[c] = "none" /\ ~Indexing(w, DocumentOf[c])
      BY <1>1, <1>2, <2>2, <3>2 DEF IInv, Calm, NoRows, Indexing, WriterStep
    <3> QED BY <3>3
  <2> QED BY <1>1, <1>2, <2>1, <2>2
<1>3. Working' /\ Gone' /\ Calm'
  BY <1>1, <1>2, TurnCalm
<1>4. UNCHANGED <<todo, lists, parts, edges, mentions, answers>>
  BY DEF WriterStep
<1> QED BY <1>3, <1>4, StoreKeeps

\* The steps that write no chunks and mark nothing purged.
LEMMA ClearingKeeps ==
  ASSUME IInv, NEW w \in Writer,
         \/ ClearEmbeddings(w) \/ DeleteVertices(w) \/ DeleteRows(w)
         \/ InsertTombstone(w) \/ ClearTombstone(w)
         \/ CheckTombstone(w) \/ RecheckPurged(w)
  PROVE  IInv'
<1>1. PICK label \in {"embeddings", "vertices", "rows", "tombstone", "clear",
                      "check", "recheck"} :
        /\ WriterStep(w, label)
        /\ label = "rows" =>
             \A c \in Chunk : DocumentOf[c] = writer[w].doc => row'[c] = "none"
  <2>1. CASE DeleteRows(w)
    BY <2>1 DEF DeleteRows
  <2>2. CASE ~DeleteRows(w)
    BY <2>2
    DEF ClearEmbeddings, DeleteVertices, InsertTombstone, ClearTombstone,
        CheckTombstone, RecheckPurged
  <2> QED BY <2>1, <2>2
<1>2. /\ row' \in [Chunk -> {"none", "text", "embedded"}]
      /\ \A c \in Chunk : row[c] = "none" => row'[c] = "none"
      /\ vertices' \subseteq Chunk /\ UNCHANGED <<purged, quiet, since>>
  BY DEF ClearEmbeddings, DeleteVertices, DeleteRows, InsertTombstone,
         ClearTombstone, CheckTombstone, RecheckPurged, store, IInv, StoreTyped
<1> QED BY <1>1, <1>2, StepKeeps DEF IInv, StoreTyped

\* Whatever state but purged is written, the document is purged no longer.
LEMMA StateKeeps ==
  ASSUME IInv, NEW w \in Writer, SetIngestState(w)
  PROVE  IInv'
<1>1. PICK label \in {"purging", "pending", "mark", "restore"} :
        WriterStep(w, label)
  BY DEF SetIngestState
<1>2. /\ purged' = purged \ {writer[w].doc} /\ quiet' = quiet \ {writer[w].doc}
      /\ since' = since \ {writer[w].doc} /\ UNCHANGED <<row, vertices>>
  BY DEF SetIngestState
<1> QED BY <1>1, <1>2, StepKeeps DEF IInv, StoreTyped

\* Chunks are written of a document that is not quietly purged.
LEMMA UpsertKeeps ==
  ASSUME IInv, NEW w \in Writer, UpsertChunks(w)
  PROVE  IInv'
<1>1. /\ WriterStep(w, "upsert")
      /\ row' = [c \in Chunk |-> IF DocumentOf[c] = writer[w].doc
                                 THEN "embedded" ELSE row[c]]
      /\ UNCHANGED <<purged, vertices, quiet, since>>
  BY DEF UpsertChunks
<1>2. Indexing(w, writer[w].doc)
  BY <1>1 DEF WriterStep, Indexing
<1> QED BY <1>1, <1>2, StepKeeps DEF IInv, StoreTyped

\* A document is quietly purged when its purge met no ingest about to write:
\* its rows are gone then, and none is to come.
LEMMA MarkKeeps ==
  ASSUME IInv, NEW w \in Writer, MarkPurged(w)
  PROVE  IInv'
<1> DEFINE d == writer[w].doc
<1>1. /\ WriterStep(w, "purged") /\ purged' = purged \cup {d}
      /\ quiet' = quiet \cup (IF w \in met THEN {} ELSE {d})
      /\ UNCHANGED <<row, vertices, since>>
  BY DEF MarkPurged
<1>2. /\ writer[w].todo # <<>> /\ Head(writer[w].todo) = "purged"
      /\ UNCHANGED <<todo, lists, parts, edges, mentions, answers>>
  BY <1>1 DEF WriterStep
<1>3. Sound(writer[w])
  BY DEF IInv, Working
<1>4. d \in Document /\ writer[w].op = "purge"
  <2>1. 1 \in DOMAIN writer[w].todo /\ writer[w].todo[1] = "purged"
    BY <1>2, <1>3 DEF Sound, Work
  <2> QED BY <1>2, <1>3, <2>1 DEF Sound, InOrder
<1>5. PICK left :
        /\ Sound(left) /\ Turn(w, left)
        /\ left.todo # <<>> =>
             Head(left.todo) \notin {"upsert", "tombstone", "purged"}
  BY <1>1, WorkLeft
<1>6. /\ Working' /\ writer'[w] = left
      /\ \A v \in Writer \ {w} : writer'[v] = writer[v]
      /\ \A v \in Writer : writer'[v].op = "purge" /\ v \notin met' =>
           /\ v \notin met
           /\ \A u \in Writer : ~Indexing(u, writer[v].doc)'
  BY <1>5, TurnIs
<1>7. ASSUME w \notin met
      PROVE  NoRows(d) /\ \A u \in Writer : ~Indexing(u, d)
  <2>1. Cleared(w)
    BY <1>2, <1>4, <1>7 DEF Cleared
  <2> QED BY <1>4, <1>7, <2>1 DEF IInv, Calm
<1>8. Gone'
  BY <1>1, <1>7 DEF IInv, Gone, NoRows
<1>9. Calm'
  <2>1. ASSUME NEW v \in Writer, NEW e \in quiet' PROVE ~Indexing(v, e)'
    <3>1. CASE v = w
      BY <1>5, <1>6, <3>1 DEF Indexing
    <3>2. CASE v # w
      <4>1. ~Indexing(v, e)
        BY <1>1, <1>7, <2>1 DEF IInv, Calm
      <4> QED BY <1>6, <3>2, <4>1 DEF Indexing
    <3> QED BY <3>1, <3>2
  <2>2. ASSUME NEW v \in Writer, Cleared(v)' PROVE NoRows(writer[v].doc)'
    <3>1. v # w
      BY <1>5, <1>6, <2>2 DEF Cleared
    <3>2. writer'[v] = writer[v] /\ v \notin met
      BY <1>6, <2>2, <3>1 DEF Cleared
    <3>3. Cleared(v)
      BY <2>2, <3>2 DEF Cleared
    <3>4. NoRows(writer[v].doc)
      BY <3>3 DEF IInv, Calm
    <3> QED BY <1>1, <3>2, <3>4 DEF NoRows
  <2>3. ASSUME NEW v \in Writer, v \notin met', writer'[v].op = "purge",
               NEW u \in Writer
        PROVE  ~Indexing(u, writer[v].doc)'
    BY <1>6, <2>3
  <2> QED BY <2>1, <2>2, <2>3 DEF Calm
<1> HIDE DEF d
<1> QED
  BY <1>1, <1>2, <1>4, <1>6, <1>8, <1>9, StoreKeeps DEF IInv, StoreTyped

LEMMA EndKeeps ==
  ASSUME IInv, NEW w \in Writer, WriterEnds(w)
  PROVE  IInv'
<1>1. Turn(w, Idle) /\ UNCHANGED <<store, quiet, reading, search>>
  BY DEF WriterEnds
<1>2. Working' /\ Gone' /\ Calm'
  BY <1>1, IdleIsSound, TurnCalm DEF store
<1> QED BY <1>1, <1>2, StoreKeeps DEF store, search, IInv, StoreTyped

\* The GraphRAG runs' mentions of a purged document's chunks stay in the graph.
LEMMA BesideKeeps ==
  ASSUME IInv, Aggregate \/ \E c \in Chunk : UpsertMentions(c)
  PROVE  IInv'
<1>1. /\ vertices' \subseteq Chunk
      /\ UNCHANGED <<row, purged, writer, met, quiet, search>>
  BY DEF Aggregate, UpsertMentions, store, writers, IInv, StoreTyped
<1>2. Working' /\ Gone' /\ Calm'
  BY <1>1
  DEF IInv, Working, Gone, Calm, Cleared, NoRows, Indexing
<1> QED BY <1>1, <1>2, StoreKeeps DEF search, IInv, StoreTyped

-----------------------------------------------------------------------------
(* What a search does.                                                     *)

LEMMA SearchKeeps ==
  ASSUME IInv, UNCHANGED <<store, writers, since>>, todo' \in Seq(Labels),
         mentions' \subseteq Chunk, PagesFirst',
         lists' \in Seq(Seq(Lasting)), parts' \in Seq(Seq(Lasting)),
         answers' \in Seq(Seq(Lasting)), edges' \in Seq(Relation)
  PROVE  IInv'
<1>1. Lasting' = Lasting
  BY DEF Lasting
<1>2. StoreTyped' /\ Gone' /\ Working' /\ Calm'
  BY DEF IInv, StoreTyped, Gone, Working, Calm, Cleared, NoRows, Indexing,
         store, writers
<1> QED BY <1>1, <1>2 DEF IInv, Found

\* A step that does not read pages comes after their fusion, or is it.
LEMMA StepPages ==
  ASSUME IInv, NEW label, Step(label)
  PROVE  /\ todo' \in Seq(Labels) /\ UNCHANGED <<store, writers, since>>
         /\ label \notin {"wiki_fts", "wiki_vector"} => PagesFirst'
         /\ (lists \in Seq(Seq(Page)) => lists' \in Seq(Seq(Page))) =>
              PagesFirst'
<1>1. /\ todo \in Seq(Labels) /\ todo # <<>> /\ todo[1] = label
      /\ todo' = Tail(todo) /\ UNCHANGED <<store, writers, since>>
  BY DEF Step, IInv, StoreTyped
<1>2. /\ todo' \in Seq(Labels)
      /\ \A i \in DOMAIN todo' : /\ i + 1 \in DOMAIN todo /\ i \in Nat \ {0}
                               /\ todo'[i] = todo[i + 1]
  BY <1>1
<1>3. ASSUME NEW i \in DOMAIN todo', todo'[i] = "global"
      PROVE  /\ lists \in Seq(Seq(Page))
             /\ label \in {"wiki_fts", "wiki_vector"}
             /\ \A j \in 1..(i - 1) : todo'[j] \in {"wiki_fts", "wiki_vector"}
  <2>1. /\ lists \in Seq(Seq(Page))
        /\ \A j \in 1..i : todo[j] \in {"wiki_fts", "wiki_vector"}
    BY <1>2, <1>3 DEF IInv, PagesFirst
  <2> QED BY <1>1, <1>2, <1>3, <2>1
<1> QED BY <1>1, <1>2, <1>3 DEF PagesFirst

LEMMA QueryKeeps ==
  ASSUME IInv, NEW label, NEW S, S \subseteq Lasting, Query(label, S),
         label \in {"wiki_fts", "wiki_vector"} => S = Page
  PROVE  IInv'
<1>1. PICK ranked \in Ranked(S, ChannelLimit) : lists' = Append(lists, ranked)
  BY DEF Query
<1>2. ranked \in Seq(S) /\ ranked \in Seq(Lasting)
  BY RankedIs, Limits
<1>3. /\ Step(label) /\ UNCHANGED <<parts, edges, mentions, answers>>
  BY DEF Query
<1>4. lists' \in Seq(Seq(Lasting))
  BY <1>1, <1>2 DEF IInv, Found
<1>5. PagesFirst'
  <2>1. CASE label \in {"wiki_fts", "wiki_vector"} /\ lists \in Seq(Seq(Page))
    BY <1>1, <1>2, <1>3, <2>1, StepPages
  <2> QED BY <1>3, <2>1, StepPages
<1> QED
  BY <1>3, <1>4, <1>5, SearchKeeps, StepPages DEF IInv, Found, StoreTyped

\* Every query finds what may be named: the rows of chunks are those of
\* documents that are not quietly purged.
LEMMA QueriesKeep ==
  ASSUME IInv,
         \/ SearchFts \/ SearchVector \/ SearchEntities
         \/ SearchEntitiesVector \/ SearchWiki \/ SearchWikiVector
  PROVE  IInv'
<1>1. /\ Entity \subseteq Lasting /\ Page \subseteq Lasting
      /\ {c \in Chunk : row[c] # "none"} \subseteq Lasting
  BY LastingHolds DEF IInv
<1>2. {c \in Chunk : row[c] = "embedded"} \subseteq Lasting
  BY <1>1
<1>3. CASE SearchFts
  BY <1>1, <1>3, QueryKeeps DEF SearchFts
<1>4. CASE SearchVector
  BY <1>2, <1>4, QueryKeeps DEF SearchVector
<1>5. CASE SearchEntities
  BY <1>1, <1>5, QueryKeeps DEF SearchEntities
<1>6. CASE SearchEntitiesVector
  BY <1>1, <1>6, QueryKeeps DEF SearchEntitiesVector
<1>7. CASE SearchWiki
  BY <1>1, <1>7, QueryKeeps DEF SearchWiki
<1>8. CASE SearchWikiVector
  BY <1>1, <1>8, QueryKeeps DEF SearchWikiVector
<1> QED BY <1>3, <1>4, <1>5, <1>6, <1>7, <1>8

\* The graph may name chunks of purged documents; the rows decide.
LEMMA GraphStepsKeep ==
  ASSUME IInv, ExpandNeighborhood \/ GetChunksForEntities \/ GetChunksByIds
  PROVE  IInv'
<1>1. PICK label \in {"edges", "mentions", "chunks"} : Step(label)
  BY DEF ExpandNeighborhood, GetChunksForEntities, GetChunksByIds, TakeChunks
<1>2. /\ todo' \in Seq(Labels) /\ PagesFirst'
      /\ UNCHANGED <<store, writers, since>>
  BY <1>1, StepPages
<1>3. CASE ExpandNeighborhood
  <2>1. edges' \in Seq(Relation)
    <3>1. \A n \in 0..3 : \A e \in [1..n -> Relation] : e \in Seq(Relation)
      OBVIOUS
    <3>2. edges' = <<>> \/ \E n \in 0..3 : edges' \in [1..n -> Relation]
      BY <1>3 DEF ExpandNeighborhood
    <3>3. <<>> \in Seq(Relation)
      OBVIOUS
    <3> QED BY <3>1, <3>2, <3>3
  <2> QED
    BY <1>2, <1>3, <2>1, SearchKeeps
    DEF ExpandNeighborhood, IInv, Found, StoreTyped
<1>4. CASE GetChunksForEntities
  BY <1>2, <1>4, SearchKeeps DEF GetChunksForEntities, IInv, Found, StoreTyped
<1>5. CASE GetChunksByIds
  <2> DEFINE S == {c \in mentions : row[c] # "none"}
  <2>1. S \subseteq Lasting
    BY LastingHolds DEF IInv, StoreTyped
  <2>2. PICK ranked \in Ranked(S, ChannelLimit) : parts' = Append(parts, ranked)
    BY <1>5 DEF GetChunksByIds, TakeChunks
  <2>3. ranked \in Seq(Lasting)
    <3> HIDE DEF S
    <3>1. ranked \in Seq(S)
      BY <2>2, RankedIs, Limits
    <3> QED BY <2>1, <3>1
  <2>4. parts' \in Seq(Seq(Lasting))
    BY <2>2, <2>3 DEF IInv, Found
  <2> QED
    BY <1>2, <1>5, <2>4, SearchKeeps
    DEF GetChunksByIds, TakeChunks, IInv, Found, StoreTyped
<1> QED BY <1>3, <1>4, <1>5

\* Only what a ranking named is named by their fusion.
LEMMA FusionIs ==
  ASSUME IInv, NEW label, NEW of \in Seq(Seq(Lasting)), NEW n \in Nat,
         label \notin {"wiki_fts", "wiki_vector"}, Fusion(label, of, n)
  PROVE  /\ fused'.hits \in Seq(Lasting)
         /\ of \in Seq(Seq(Page)) => fused'.hits \in Seq(Page)
         /\ todo' \in Seq(Labels) /\ PagesFirst'
         /\ UNCHANGED <<store, writers, since>>
<1>1. PICK hits \in Fuse(of, n) :
        fused' = [of |-> of, limit |-> n, hits |-> hits]
  BY DEF Fusion
<1>2. fused'.hits \in Fuse(of, n)
  BY <1>1
<1>3. Step(label)
  BY DEF Fusion
<1> QED BY <1>2, <1>3, FuseIs, StepPages

LEMMA FusionsKeep ==
  ASSUME IInv, FuseSeeds \/ FusePart \/ FuseBasic \/ FuseDrift
  PROVE  IInv'
<1>1. /\ lists \in Seq(Seq(Lasting)) /\ parts \in Seq(Seq(Lasting))
      /\ answers \in Seq(Seq(Lasting)) /\ edges \in Seq(Relation)
      /\ mentions \subseteq Chunk /\ <<>> \in Seq(Seq(Lasting))
  BY DEF IInv, Found, StoreTyped
<1>2. \A h \in Seq(Lasting) : /\ <<h>> \in Seq(Seq(Lasting))
                             /\ Append(parts, h) \in Seq(Seq(Lasting))
                             /\ Append(answers, h) \in Seq(Seq(Lasting))
  BY <1>1
<1>3. CASE FuseSeeds
  BY <1>1, <1>2, <1>3, FusionIs, Limits, SearchKeeps DEF FuseSeeds
<1>4. CASE FusePart
  BY <1>1, <1>2, <1>4, FusionIs, Limits, SearchKeeps DEF FusePart
<1>5. CASE FuseBasic
  BY <1>1, <1>2, <1>5, FusionIs, Limits, SearchKeeps DEF FuseBasic
<1>6. CASE FuseDrift
  BY <1>1, <1>2, <1>6, FusionIs, Limits, SearchKeeps DEF FuseDrift
<1> QED BY <1>3, <1>4, <1>5, <1>6

\* The pages found become their communities.
LEMMA FuseGlobalKeeps ==
  ASSUME IInv, FuseGlobal
  PROVE  IInv'
<1> DEFINE n == IF mode = "drift" THEN Primer ELSE TopK
<1>1. Fusion("global", lists, n) /\ n \in Nat
  BY Limits DEF FuseGlobal
<1>2. lists \in Seq(Seq(Page))
  BY <1>1 DEF Fusion, Step, IInv, StoreTyped, PagesFirst
<1>3. /\ fused'.hits \in Seq(Page) /\ todo' \in Seq(Labels) /\ PagesFirst'
      /\ UNCHANGED <<store, writers, since>>
  <2> HIDE DEF n
  <2> QED BY <1>1, <1>2, FusionIs DEF IInv, Found
<1>4. WikiHits(fused'.hits) \in Seq(Community)
  <2>1. \A h \in Seq(Page) : WikiHits(h) \in Seq(Community)
    <3>1. CommunityOf \in [Page -> Community]
      BY ConstantsAssumption
    <3> QED BY <3>1 DEF WikiHits
  <2> QED BY <1>3, <2>1
<1>5. WikiHits(fused'.hits) \in Seq(Lasting)
  BY <1>4, LastingHolds DEF IInv
<1>6. /\ answers' = Append(answers, WikiHits(fused'.hits)) /\ lists' = <<>>
      /\ UNCHANGED <<parts, edges, mentions>>
  BY DEF FuseGlobal
<1>7. answers' \in Seq(Seq(Lasting))
  BY <1>5, <1>6 DEF IInv, Found
<1> QED BY <1>3, <1>6, <1>7, SearchKeeps DEF IInv, Found, StoreTyped

LEMMA FuseLocalKeeps ==
  ASSUME IInv, FuseLocal
  PROVE  IInv'
<1>1. PICK hits \in Fuse(parts, Asked) : \E all \in AppendEdges(hits, Asked) :
        fused' = [of |-> parts, limit |-> Asked, hits |-> all]
  BY DEF FuseLocal
<1>2. fused'.hits \in AppendEdges(hits, Asked)
  BY <1>1
<1>3. hits \in Seq(Lasting) /\ Len(hits) <= Asked
  BY <1>1, FuseIs, Limits DEF IInv, Found
<1>4. fused'.hits \in Seq(Lasting)
  BY <1>2, <1>3, AppendEdgesIs, LastingHolds, Limits DEF IInv, Found
<1>5. /\ Step("local") /\ answers' = Append(answers, fused'.hits)
      /\ parts' = <<>> /\ edges' = <<>> /\ UNCHANGED <<lists, mentions>>
  BY DEF FuseLocal
<1>6. answers' \in Seq(Seq(Lasting))
  BY <1>4, <1>5 DEF IInv, Found
<1>7. /\ todo' \in Seq(Labels) /\ PagesFirst'
      /\ UNCHANGED <<store, writers, since>>
  BY <1>5, StepPages
<1> QED BY <1>5, <1>6, <1>7, SearchKeeps DEF IInv, Found, StoreTyped

\* What a search will do, label by label: the pages of the drift search's
\* primer are fused before anything else.
LEMMA DriftIs ==
  /\ Local \in Seq(LabelsLocal) /\ Append(Chunks, "basic") \in Seq(LabelsLocal)
  /\ Drift \in Seq(LabelsLocal) /\ Len(Drift) \in Nat \ {0}
<1>1. /\ Chunks \in Seq(LabelsLocal) /\ <<"part", "local">> \in Seq(LabelsLocal)
      /\ <<"entities_fts", "entities_vector", "seeds", "edges", "mentions",
           "chunks">> \in Seq(LabelsLocal)
  BY DEF Chunks, LabelsLocal
<1>2. /\ Append(Chunks, "basic") \in Seq(LabelsLocal)
      /\ <<>> \in Seq(LabelsLocal)
  BY <1>1 DEF LabelsLocal
<1>3. Local \in Seq(LabelsLocal) /\ Len(Local) > 0
  BY <1>1 DEF Local
<1> QED BY <1>2, <1>3 DEF Drift

LEMMA FollowedIs ==
  ASSUME NEW n \in Nat
  PROVE  Followed(n) \in Seq(LabelsLocal)
<1> DEFINE L == Len(Drift)
<1>1. Drift \in Seq(LabelsLocal) /\ L \in Nat \ {0}
  BY DriftIs
<1>2. n * L \in Nat
  BY <1>1
<1>3. ASSUME NEW i \in 1..(n * L)
      PROVE  1 + ((i - 1) % L) \in 1..L
  <2> HIDE DEF L
  <2>1. i - 1 \in Int
    BY <1>2, <1>3
  <2>2. (i - 1) % L \in 0..(L - 1)
    BY <1>1, <2>1
  <2>3. PICK x \in 0..(L - 1) : x = (i - 1) % L
    BY <2>2
  <2>4. 1 + x \in 1..L
    BY <1>1
  <2> QED BY <2>3, <2>4
<1>4. \A i \in 1..(n * L) : Drift[1 + ((i - 1) % L)] \in LabelsLocal
  BY <1>1, <1>3
<1> QED BY <1>2, <1>4 DEF Followed

LEMMA ProgramIs ==
  ASSUME NEW m \in Modes, NEW n \in Nat
  PROVE  /\ Program(m, n) \in Seq(Labels)
         /\ \A i \in DOMAIN Program(m, n) :
              Program(m, n)[i] = "global" =>
                \A j \in 1..(i - 1) :
                  Program(m, n)[j] \in {"wiki_fts", "wiki_vector"}
<1>1. \A s \in Seq(LabelsLocal) :
        s \in Seq(Labels) /\ \A i \in DOMAIN s : s[i] # "global"
  <2>1. LabelsLocal \subseteq Labels /\ "global" \notin LabelsLocal
    BY DEF LabelsLocal, Labels
  <2> QED BY <2>1
<1>2. CASE m \in {"basic", "local"}
  <2>1. Program(m, n) \in Seq(LabelsLocal)
    BY <1>2, DriftIs DEF Program
  <2> DEFINE P == Program(m, n)
  <2>2. P \in Seq(Labels) /\ \A i \in DOMAIN P : P[i] # "global"
    BY <1>1, <2>1
  <2> QED BY <2>2
<1>3. CASE m = "global"
  <2>1. Program(m, n) = <<"wiki_fts", "wiki_vector", "global">>
    BY <1>3 DEF Program, Global
  <2> DEFINE P == <<"wiki_fts", "wiki_vector", "global">>
  <2>2. P \in Seq(Labels) /\ DOMAIN P = 1..3
    BY DEF Labels
  <2>3. P[1] = "wiki_fts" /\ P[2] = "wiki_vector"
    OBVIOUS
  <2> QED BY <2>1, <2>2, <2>3
<1>4. CASE m = "drift"
  <2> DEFINE F == Followed(n)
  <2>1. F \in Seq(Labels) /\ \A i \in DOMAIN F : F[i] # "global"
    BY <1>1, FollowedIs
  <2>2. Program(m, n) = Global \o F \o <<"drift">>
    BY <1>4 DEF Program
  <2> HIDE DEF F
  <2>3. Global = <<"wiki_fts", "wiki_vector", "global">>
    BY DEF Global
  <2> DEFINE P == Program(m, n)
  <2>4. P \in Seq(Labels)
    <3>1. /\ <<"wiki_fts", "wiki_vector", "global">> \in Seq(Labels)
          /\ <<"drift">> \in Seq(Labels)
      BY DEF Labels
    <3> QED BY <2>1, <2>2, <2>3, <3>1
  <2>5. P[1] = "wiki_fts" /\ P[2] = "wiki_vector"
    BY <2>1, <2>2, <2>3
  <2>6. \A i \in DOMAIN P : i > 3 => P[i] # "global"
    BY <2>1, <2>2, <2>3
  <2> QED BY <2>4, <2>5, <2>6
<1> QED BY <1>2, <1>3, <1>4, ConstantsAssumption

\* A search begins with nothing found.
LEMMA BeginningKeeps ==
  ASSUME IInv, NEW m \in Modes, NEW n \in 1..Followups, KnowledgeSearch(m, n)
  PROVE  IInv'
<1>1. /\ todo' = Program(m, n) /\ since' = quiet /\ UNCHANGED <<store, writers>>
      /\ lists' = <<>> /\ parts' = <<>> /\ edges' = <<>> /\ mentions' = {}
      /\ answers' = <<>>
  BY DEF KnowledgeSearch
<1>2. n \in Nat
  BY ConstantsAssumption
<1>3. todo' \in Seq(Labels) /\ PagesFirst'
  <2>1. lists' \in Seq(Seq(Page))
    BY <1>1
  <2>2. /\ todo' \in Seq(Labels)
        /\ \A i \in DOMAIN todo' : todo'[i] = "global" =>
             \A j \in 1..(i - 1) : todo'[j] \in {"wiki_fts", "wiki_vector"}
    BY <1>1, <1>2, ProgramIs, Zenon
  <2> QED BY <2>1, <2>2 DEF PagesFirst
<1>4. StoreTyped' /\ Gone' /\ Working' /\ Calm'
  BY <1>1, <1>3
  DEF IInv, StoreTyped, Gone, Working, Calm, Cleared, NoRows, Indexing, store,
      writers
<1>5. Found'
  BY <1>1 DEF Found
<1> QED BY <1>3, <1>4, <1>5 DEF IInv

LEMMA RaiseKeeps ==
  ASSUME IInv, Raise
  PROVE  IInv'
<1>1. PagesFirst' /\ todo' \in Seq(Labels)
  BY DEF Raise, PagesFirst
<1>2. /\ UNCHANGED <<store, writers, since>>
      /\ lists' = <<>> /\ parts' = <<>> /\ edges' = <<>> /\ mentions' = {}
      /\ answers' = <<>>
  BY DEF Raise
<1>3. <<>> \in Seq(Seq(Lasting)) /\ <<>> \in Seq(Relation)
  OBVIOUS
<1> QED BY <1>1, <1>2, <1>3, SearchKeeps

-----------------------------------------------------------------------------
(* The whole.                                                              *)

LEMMA InitIs ==
  ASSUME Init
  PROVE  IInv
<1>1. Working /\ Calm
  <2>1. /\ writer \in [Writer -> Work]
        /\ \A w \in Writer : writer[w] = Idle /\ Sound(writer[w])
    BY IdleIsSound DEF Init, Sound
  <2> QED
    BY <2>1, IdleIsSound DEF Working, Calm, Cleared, Indexing
<1>2. StoreTyped /\ Gone /\ Found /\ PagesFirst
  BY DEF Init, StoreTyped, Gone, Found, PagesFirst, ChunksOf
<1> QED BY <1>1, <1>2 DEF IInv

LEMMA NextKeeps ==
  ASSUME IInv, [Next]_vars
  PROVE  IInv'
<1>1. CASE Next
  BY <1>1, BeginKeeps, ClearingKeeps, StateKeeps, MarkKeeps, UpsertKeeps,
     EndKeeps, BesideKeeps, BeginningKeeps, QueriesKeep, GraphStepsKeep, FusionsKeep,
     FuseGlobalKeeps, FuseLocalKeeps, RaiseKeeps
  DEF Next
<1>2. CASE UNCHANGED vars
  BY <1>2, StoreKeeps
  DEF vars, store, writers, search, IInv, StoreTyped, Gone, Working, Calm,
      Cleared, NoRows, Indexing
<1> QED BY <1>1, <1>2

\* A document in state purged whose purge met no ingest about to write has no
\* rows, and what a search holds never names a chunk of one that was so when it
\* began and is in state purged still, however many writers are at work on it.
THEOREM Invariance == Spec => []IInv
<1>1. Init => IInv
  BY InitIs
<1>2. IInv /\ [Next]_vars => IInv'
  BY NextKeeps
<1> QED BY <1>1, <1>2, PTL DEF Spec

\* NoBuriedHit: retrieval (unified.py, modes/local.py, modes/drift.py) takes the
\* graph's word for which chunks mention an entity, and the graph may name
\* chunks of purged documents; that no search names one that was purged before
\* it began, in any mode, at any of its limits and however any number of purges,
\* ingests, restores and GraphRAG runs interleave with its queries and with each
\* other, is because get_chunks_by_ids asks for the rows.  A document whose
\* purge met an ingest between upsert_document and upsert_chunks is exempt.
THEOREM PurgedIsNotFound == Spec => []NoBuriedHit
<1>1. IInv => NoBuriedHit
  <2> SUFFICES ASSUME IInv PROVE NoBuriedHit
    OBVIOUS
  <2>1. /\ Listed(lists) \subseteq Lasting /\ Listed(parts) \subseteq Lasting
        /\ Listed(answers) \subseteq Lasting
    BY ListedIn DEF IInv, Found
  <2> QED BY <2>1 DEF NoBuriedHit, Lasting
<1> QED BY <1>1, Invariance, PTL

-----------------------------------------------------------------------------
(* Scores.  Sums are taken one number after the other; what is said of     *)
(* them is proved by the least place where it would fail.                  *)

\* A set of numbers has a least one: what the inductions below rest on.
LEMMA LeastOf ==
  ASSUME NEW T, T \subseteq Nat, T # {}
  PROVE  \E k \in T : \A j \in T : k <= j
<1> DEFINE Less == {s \in Nat \X Nat : s[1] < s[2]}
<1>1. IsWellFoundedOn(Less, Nat)
  BY NatLessThanWellFounded DEF OpToRel
<1>2. PICK k \in T : \A j \in T : <<j, k>> \notin Less
  <2> HIDE DEF Less
  <2> QED BY <1>1, WFMin
<1>3. ASSUME NEW j \in T PROVE k <= j
  <2>1. <<j, k>> \in Nat \X Nat
    OBVIOUS
  <2>2. ~(<<j, k>>[1] < <<j, k>>[2])
    BY <1>2, <2>1
  <2> QED BY <2>2
<1> QED BY <1>3

\* The sums s of the first 0, 1, ..., k numbers of f.
Sums(f, k, s) ==
  /\ s = [n \in 0..k |-> s[n]] /\ s[0] = 0
  /\ \A n \in 1..k : s[n] = s[n - 1] + f[n]

LEMMA SumsExist ==
  ASSUME NEW f
  PROVE  \A k \in Nat : \E s : Sums(f, k, s)
<1> DEFINE Bad == {k \in Nat : ~\E s : Sums(f, k, s)}
<1> SUFFICES ASSUME Bad # {} PROVE FALSE
  OBVIOUS
<1>1. PICK k \in Bad : \A j \in Bad : k <= j
  BY LeastOf
<1>2. CASE k = 0
  <2>1. Sums(f, 0, [n \in 0..0 |-> 0])
    BY DEF Sums
  <2> QED BY <1>2, <2>1
<1>3. CASE k # 0
  <2>1. k - 1 \in Nat /\ k - 1 \notin Bad
    BY <1>1, <1>3
  <2>2. PICK s : Sums(f, k - 1, s)
    BY <2>1
  <2> DEFINE t == [n \in 0..k |-> IF n = k THEN s[k - 1] + f[k] ELSE s[n]]
  <2>3. t = [n \in 0..k |-> t[n]] /\ t[0] = 0
    BY <1>3, <2>2 DEF Sums
  <2>4. ASSUME NEW n \in 1..k PROVE t[n] = t[n - 1] + f[n]
    <3>1. CASE n = k
      BY <1>3, <3>1
    <3>2. CASE n # k
      <4>1. n \in 1..(k - 1)
        BY <3>2
      <4>2. s[n] = s[n - 1] + f[n]
        BY <2>2, <4>1 DEF Sums
      <4> QED BY <3>2, <4>2
    <3> QED BY <3>1, <3>2
  <2> HIDE DEF t
  <2>5. Sums(f, k, t)
    BY <2>3, <2>4 DEF Sums
  <2> QED BY <2>5, <1>1
<1> QED BY <1>2, <1>3

\* Two runs of sums agree as far as both go.
LEMMA SumsAgree ==
  ASSUME NEW f, NEW k \in Nat, NEW s, Sums(f, k, s),
         NEW l \in Nat, NEW t, Sums(f, l, t)
  PROVE  \A n \in 0..k : n <= l => s[n] = t[n]
<1> DEFINE Bad == {n \in 0..k : n <= l /\ s[n] # t[n]}
<1> SUFFICES ASSUME Bad # {} PROVE FALSE
  OBVIOUS
<1>1. PICK n \in Bad : \A j \in Bad : n <= j
  <2>1. Bad \subseteq Nat
    OBVIOUS
  <2> HIDE DEF Bad
  <2> QED BY <2>1, LeastOf
<1>2. CASE n = 0
  BY <1>2, <1>1 DEF Sums
<1>3. CASE n # 0
  <2>1. n - 1 \in 0..k /\ n - 1 <= l /\ n \in 1..k /\ n \in 1..l
    BY <1>3
  <2>2. s[n - 1] = t[n - 1]
    BY <1>1, <2>1
  <2> QED BY <2>1, <2>2 DEF Sums
<1> QED BY <1>2, <1>3

\* So the function that Total is defined by exists.
LEMMA SumsDefined ==
  ASSUME NEW f
  PROVE  \E s : s = [n \in Nat |-> IF n = 0 THEN 0 ELSE s[n - 1] + f[n]]
<1> DEFINE g(n) == CHOOSE s : Sums(f, n, s)
           s == [n \in Nat |-> g(n)[n]]
<1>1. \A n \in Nat : Sums(f, n, g(n))
  BY SumsExist
<1>2. ASSUME NEW n \in Nat
      PROVE  s[n] = IF n = 0 THEN 0 ELSE s[n - 1] + f[n]
  <2> HIDE DEF g
  <2>1. CASE n = 0
    BY <1>1, <2>1 DEF Sums
  <2>2. CASE n # 0
    <3>1. n - 1 \in Nat /\ n - 1 \in 0..n /\ n \in 1..n
      BY <2>2
    <3>2. Sums(f, n, g(n)) /\ Sums(f, n - 1, g(n - 1))
      BY <1>1, <3>1
    <3>3. g(n)[n - 1] = g(n - 1)[n - 1]
      BY <3>1, <3>2, SumsAgree
    <3>4. g(n)[n] = g(n)[n - 1] + f[n]
      BY <3>1, <3>2 DEF Sums
    <3> QED BY <2>2, <3>1, <3>3, <3>4
  <2> QED BY <2>1, <2>2
<1>3. s = [n \in Nat |-> s[n]]
  OBVIOUS
<1> HIDE DEF s
<1>4. s = [n \in Nat |-> IF n = 0 THEN 0 ELSE s[n - 1] + f[n]]
  BY <1>2, <1>3
<1> QED BY <1>4

LEMMA TotalIs ==
  ASSUME NEW f
  PROVE  \E s : /\ s[0] = 0
                /\ \A n \in Nat \ {0} : s[n] = s[n - 1] + f[n]
                /\ Total(f) = s[Len(f)]
<1> DEFINE sum == CHOOSE s : s = [n \in Nat |-> IF n = 0 THEN 0 ELSE s[n - 1] + f[n]]
<1>1. Total(f) = sum[Len(f)]
  BY DEF Total
<1>2. sum = [n \in Nat |-> IF n = 0 THEN 0 ELSE sum[n - 1] + f[n]]
  BY SumsDefined
<1> HIDE DEF sum
<1> QED BY <1>1, <1>2

\* What is added to a sum does not exceed it.
LEMMA Increased ==
  ASSUME NEW a \in Nat, NEW b \in Nat, NEW c, c = a + b
  PROVE  c \in Nat /\ c >= a /\ c >= b
  OBVIOUS

\* A sum of greater numbers is not less.
LEMMA TotalGrows ==
  ASSUME NEW f \in Seq(Nat), NEW g \in Seq(Nat), Len(f) = Len(g),
         \A i \in DOMAIN f : f[i] <= g[i]
  PROVE  Total(f) \in Nat /\ Total(g) \in Nat /\ Total(f) <= Total(g)
<1>1. PICK s : /\ s[0] = 0 /\ Total(f) = s[Len(f)]
               /\ \A n \in Nat \ {0} : s[n] = s[n - 1] + f[n]
  BY TotalIs
<1>2. PICK t : /\ t[0] = 0 /\ Total(g) = t[Len(g)]
               /\ \A n \in Nat \ {0} : t[n] = t[n - 1] + g[n]
  BY TotalIs
<1> DEFINE Good(n) == s[n] \in Nat /\ t[n] \in Nat /\ s[n] <= t[n]
           Bad == {n \in 0..Len(f) : ~Good(n)}
<1>3. ASSUME Bad # {} PROVE FALSE
  <2>1. PICK n \in Bad : \A j \in Bad : n <= j
    <3>1. Bad \subseteq Nat
      OBVIOUS
    <3> HIDE DEF Bad
    <3> QED BY <1>3, <3>1, LeastOf
  <2>2. n # 0 /\ n \in Nat /\ n <= Len(f)
    BY <1>1, <1>2, <2>1
  <2>3. Good(n - 1)
    <3>1. n - 1 \in 0..Len(f) /\ ~(n <= n - 1) /\ n - 1 \in Nat
      BY <2>2
    <3> HIDE DEF Good
    <3> QED BY <2>1, <3>1
  <2>4. s[n] = s[n - 1] + f[n] /\ t[n] = t[n - 1] + g[n]
    BY <1>1, <1>2, <2>2
  <2>5. f[n] \in Nat /\ g[n] \in Nat /\ f[n] <= g[n]
    <3>1. n \in DOMAIN f /\ n \in DOMAIN g
      BY <2>2
    <3> QED BY <3>1
  <2>6. Good(n)
    BY <2>3, <2>4, <2>5
  <2> QED BY <2>1, <2>6
<1>4. Good(Len(f))
  <2>1. Len(f) \in 0..Len(f)
    OBVIOUS
  <2> HIDE DEF Good
  <2> QED BY <1>3, <2>1
<1> QED BY <1>1, <1>2, <1>4

\* Nor is one that has, before the only number of another, one as great.
LEMMA TotalOvertakes ==
  ASSUME NEW f \in Seq(Nat), NEW g \in Seq(Nat), Len(f) = Len(g),
         NEW a \in DOMAIN g, NEW b \in DOMAIN f, a < b, f[b] <= g[a],
         \A i \in DOMAIN f \ {b} : f[i] = 0
  PROVE  Total(f) <= Total(g)
<1>1. PICK s : /\ s[0] = 0 /\ Total(f) = s[Len(f)]
               /\ \A n \in Nat \ {0} : s[n] = s[n - 1] + f[n]
  BY TotalIs
<1>2. PICK t : /\ t[0] = 0 /\ Total(g) = t[Len(g)]
               /\ \A n \in Nat \ {0} : t[n] = t[n - 1] + g[n]
  BY TotalIs
<1> DEFINE Good(n) == /\ s[n] \in Nat /\ t[n] \in Nat
                      /\ s[n] = IF n < b THEN 0 ELSE f[b]
                      /\ n >= a => t[n] >= g[a]
           Bad == {n \in 0..Len(f) : ~Good(n)}
<1>3. ASSUME Bad # {} PROVE FALSE
  <2>1. PICK n \in Bad : \A j \in Bad : n <= j
    <3>1. Bad \subseteq Nat
      OBVIOUS
    <3> HIDE DEF Bad
    <3> QED BY <1>3, <3>1, LeastOf
  <2>2. n # 0 /\ n \in Nat /\ n <= Len(f)
    <3>1. 0 < b /\ ~(0 >= a)
      OBVIOUS
    <3>2. Good(0)
      BY <1>1, <1>2, <3>1
    <3> QED BY <2>1, <3>2
  <2>3. Good(n - 1)
    <3>1. n - 1 \in 0..Len(f) /\ ~(n <= n - 1) /\ n - 1 \in Nat
      BY <2>2
    <3> HIDE DEF Good
    <3> QED BY <2>1, <3>1
  <2>4. s[n] = s[n - 1] + f[n] /\ t[n] = t[n - 1] + g[n]
    BY <1>1, <1>2, <2>2
  <2>5. /\ f[n] \in Nat /\ g[n] \in Nat /\ g[a] \in Nat /\ f[b] \in Nat
        /\ n # b => f[n] = 0
    BY <2>2
  <2>6. a \in Nat /\ b \in Nat
    OBVIOUS
  <2>7. s[n] \in Nat /\ t[n] \in Nat /\ t[n] >= t[n - 1] /\ t[n] >= g[n]
    <3>1. s[n - 1] \in Nat /\ t[n - 1] \in Nat
      BY <2>3
    <3> HIDE DEF Good, Bad
    <3>2. s[n] \in Nat
      <4>1. f[n] \in Nat /\ s[n] = s[n - 1] + f[n]
        BY <2>4, <2>5
      <4> QED BY <3>1, <4>1, Increased
    <3>3. t[n] \in Nat /\ t[n] >= t[n - 1] /\ t[n] >= g[n]
      <4>1. g[n] \in Nat /\ t[n] = t[n - 1] + g[n]
        BY <2>4, <2>5
      <4> QED BY <3>1, <4>1, Increased
    <3> QED BY <3>2, <3>3
  <2>8. s[n] = IF n < b THEN 0 ELSE f[b]
    <3>1. s[n - 1] = IF n - 1 < b THEN 0 ELSE f[b]
      BY <2>3
    <3> QED BY <2>2, <2>4, <2>5, <2>6, <3>1, SMTT(30)
  <2>9. ASSUME n >= a PROVE t[n] >= g[a]
    <3>1. CASE n = a
      BY <2>7, <3>1
    <3>2. CASE n # a
      <4>1. t[n - 1] >= g[a] /\ t[n - 1] \in Nat
        BY <2>2, <2>3, <2>6, <2>9, <3>2
      <4> QED BY <2>5, <2>7, <4>1
    <3> QED BY <3>1, <3>2
  <2>10. Good(n)
    BY <2>7, <2>8, <2>9
  <2> QED BY <2>1, <2>10
<1>4. Good(Len(f))
  <2>1. Len(f) \in 0..Len(f)
    OBVIOUS
  <2> HIDE DEF Good
  <2> QED BY <1>3, <2>1
<1>5. Len(f) >= b /\ Len(f) >= a /\ g[a] \in Nat /\ f[b] \in Nat
  OBVIOUS
<1>6. s[Len(f)] = f[b] /\ t[Len(f)] >= g[a] /\ t[Len(f)] \in Nat
  BY <1>4, <1>5
<1> HIDE DEF Good, Bad
<1>7. Total(f) = f[b] /\ Total(g) >= g[a] /\ Total(g) \in Nat
  BY <1>1, <1>2, <1>6
<1> QED BY <1>5, <1>7

\* The further down a rank, the less it is worth.
LEMMA WorthFalls ==
  ASSUME NEW a \in Nat \ {0}, NEW b \in Nat \ {0}, a <= b
  PROVE  /\ Scale \div a \in Nat /\ Scale \div b \in Nat
         /\ Scale \div b <= Scale \div a
<1>1. Scale \in Nat
  BY ConstantsAssumption
<1> DEFINE p == Scale \div a
           q == Scale \div b
<1>2. /\ p \in Nat /\ q \in Nat
      /\ Scale < a * (p + 1) /\ b * q <= Scale
  BY <1>1
<1> HIDE DEF p, q
<1>3. ASSUME q > p PROVE FALSE
  <2>1. q >= p + 1
    BY <1>2, <1>3
  <2>2. a * (p + 1) <= a * q
    BY <1>2, <2>1
  <2>3. a * q <= b * q
    BY <1>2
  <2> QED BY <1>1, <1>2, <2>2, <2>3
<1> QED BY <1>2, <1>3 DEF p, q

LEMMA ListScoreIs ==
  ASSUME NEW S, NEW list \in Seq(S), NEW x
  PROVE  /\ [rank \in DOMAIN list |->
               IF list[rank] = x THEN Scale \div (RrfK + rank) ELSE 0] \in Seq(Nat)
         /\ ListScore(list, x) \in Nat
<1> DEFINE f == [rank \in DOMAIN list |->
                   IF list[rank] = x THEN Scale \div (RrfK + rank) ELSE 0]
<1>1. ASSUME NEW r \in DOMAIN list PROVE Scale \div (RrfK + r) \in Nat
  <2>1. RrfK + r \in Nat \ {0}
    BY ConstantsAssumption
  <2> QED BY <2>1, WorthFalls
<1>2. f \in Seq(Nat)
  <2>1. f \in [1..Len(list) -> Nat]
    BY <1>1
  <2> QED BY <2>1
<1>3. \A i \in DOMAIN f : f[i] <= f[i]
  BY <1>2
<1> HIDE DEF f
<1>4. Total(f) \in Nat
  BY <1>2, <1>3, TotalGrows
<1> QED BY <1>2, <1>4 DEF f, ListScore

LEMMA OnceIs ==
  ASSUME NEW S, NEW list \in Seq(S), NEW y, Once(list, y),
         NEW a \in DOMAIN list, NEW b \in DOMAIN list, list[a] = y, list[b] = y
  PROVE  a = b
<1> DEFINE T == {i \in DOMAIN list : list[i] = y}
<1> SUFFICES ASSUME a # b PROVE FALSE
  OBVIOUS
<1>1. IsFiniteSet(T)
  <2>1. T \subseteq 1..Len(list)
    OBVIOUS
  <2> QED BY <2>1, FS_Interval, FS_Subset
<1>2. {a, b} \subseteq T
  OBVIOUS
<1>3. Cardinality({a, b}) = 2
  <2>1. Cardinality({a}) = 1 /\ IsFiniteSet({a})
    BY FS_Singleton
  <2>2. {a, b} = {a} \cup {b} /\ b \notin {a}
    OBVIOUS
  <2>3. Cardinality({a} \cup {b}) = Cardinality({a}) + 1
    BY <2>1, <2>2, FS_AddElement
  <2>4. Cardinality({a, b}) = Cardinality({a} \cup {b})
    BY <2>2, Zenon
  <2>5. Cardinality({a} \cup {b}) = 2
    <3> DEFINE c == Cardinality({a})
               e == Cardinality({a} \cup {b})
    <3>1. c = 1 /\ e = c + 1
      BY <2>1, <2>3
    <3> HIDE DEF c, e
    <3>2. e = 2
      BY <3>1
    <3> QED BY <3>2 DEF e
  <2> QED BY <2>4, <2>5, Zenon
<1>4. Cardinality({a, b}) <= Cardinality(T) /\ Cardinality(T) \in Nat
  BY <1>1, <1>2, FS_Subset, FS_CardinalityType
<1> QED BY <1>3, <1>4 DEF Once

\* A list that names x before y, or does not name y, gives x no less.
LEMMA ListScoreAhead ==
  ASSUME NEW S, NEW list \in Seq(S), NEW x, NEW y, x # y,
         y \in ToSet(list) => Above(list, x, y) /\ Once(list, y)
  PROVE  ListScore(list, y) <= ListScore(list, x)
<1> DEFINE w(z) == [rank \in DOMAIN list |->
                      IF list[rank] = z THEN Scale \div (RrfK + rank) ELSE 0]
<1>1. /\ w(x) \in Seq(Nat) /\ w(y) \in Seq(Nat)
      /\ DOMAIN w(x) = DOMAIN list /\ DOMAIN w(y) = DOMAIN list
  BY ListScoreIs
<1>2. Len(w(x)) = Len(list) /\ Len(w(y)) = Len(list)
  OBVIOUS
<1>3. ListScore(list, x) = Total(w(x)) /\ ListScore(list, y) = Total(w(y))
  BY DEF ListScore
<1>4. CASE y \notin ToSet(list)
  <2>1. \A r \in DOMAIN list : w(y)[r] = 0
    BY <1>4 DEF ToSet
  <2>2. \A r \in DOMAIN list : w(x)[r] \in Nat
    <3> HIDE DEF w
    <3> QED BY <1>1
  <2>3. \A r \in DOMAIN w(y) : w(y)[r] <= w(x)[r]
    <3> HIDE DEF w
    <3> QED BY <1>1, <2>1, <2>2
  <2> HIDE DEF w
  <2> QED BY <1>1, <1>2, <1>3, <2>3, TotalGrows
<1>5. CASE y \in ToSet(list)
  <2>1. PICK a \in DOMAIN list : list[a] = x /\ \A j \in 1..a : list[j] # y
    BY <1>5 DEF Above
  <2>2. PICK b \in DOMAIN list : list[b] = y
    BY <1>5 DEF ToSet
  <2>3. a < b /\ a \in Nat \ {0} /\ b \in Nat \ {0}
    BY <2>1, <2>2
  <2>4. \A r \in DOMAIN list \ {b} : w(y)[r] = 0
    BY <1>5, <2>2, OnceIs
  <2>5. w(y)[b] <= w(x)[a]
    <3>1. RrfK + a \in Nat \ {0} /\ RrfK + b \in Nat \ {0} /\ RrfK + a <= RrfK + b
      BY <2>3, ConstantsAssumption
    <3>2. Scale \div (RrfK + b) <= Scale \div (RrfK + a)
      BY <3>1, WorthFalls
    <3> QED BY <2>1, <2>2, <3>2
  <2> HIDE DEF w
  <2> QED BY <1>1, <1>2, <1>3, <2>3, <2>4, <2>5, TotalOvertakes
<1> QED BY <1>4, <1>5

\* Nor do lists that all do.
LEMMA ScoreAhead ==
  ASSUME NEW S, NEW ls \in Seq(Seq(S)), NEW x, NEW y, x # y,
         \A i \in DOMAIN ls : y \in ToSet(ls[i]) => /\ Above(ls[i], x, y)
                                                    /\ Once(ls[i], y)
  PROVE  Score(ls, y) <= Score(ls, x)
<1> DEFINE f(z) == [i \in DOMAIN ls |-> ListScore(ls[i], z)]
<1>1. ASSUME NEW i \in DOMAIN ls
      PROVE  /\ ListScore(ls[i], x) \in Nat /\ ListScore(ls[i], y) \in Nat
             /\ ListScore(ls[i], y) <= ListScore(ls[i], x)
  <2>1. ls[i] \in Seq(S)
    OBVIOUS
  <2> QED BY <2>1, ListScoreIs, ListScoreAhead
<1>2. /\ f(x) \in Seq(Nat) /\ f(y) \in Seq(Nat) /\ Len(f(x)) = Len(f(y))
      /\ \A i \in DOMAIN f(y) : f(y)[i] <= f(x)[i]
  <2>1. f(x) \in [1..Len(ls) -> Nat] /\ f(y) \in [1..Len(ls) -> Nat]
    BY <1>1
  <2> QED BY <2>1, <1>1
<1> HIDE DEF f
<1>3. Total(f(y)) <= Total(f(x))
  BY <1>2, TotalGrows
<1> QED BY <1>3 DEF f, Score

LEMMA ScoreIs ==
  ASSUME NEW S, NEW ls \in Seq(Seq(S)), NEW x
  PROVE  Score(ls, x) \in Nat
<1> DEFINE f == [i \in DOMAIN ls |-> ListScore(ls[i], x)]
<1>1. f \in Seq(Nat)
  <2>1. \A i \in DOMAIN ls : ListScore(ls[i], x) \in Nat
    <3>1. \A i \in DOMAIN ls : ls[i] \in Seq(S)
      OBVIOUS
    <3> QED BY <3>1, ListScoreIs
  <2>2. f \in [1..Len(ls) -> Nat]
    BY <2>1
  <2> QED BY <2>2
<1> HIDE DEF f
<1>2. \A i \in DOMAIN f : f[i] <= f[i]
  BY <1>1
<1>3. Total(f) \in Nat
  BY <1>1, <1>2, TotalGrows
<1> QED BY <1>3 DEF f, Score

\* The least of a set of numbers, the first place of a hit in a list, the first
\* list that names it.
LEMMA MinIs ==
  ASSUME NEW T, T \subseteq Nat, T # {}
  PROVE  Min(T) \in T /\ \A j \in T : Min(T) <= j
  BY LeastOf DEF Min

LEMMA FirstIs ==
  ASSUME NEW S, NEW list \in Seq(S), NEW x \in ToSet(list)
  PROVE  /\ First(list, x) \in DOMAIN list /\ list[First(list, x)] = x
         /\ First(list, x) \in Nat
<1> DEFINE T == {i \in DOMAIN list : list[i] = x}
<1>1. T \subseteq Nat /\ T # {}
  BY DEF ToSet
<1> HIDE DEF T
<1>2. Min(T) \in T
  BY <1>1, MinIs
<1> QED BY <1>1, <1>2 DEF T, First

LEMMA HomeIs ==
  ASSUME NEW S, NEW ls \in Seq(Seq(S)), NEW x \in Listed(ls)
  PROVE  /\ Home(ls, x) \in DOMAIN ls /\ x \in ToSet(ls[Home(ls, x)])
         /\ Home(ls, x) \in Nat /\ ls[Home(ls, x)] \in Seq(S)
         /\ \A i \in DOMAIN ls : x \in ToSet(ls[i]) => Home(ls, x) <= i
<1> DEFINE T == {i \in DOMAIN ls : x \in ToSet(ls[i])}
<1>1. T \subseteq Nat /\ T # {}
  BY DEF Listed
<1>2. T \subseteq DOMAIN ls /\ \A i \in T : x \in ToSet(ls[i])
  OBVIOUS
<1>3. \A i \in DOMAIN ls : x \in ToSet(ls[i]) => i \in T
  OBVIOUS
<1>4. Home(ls, x) = Min(T)
  BY DEF Home
<1> HIDE DEF T
<1>5. Min(T) \in T /\ \A j \in T : Min(T) <= j
  BY <1>1, MinIs
<1>6. \A i \in DOMAIN ls : ls[i] \in Seq(S)
  OBVIOUS
<1> QED BY <1>1, <1>2, <1>3, <1>4, <1>5, <1>6

\* Of two hits exactly one comes before the other.
LEMMA BeforeOrders ==
  ASSUME NEW S, NEW ls \in Seq(Seq(S)), NEW score \in [Listed(ls) -> Nat],
         NEW x \in Listed(ls), NEW y \in Listed(ls), NEW z \in Listed(ls)
  PROVE  /\ ~Before(ls, score, x, x)
         /\ Before(ls, score, x, y) /\ Before(ls, score, y, z)
              => Before(ls, score, x, z)
         /\ x # y => Before(ls, score, x, y) \/ Before(ls, score, y, x)
<1> DEFINE home(t) == Home(ls, t)
           at(t) == First(ls[home(t)], t)
<1>1. /\ home(x) \in Nat /\ home(y) \in Nat /\ home(z) \in Nat
      /\ at(x) \in Nat /\ at(y) \in Nat /\ at(z) \in Nat
      /\ ls[home(x)][at(x)] = x /\ ls[home(y)][at(y)] = y
  BY HomeIs, FirstIs
<1>2. score[x] \in Nat /\ score[y] \in Nat /\ score[z] \in Nat
  OBVIOUS
<1>3. \A t \in {x, y, z}, u \in {x, y, z} :
        MetFirst(ls, t, u) <=> \/ home(t) < home(u)
                               \/ home(t) = home(u) /\ at(t) < at(u)
  BY DEF MetFirst
<1> HIDE DEF home, at
<1>4. x # y => home(x) # home(y) \/ at(x) # at(y)
  BY <1>1
<1>5. \A t \in {x, y, z}, u \in {x, y, z} :
        Before(ls, score, t, u) <=>
          \/ score[t] > score[u]
          \/ /\ score[t] = score[u]
             /\ \/ home(t) < home(u)
                \/ home(t) = home(u) /\ at(t) < at(u)
  BY <1>3 DEF Before
<1>6. ~Before(ls, score, x, x)
  BY <1>1, <1>2, <1>5
<1>7. Before(ls, score, x, y) /\ Before(ls, score, y, z)
        => Before(ls, score, x, z)
  BY <1>1, <1>2, <1>5
<1>8. x # y => Before(ls, score, x, y) \/ Before(ls, score, y, x)
  BY <1>1, <1>2, <1>4, <1>5
<1> QED BY <1>6, <1>7, <1>8

\* Places are numbered from 1, no two hits have the same, and they are in the
\* order of the scores.
LEMMA PlaceIs ==
  ASSUME NEW S, NEW ls \in Seq(Seq(S)), IsFiniteSet(Listed(ls)),
         NEW score, score = [x \in Listed(ls) |-> Score(ls, x)],
         NEW x \in Listed(ls), NEW y \in Listed(ls)
  PROVE  /\ DOMAIN Place(ls) = Listed(ls)
         /\ Place(ls)[x] \in 1..Cardinality(Listed(ls))
         /\ Before(ls, score, x, y) => Place(ls)[x] < Place(ls)[y]
         /\ x # y => Place(ls)[x] # Place(ls)[y]
<1> DEFINE L == Listed(ls)
           ahead(t) == {u \in L : Before(ls, score, u, t)}
<1>1. /\ DOMAIN Place(ls) = L
      /\ \A t \in L : Place(ls)[t] = 1 + Cardinality(ahead(t))
  BY DEF Place
<1>2. score \in [L -> Nat]
  BY ScoreIs
<1>3. ASSUME NEW t \in L
      PROVE  /\ IsFiniteSet(ahead(t)) /\ Cardinality(ahead(t)) \in Nat
             /\ Cardinality(ahead(t)) < Cardinality(L) /\ Cardinality(L) \in Nat
  <2>1. ahead(t) \subseteq L /\ t \notin ahead(t) /\ t \in L
    BY <1>2, <1>3, BeforeOrders
  <2> HIDE DEF ahead, L
  <2>2. ahead(t) # L
    BY <2>1
  <2>3. IsFiniteSet(L)
    BY DEF L
  <2> QED BY <2>1, <2>2, <2>3, FS_Subset, FS_CardinalityType
<1>4. ASSUME NEW t \in L, NEW u \in L, Before(ls, score, t, u)
      PROVE  Cardinality(ahead(t)) < Cardinality(ahead(u))
  <2>1. ahead(t) \subseteq ahead(u)
    BY <1>2, <1>4, BeforeOrders
  <2>2. t \in ahead(u) /\ t \notin ahead(t)
    BY <1>2, <1>4, BeforeOrders
  <2>3. IsFiniteSet(ahead(u)) /\ IsFiniteSet(ahead(t))
    BY <1>3
  <2> HIDE DEF ahead, L
  <2>4. ahead(t) # ahead(u)
    BY <2>2
  <2> QED BY <2>1, <2>3, <2>4, FS_Subset, FS_CardinalityType
<1>5. x # y => Before(ls, score, x, y) \/ Before(ls, score, y, x)
  BY <1>2, BeforeOrders
<1>6. x \in L /\ y \in L
  OBVIOUS
<1>7. /\ Cardinality(ahead(x)) \in Nat /\ Cardinality(ahead(y)) \in Nat
      /\ Cardinality(ahead(x)) < Cardinality(L) /\ Cardinality(L) \in Nat
      /\ Place(ls)[x] = 1 + Cardinality(ahead(x))
      /\ Place(ls)[y] = 1 + Cardinality(ahead(y))
      /\ Before(ls, score, x, y)
           => Cardinality(ahead(x)) < Cardinality(ahead(y))
      /\ Before(ls, score, y, x)
           => Cardinality(ahead(y)) < Cardinality(ahead(x))
  BY <1>1, <1>3, <1>4, <1>6
<1> HIDE DEF ahead
<1> QED BY <1>1, <1>5, <1>7

\* What a fusion gives stands by its place, and when it gives as many as there
\* are, it gives all.
LEMMA FuseOrders ==
  ASSUME NEW S, NEW ls \in Seq(Seq(S)), NEW n \in Nat, NEW s \in Fuse(ls, n)
  PROVE  /\ \A x \in Listed(ls) : \A y \in ToSet(s) \ {x} :
              Place(ls)[x] < Place(ls)[y] => Above(s, x, y)
         /\ Len(s) = Cardinality(Listed(ls)) => Listed(ls) \subseteq ToSet(s)
<1> DEFINE L == Listed(ls)
           m == Min({n, Cardinality(L)})
<1>1. IsFiniteSet(L)
  BY ListedFinite
<1>2. /\ DOMAIN Place(ls) = L
      /\ \A t \in L : Place(ls)[t] \in 1..Cardinality(L)
      /\ \A t \in L, u \in L : t # u => Place(ls)[t] # Place(ls)[u]
  <2>1. DOMAIN Place(ls) = L
    BY DEF Place
  <2> QED BY <1>1, <2>1, PlaceIs
<1>3. m \in Nat /\ Cardinality(L) \in Nat
  BY <1>1, MinOf, FS_CardinalityType
<1>4. s \in [1..m -> L] /\ \A i \in 1..m : Place(ls)[s[i]] = i
  <2>1. s \in Best(Place(ls), n)
    BY DEF Fuse
  <2> QED BY <1>2, <2>1 DEF Best
<1> HIDE DEF L, m
<1>5. Len(s) = m /\ DOMAIN s = 1..m /\ ToSet(s) = {s[i] : i \in 1..m}
  BY <1>3, <1>4 DEF ToSet
<1>6. ASSUME NEW x \in L, Place(ls)[x] <= m
      PROVE  Place(ls)[x] \in 1..m /\ s[Place(ls)[x]] = x
  <2>1. Place(ls)[x] \in 1..m
    BY <1>2, <1>3, <1>6
  <2>2. s[Place(ls)[x]] \in L /\ Place(ls)[s[Place(ls)[x]]] = Place(ls)[x]
    BY <1>4, <2>1
  <2> QED BY <1>2, <2>1, <2>2
<1>7. ASSUME NEW x \in L, NEW y \in ToSet(s) \ {x},
             Place(ls)[x] < Place(ls)[y]
      PROVE  Above(s, x, y)
  <2>1. PICK j \in 1..m : s[j] = y
    BY <1>5
  <2>2. Place(ls)[y] = j
    BY <1>4, <2>1
  <2>3. Place(ls)[x] \in Nat /\ Place(ls)[x] < j /\ Place(ls)[x] <= m
    BY <1>2, <1>3, <1>7, <2>1, <2>2
  <2> DEFINE i == Place(ls)[x]
  <2>4. i \in DOMAIN s /\ s[i] = x
    BY <1>5, <1>6, <2>3
  <2>5. ASSUME NEW k \in 1..i PROVE s[k] # y
    <3>1. k \in 1..m /\ k < j
      BY <2>3, <2>1, <1>3
    <3>2. Place(ls)[s[k]] = k
      BY <1>4, <3>1
    <3> QED BY <2>2, <3>1, <3>2, <2>1
  <2> HIDE DEF i
  <2> QED BY <2>4, <2>5 DEF Above
<1>8. ASSUME Len(s) = Cardinality(L), NEW x \in L PROVE x \in ToSet(s)
  <2>1. Place(ls)[x] <= m
    BY <1>2, <1>3, <1>5, <1>8
  <2> QED BY <1>5, <1>6, <2>1
<1> QED BY <1>7, <1>8 DEF L

\* A hit that is above another in every list that has the other is ahead of it.
LEMMA AheadIs ==
  ASSUME NEW S, NEW ls \in Seq(Seq(S)),
         NEW x \in Listed(ls), NEW y \in Listed(ls), x # y,
         \A i \in DOMAIN ls : y \in ToSet(ls[i]) => /\ Above(ls[i], x, y)
                                                    /\ Once(ls[i], y)
  PROVE  Place(ls)[x] < Place(ls)[y]
<1> DEFINE score == [t \in Listed(ls) |-> Score(ls, t)]
<1>1. score[y] <= score[x] /\ score[x] \in Nat /\ score[y] \in Nat
  BY ScoreAhead, ScoreIs
<1>2. MetFirst(ls, x, y)
  <2> DEFINE i == Home(ls, x)
             j == Home(ls, y)
  <2>1. /\ i \in DOMAIN ls /\ j \in DOMAIN ls /\ i \in Nat /\ j \in Nat
        /\ x \in ToSet(ls[i]) /\ y \in ToSet(ls[j])
        /\ ls[i] \in Seq(S) /\ ls[j] \in Seq(S)
        /\ \A k \in DOMAIN ls : x \in ToSet(ls[k]) => i <= k
    BY HomeIs
  <2> HIDE DEF i, j
  <2>2. PICK a \in DOMAIN ls[j] : ls[j][a] = x /\ \A k \in 1..a : ls[j][k] # y
    BY <2>1 DEF Above
  <2>3. i <= j
    <3>1. x \in ToSet(ls[j])
      BY <2>2 DEF ToSet
    <3> QED BY <2>1, <3>1
  <2>4. ASSUME i = j PROVE First(ls[i], x) < First(ls[i], y)
    <3>1. /\ First(ls[j], y) \in Nat \ {0} /\ First(ls[j], y) \in DOMAIN ls[j]
          /\ ls[j][First(ls[j], y)] = y
      BY <2>1, FirstIs
    <3>2. a \in Nat \ {0} /\ a < First(ls[j], y)
      BY <2>1, <2>2, <3>1
    <3>3. First(ls[j], x) \in Nat /\ First(ls[j], x) <= a
      <4> DEFINE T == {k \in DOMAIN ls[j] : ls[j][k] = x}
      <4>1. T \subseteq Nat /\ a \in T
        BY <2>1, <2>2
      <4> HIDE DEF T
      <4>2. Min(T) \in Nat /\ Min(T) <= a
        BY <4>1, MinIs
      <4> QED BY <4>2 DEF T, First
    <3> QED BY <2>4, <3>1, <3>2, <3>3
  <2>5. i < j \/ i = j
    BY <2>1, <2>3
  <2>6. i < j \/ (i = j /\ First(ls[i], x) < First(ls[i], y))
    BY <2>4, <2>5, Zenon
  <2> QED BY <2>6 DEF MetFirst, i, j
<1>3. Before(ls, score, x, y)
  <2> HIDE DEF score
  <2> QED BY <1>1, <1>2 DEF Before
<1>4. IsFiniteSet(Listed(ls))
  BY ListedFinite
<1> QED BY <1>3, <1>4, PlaceIs

LEMMA FuseIsFair ==
  ASSUME NEW S, NEW ls \in Seq(Seq(S)), NEW n \in Nat, NEW s \in Fuse(ls, n)
  PROVE  Fair(ls, s)
<1> SUFFICES ASSUME NEW x \in Listed(ls), NEW y \in ToSet(s) \ {x},
                    \A i \in DOMAIN ls : y \in ToSet(ls[i]) =>
                      Above(ls[i], x, y) /\ Once(ls[i], y)
             PROVE  Above(s, x, y)
  BY DEF Fair
<1>1. y \in Listed(ls)
  <2>1. s \in Seq(Listed(ls))
    <3>1. s \in Best(Place(ls), n) /\ DOMAIN Place(ls) = Listed(ls)
      BY DEF Fuse, Place
    <3> QED BY <3>1, ListedFinite, BestIs
  <2> QED BY <2>1 DEF ToSet
<1>2. Place(ls)[x] < Place(ls)[y]
  BY <1>1, AheadIs
<1> QED BY <1>2, FuseOrders

LEMMA ConcatIs ==
  ASSUME NEW S, NEW s \in Seq(S), NEW t \in Seq(S)
  PROVE  /\ ToSet(s \o t) = ToSet(s) \cup ToSet(t)
         /\ Len(t) = 0 => ToSet(t) = {}
         /\ \A i \in DOMAIN s : i \in DOMAIN (s \o t) /\ (s \o t)[i] = s[i]
         /\ \A i \in DOMAIN s : \A k \in 1..i : k \in DOMAIN s
<1> DEFINE u == s \o t
<1>1. /\ DOMAIN u = 1..(Len(s) + Len(t))
      /\ \A i \in DOMAIN u : u[i] = IF i <= Len(s) THEN s[i] ELSE t[i - Len(s)]
  OBVIOUS
<1> HIDE DEF u
<1>2. \A i \in DOMAIN s : i \in DOMAIN u /\ u[i] = s[i]
  BY <1>1
<1>3. \A i \in DOMAIN t : i + Len(s) \in DOMAIN u /\ u[i + Len(s)] = t[i]
  BY <1>1
<1>4. \A i \in DOMAIN u : (i <= Len(s) /\ i \in DOMAIN s) \/ i - Len(s) \in DOMAIN t
  BY <1>1
<1>5. ToSet(u) \subseteq ToSet(s) \cup ToSet(t)
  BY <1>1, <1>4 DEF ToSet
<1>6. ToSet(s) \cup ToSet(t) \subseteq ToSet(u)
  BY <1>2, <1>3 DEF ToSet
<1>7. Len(t) = 0 => ToSet(t) = {}
  BY DEF ToSet
<1>8. \A i \in DOMAIN s : \A k \in 1..i : k \in DOMAIN s
  OBVIOUS
<1> QED BY <1>2, <1>5, <1>6, <1>7, <1>8 DEF u

\* An edge is appended only where every hit has been given already.
LEMMA AppendedIsFair ==
  ASSUME NEW S, Relation \subseteq S, edges \in Seq(Relation),
         NEW ls \in Seq(Seq(S)), NEW n \in Nat,
         NEW hits \in Fuse(ls, n), NEW s \in AppendEdges(hits, n)
  PROVE  Fair(ls, s)
<1> SUFFICES ASSUME NEW x \in Listed(ls), NEW y \in ToSet(s) \ {x},
                    \A i \in DOMAIN ls : y \in ToSet(ls[i]) =>
                      Above(ls[i], x, y) /\ Once(ls[i], y)
             PROVE  Above(s, x, y)
  BY DEF Fair
<1>1. /\ hits \in Seq(S) /\ Len(hits) <= n
      /\ Len(hits) = Min({n, Cardinality(Listed(ls))})
  BY FuseIs
<1>2. PICK t \in Best(NewEdges(hits), n - Len(hits)) : s = hits \o t
  BY DEF AppendEdges
<1>3. t \in Seq(S) /\ Len(t) <= n - Len(hits)
  <2>1. DOMAIN NewEdges(hits) \subseteq ToSet(edges) /\ ToSet(edges) \subseteq S
    BY DEF NewEdges, ToSet
  <2>2. IsFiniteSet(DOMAIN NewEdges(hits)) /\ n - Len(hits) \in Nat
    BY <1>1, <2>1, MembersFinite, FS_Subset
  <2>3. t \in Seq(DOMAIN NewEdges(hits)) /\ Len(t) <= n - Len(hits)
    BY <1>2, <2>2, BestIs
  <2> QED BY <2>1, <2>3
<1>4. /\ ToSet(s) = ToSet(hits) \cup ToSet(t)
      /\ Len(t) = 0 => ToSet(t) = {}
      /\ \A i \in DOMAIN hits : i \in DOMAIN s /\ s[i] = hits[i]
      /\ \A a \in DOMAIN hits : \A k \in 1..a : k \in DOMAIN hits
  <2>1. /\ ToSet(hits \o t) = ToSet(hits) \cup ToSet(t)
        /\ Len(t) = 0 => ToSet(t) = {}
        /\ \A i \in DOMAIN hits : /\ i \in DOMAIN (hits \o t)
                                  /\ (hits \o t)[i] = hits[i]
        /\ \A a \in DOMAIN hits : \A k \in 1..a : k \in DOMAIN hits
    BY <1>1, <1>3, ConcatIs, Zenon
  <2> QED BY <1>2, <2>1, Zenon
<1>5. ASSUME NEW a \in DOMAIN hits, hits[a] = x,
             \A k \in 1..a : hits[k] # y
      PROVE  Above(s, x, y)
  <2>1. a \in DOMAIN s /\ s[a] = x
    BY <1>4, <1>5
  <2>2. \A k \in 1..a : s[k] # y
    BY <1>4, <1>5
  <2> QED BY <2>1, <2>2 DEF Above
<1>6. CASE y \in ToSet(hits)
  <2>1. Above(hits, x, y)
    BY <1>6, FuseIsFair DEF Fair
  <2> QED BY <1>5, <2>1 DEF Above
<1>7. CASE y \notin ToSet(hits)
  <2>1. Len(t) # 0 /\ Len(t) \in Nat
    BY <1>3, <1>4, <1>7
  <2>2. IsFiniteSet(Listed(ls)) /\ Cardinality(Listed(ls)) \in Nat
    BY ListedFinite, FS_CardinalityType
  <2>3. Len(hits) \in {n, Cardinality(Listed(ls))}
    <3> DEFINE c == Cardinality(Listed(ls))
    <3>1. {n, c} \subseteq Nat /\ {n, c} # {}
      BY <2>2
    <3> HIDE DEF c
    <3>2. Min({n, c}) \in {n, c}
      BY <3>1, MinIs
    <3> QED BY <1>1, <3>2 DEF c
  <2>4. Len(hits) < n
    BY <1>1, <1>3, <2>1
  <2>5. x \in ToSet(hits)
    BY <2>3, <2>4, <1>1, FuseOrders
  <2>6. PICK a \in DOMAIN hits : hits[a] = x
    BY <2>5 DEF ToSet
  <2>7. \A k \in 1..a : hits[k] # y
    BY <1>4, <1>7, <2>6 DEF ToSet
  <2> QED BY <1>5, <2>6, <2>7
<1> QED BY <1>6, <1>7

-----------------------------------------------------------------------------
(* What a fusion gives.                                                    *)

LEMMA NoFusionIsFair ==
  /\ IsInjective(NoFusion.hits) /\ Len(NoFusion.hits) <= NoFusion.limit
  /\ Len(NoFusion.hits) >=
       Min({NoFusion.limit, Cardinality(Listed(NoFusion.of))})
  /\ Fair(NoFusion.of, NoFusion.hits)
<1>1. Listed(<<>>) = {} /\ Cardinality(Listed(<<>>)) = 0
  <2>1. Listed(<<>>) = {}
    BY DEF Listed
  <2> QED BY <2>1, FS_EmptySet
<1>2. Min({0, 0}) \in Nat /\ Min({0, 0}) <= 0
  BY MinOf
<1>3. NoFusion.of = <<>> /\ NoFusion.limit = 0 /\ NoFusion.hits = <<>>
  BY DEF NoFusion
<1>4. IsInjective(<<>>) /\ Len(<<>>) = 0
  BY DEF IsInjective
<1>5. Min({NoFusion.limit, Cardinality(Listed(NoFusion.of))}) <= 0
  BY <1>1, <1>2, <1>3
<1>6. Fair(NoFusion.of, NoFusion.hits)
  BY <1>1, <1>3 DEF Fair
<1> QED BY <1>3, <1>4, <1>5, <1>6, <1>2, <1>1

LEMMA FairNext ==
  ASSUME IsInjective(fused'.hits), Len(fused'.hits) <= fused'.limit,
         Len(fused'.hits) >= Min({fused'.limit,
                                  Cardinality(Listed(fused'.of))}),
         Fair(fused'.of, fused'.hits)
  PROVE  FusedFairly'
<1>1. FusedToMeasure'
  BY DEF FusedToMeasure, Listed, IsInjective
<1>2. Fair(fused.of, fused.hits)'
  BY DEF Fair, Listed, Above, Once, ToSet
<1> QED BY <1>1, <1>2 DEF FusedFairly

LEMMA FusionFair ==
  ASSUME IInv, NEW label, NEW of \in Seq(Seq(Lasting)), NEW n \in Nat,
         Fusion(label, of, n)
  PROVE  FusedFairly'
<1>1. PICK hits \in Fuse(of, n) :
        fused' = [of |-> of, limit |-> n, hits |-> hits]
  BY DEF Fusion
<1>2. /\ hits \in Seq(Lasting) /\ Len(hits) <= n /\ IsInjective(hits)
      /\ Len(hits) = Min({n, Cardinality(Listed(of))})
  BY <1>1, FuseIs
<1>3. Fair(of, hits)
  BY <1>1, FuseIsFair
<1>4. fused'.of = of /\ fused'.limit = n /\ fused'.hits = hits
  BY <1>1
<1>5. Len(hits) >= Min({n, Cardinality(Listed(of))}) /\ IsInjective(hits)
  BY <1>2
<1> QED BY <1>2, <1>3, <1>4, <1>5, FairNext

\* The edges only fill up.
LEMMA FuseLocalFair ==
  ASSUME IInv, FuseLocal
  PROVE  FusedFairly'
<1>1. PICK hits \in Fuse(parts, Asked) :
        \E all \in AppendEdges(hits, Asked) :
          fused' = [of |-> parts, limit |-> Asked, hits |-> all]
  BY DEF FuseLocal
<1>2. PICK all \in AppendEdges(hits, Asked) :
        fused' = [of |-> parts, limit |-> Asked, hits |-> all]
  BY <1>1
<1>3. /\ parts \in Seq(Seq(Lasting)) /\ edges \in Seq(Relation)
      /\ Asked \in Nat /\ Relation \subseteq Lasting
  BY LastingHolds, Limits DEF IInv, Found
<1>4. /\ hits \in Seq(Lasting) /\ Len(hits) <= Asked /\ IsInjective(hits)
      /\ Len(hits) = Min({Asked, Cardinality(Listed(parts))})
  BY <1>1, <1>3, FuseIs
<1>5. /\ Len(all) <= Asked /\ Len(all) >= Len(hits) /\ IsInjective(all)
  BY <1>2, <1>3, <1>4, AppendEdgesIs
<1>6. Fair(parts, all)
  BY <1>1, <1>2, <1>3, AppendedIsFair
<1>7. /\ fused'.of = parts /\ fused'.limit = Asked /\ fused'.hits = all
  BY <1>2
<1>8. Len(all) >= Min({Asked, Cardinality(Listed(parts))})
  BY <1>4, <1>5
<1> QED BY <1>5, <1>6, <1>7, <1>8, FairNext

LEMMA FairKeeps ==
  ASSUME IInv, FusedFairly, [Next]_vars
  PROVE  FusedFairly'
<1>1. /\ lists \in Seq(Seq(Lasting)) /\ parts \in Seq(Seq(Lasting))
      /\ answers \in Seq(Seq(Lasting))
  BY DEF IInv, Found
<1>2. CASE fused' = fused
  BY <1>2, FairNext DEF FusedFairly, FusedToMeasure
<1>3. CASE fused' = NoFusion
  BY <1>3, NoFusionIsFair, FairNext
<1>4. CASE \/ \E w \in Writer, d \in Document :
                \/ PurgeDocument(w, d) \/ IngestDocument(w, d)
                \/ RestoreDocument(w, d) \/ ReingestDocument(w, d)
           \/ \E w \in Writer :
                \/ ClearEmbeddings(w) \/ DeleteVertices(w) \/ DeleteRows(w)
                \/ InsertTombstone(w) \/ MarkPurged(w)
                \/ ClearTombstone(w) \/ SetIngestState(w)
                \/ CheckTombstone(w) \/ RecheckPurged(w)
                \/ UpsertChunks(w) \/ WriterEnds(w)
           \/ Aggregate \/ \E c \in Chunk : UpsertMentions(c)
  <2>1. fused' = fused
    BY <1>4
    DEF PurgeDocument, IngestDocument, RestoreDocument, ReingestDocument, Begin,
        ClearEmbeddings, DeleteVertices, DeleteRows, InsertTombstone,
        MarkPurged, ClearTombstone, SetIngestState, CheckTombstone,
        RecheckPurged, UpsertChunks,
        WriterStep, WriterEnds, Aggregate, UpsertMentions, search
  <2> QED BY <1>2, <2>1
<1>5. CASE \/ \E m \in Modes, n \in 1..Followups : KnowledgeSearch(m, n)
           \/ SearchFts \/ SearchVector \/ SearchEntities
           \/ SearchEntitiesVector \/ SearchWiki \/ SearchWikiVector
           \/ ExpandNeighborhood \/ GetChunksForEntities \/ GetChunksByIds
           \/ Raise
  <2>1. fused' = NoFusion
    BY <1>5
    DEF KnowledgeSearch, SearchFts, SearchVector, SearchEntities,
        SearchEntitiesVector, SearchWiki, SearchWikiVector, Query,
        ExpandNeighborhood, GetChunksForEntities, GetChunksByIds, TakeChunks,
        Raise
  <2> QED BY <1>3, <2>1
<1>6. CASE FuseSeeds \/ FusePart \/ FuseBasic \/ FuseDrift
  BY <1>1, <1>6, FusionFair, Limits
  DEF FuseSeeds, FusePart, FuseBasic, FuseDrift
<1>7. CASE FuseGlobal
  BY <1>1, <1>7, FusionFair, Limits DEF FuseGlobal
<1>8. CASE UNCHANGED vars
  BY <1>2, <1>8 DEF vars, search
<1> QED BY <1>4, <1>5, <1>6, <1>7, <1>8, FuseLocalFair DEF Next

\* FusedFairly: reciprocal_rank_fusion (rag/rrf.py), whose result search_local
\* fills up with edges (modes/local.py), gives what is asked for as far as the
\* rankings go, never more and no hit twice, and lets nothing stand before, or
\* in place of, what was above it in every ranking that had it: however long
\* the rankings, whatever k, and however the ties fall.
THEOREM FusionsFair == Spec => []FusedFairly
<1>1. Init => FusedFairly
  BY NoFusionIsFair DEF Init, FusedFairly, FusedToMeasure
<1>2. IInv /\ FusedFairly /\ [Next]_vars => FusedFairly'
  BY FairKeeps
<1> QED BY <1>1, <1>2, Invariance, PTL DEF Spec
===============================================================================
