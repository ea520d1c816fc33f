--------------------------- MODULE RawFilesProofs ---------------------------
(***************************************************************************)
(* The theorems about RawFiles, for any number of documents, file names,   *)
(* batches and workers and any mix of operations: IInv is inductive, and   *)
(* with it a row has its file, no file is lost from sight and a buried     *)
(* document is blocked.                                                    *)
(*                                                                         *)
(* A worker only writes what concerns the documents of its operation.  On  *)
(* a document that is not contended either it is alone, or everyone there  *)
(* stores: puts files and inserts rows, and takes nothing away.  So a step *)
(* is sound when it keeps IInv about its own files; Composing says that a  *)
(* sound step preserves IInv.                                              *)
(***************************************************************************)
EXTENDS RawInvariant, TLAPS

\* A file is a document and a name.
LEMMA FileParts ==
  /\ \A f \in File : f[1] \in Doc /\ f[2] \in Name /\ f = <<f[1], f[2]>>
  /\ \A d \in Doc, n \in Name : /\ <<d, n>> \in File
                                /\ <<d, n>>[1] = d /\ <<d, n>>[2] = n
  BY DEF File

\* LabelsOf, operation by operation.
LEMMA LabelsOfOp ==
  /\ LabelsOf("upload") = {"gate", "put", "upsert", "recheck", "insert"}
  /\ LabelsOf("ingest") =
       {"load", "gate", "upsert", "recheck", "insert", "settle"}
  /\ LabelsOf("collect") = {"put", "write"}
  /\ LabelsOf("build") = {"write"}
  /\ \A o \in PurgeOps : LabelsOf(o) = {"begin", "shred", "bury", "mark"}
  /\ LabelsOf("restore") = {"unbury", "revive"}
  /\ \A o \in CleanupOps : LabelsOf(o) = {"list_docs", "list_raw", "delete"}
  /\ LabelsOf("none") = {"idle"}
  /\ \A o \in AllOps \cup {"none"} : LabelsOf(o) \subseteq Labels
  BY DEF LabelsOf, PurgeOps, CleanupOps, AllOps, Labels


\* The documents an operation concerns.
LEMMA ConcernsOf ==
  ASSUME NEW w \in Worker, NEW d \in Doc
  PROVE  /\ op[w] \in CleanupOps => Concerns(w, d)
         /\ op[w] \notin CleanupOps =>
              (Concerns(w, d) <=> \E f \in items[w] : d = f[1])
  BY DEF Concerns, About

\* The two halves of the type invariant.
Processes ==
  /\ pc \in [Worker -> Labels]
  /\ op \in [Worker -> AllOps \cup {"none"}]
  /\ items \in [Worker -> SUBSET File]
  /\ todo \in [Worker -> SUBSET File]
  /\ batches \in [Worker -> SUBSET Batch]
  /\ seen \in [Worker -> BOOLEAN]

Stores ==
  /\ raw \subseteq File
  /\ state \in [Doc -> States]
  /\ uri \in [Doc -> Name \cup {NoName}]
  /\ \A d \in Doc : state[d] = "none" <=> uri[d] = NoName
  /\ tombstones \subseteq Doc /\ shredded \subseteq Doc
  /\ contended \subseteq Doc /\ manifests \subseteq Batch
  /\ lines \in [Batch -> SUBSET File]
  /\ crashes \in 0..MaxCrashes

\* The type invariant is the sum of its halves.
LEMMA TypeParts == TypeOK <=> Processes /\ Stores
  BY DEF TypeOK, Processes, Stores

\* A step of w leaves what the other workers hold alone.
Bystanders(w) ==
  \A v \in Worker \ {w} :
    /\ pc'[v] = pc[v] /\ op'[v] = op[v]
    /\ items'[v] = items[v] /\ todo'[v] = todo[v]
    /\ batches'[v] = batches[v] /\ seen'[v] = seen[v]

\* The ways a step of w leaves its control.
Going(w, l) ==
  /\ pc'[w] = l /\ op'[w] = op[w] /\ items'[w] = items[w]
  /\ batches'[w] = batches[w] /\ seen'[w] = seen[w]

Ending(w) ==
  /\ pc'[w] = "idle" /\ op'[w] = "none" /\ items'[w] = {} /\ todo'[w] = {}
  /\ batches'[w] = {} /\ seen'[w] = FALSE

Failing(w) ==
  Ending(w) \/ (op[w] = "ingest" /\ Going(w, "load") /\ todo'[w] = todo[w])

\* Goto leaves the worker in its operation, whatever becomes of todo[w].
LEMMA GotoGoes ==
  ASSUME Processes, NEW w \in Worker, NEW l \in Labels, Goto(w, l),
         todo' \in [Worker -> SUBSET File],
         \A v \in Worker \ {w} : todo'[v] = todo[v]
  PROVE  Processes' /\ Bystanders(w) /\ Going(w, l)
  BY DEF Processes, Goto, Bystanders, Going

\* Finish leaves an idle worker.
LEMMA FinishEnds ==
  ASSUME Processes, NEW w \in Worker, Finish(w)
  PROVE  Processes' /\ Bystanders(w) /\ Ending(w)
<1>1. "idle" \in Labels
  BY DEF Labels
<1> QED BY <1>1 DEF Processes, Finish, Bystanders, Ending

\* A failed attempt ends the operation, or an ingest starts over.
LEMMA FailFails ==
  ASSUME Processes, NEW w \in Worker, Fail(w)
  PROVE  Processes' /\ Bystanders(w) /\ Failing(w)
<1>1. CASE Finish(w)
  BY <1>1, FinishEnds DEF Failing
<1>2. CASE op[w] = "ingest" /\ Goto(w, "load") /\ UNCHANGED todo
  <2>1. "load" \in Labels
    BY DEF Labels
  <2> QED BY <1>2, <2>1, GotoGoes DEF Failing, Processes
<1> QED BY <1>1, <1>2 DEF Fail

\* Nothing the invariant says of document e changes.
Untouched(e) ==
  /\ state'[e] = state[e] /\ uri'[e] = uri[e]
  /\ (e \in tombstones') <=> (e \in tombstones)
  /\ (e \in shredded') <=> (e \in shredded)
  /\ \A f \in File : f[1] = e => ((f \in raw') <=> (f \in raw))

\* What a sound step of w does to the documents.
Careful(w) ==
  /\ Stores' /\ contended' = contended
  /\ \A e \in Doc : state[e] # "none" => state'[e] # "none"
  /\ \A e \in Doc : ~Concerns(w, e) => Untouched(e)
  /\ op[w] \in Storers => tombstones' = tombstones /\ raw \subseteq raw'
  /\ \A e \in Doc \ contended : Concerns(w, e) => Content(e)'

\* To its own control.
Controlled(w) ==
  /\ Processes' /\ Bystanders(w) /\ Carrying(w)'
  /\ op'[w] \in {op[w], "none"} /\ batches'[w] \subseteq batches[w]
  /\ \A e \in Doc : Concerns(w, e)' => Concerns(w, e)
  /\ \A f \in File : f[1] \notin contended =>
       /\ f \in items'[w] => Knows(w, f)'
       /\ op'[w] \in CleanupOps => Sweeps(w, f)'

\* To the manifests.
Publishing(w) ==
  /\ \/ manifests' \subseteq manifests
     \/ op'[w] = "none" /\ manifests' \subseteq manifests \cup batches[w]
  /\ \A b \in manifests' : \A f \in lines'[b] :
       (b \in manifests /\ f \in lines[b]) \/ Listed(f)

\* And for whoever looks for a file, or waits for the row of one.
Passing(w) ==
  \A f \in File : f[1] \notin contended /\ crashes' = 0 =>
    /\ crashes = 0
    /\ f \in raw' \ raw => f \in items[w]
    /\ f \in raw' /\ f \in items[w] \cup todo[w] => Accounted(f)'
    /\ f \in raw' /\ (\E b \in manifests : f \in lines[b]) => Accounted(f)'
    /\ Writing(w, f) => Writing(w, f)' \/ Rowed(f)'
    /\ op'[w] = "upload" /\ seen'[w] => seen[w] /\ items'[w] = items[w]

Sound(w) ==
  Careful(w) /\ Controlled(w) /\ Publishing(w) /\ Passing(w)

\* Rows stay.
LEMMA RowsStay ==
  ASSUME NEW w \in Worker, Careful(w), NEW f \in File
  PROVE  (Rowed(f) => Rowed(f)') /\ (Listed(f) => Listed(f)')
  BY FileParts DEF Careful, Rowed, Listed

\* What the invariant says of an untouched document stays true of it.
LEMMA Untouching ==
  ASSUME Stores, NEW e \in Doc, Untouched(e), Content(e)
  PROVE  Content(e)'
<1>1. state[e] # "none" => <<e, uri[e]>> \in File /\ <<e, uri[e]>>[1] = e
  BY FileParts DEF Stores
<1> QED BY <1>1 DEF Untouched, Content

\* Who shares a document with w stores, like w.
LEMMA Sharing ==
  ASSUME IInv, NEW w \in Worker, NEW v \in Worker \ {w},
         NEW e \in Doc \ contended, Concerns(v, e)
  PROVE  ~Concerns(w, e) \/ (op[v] \in Storers /\ op[w] \in Storers)
  BY DEF IInv, Exclusion

\* A sound step of w keeps what v may hold.
LEMMA CarryingKept ==
  ASSUME IInv, NEW w \in Worker, Careful(w), Controlled(w),
         NEW v \in Worker \ {w}
  PROVE  Carrying(v)'
<1>1. /\ pc'[v] = pc[v] /\ op'[v] = op[v]
      /\ items'[v] = items[v] /\ todo'[v] = todo[v]
      /\ batches'[v] = batches[v] /\ seen'[v] = seen[v]
  BY DEF Controlled, Bystanders
<1>2. Carrying(v) /\ items[v] \subseteq File
  BY DEF IInv, TypeOK
<1>3. \A f \in items[v] : (Rowed(f) => Rowed(f)') /\ (Listed(f) => Listed(f)')
  BY <1>2, RowsStay
<1> QED BY <1>1, <1>2, <1>3 DEF Carrying

\* And what v knows.
LEMMA KnowsKept ==
  ASSUME IInv, NEW w \in Worker, Careful(w), Controlled(w),
         NEW v \in Worker \ {w}, NEW f \in items[v], f[1] \notin contended
  PROVE  Knows(v, f)'
<1>1. /\ pc'[v] = pc[v] /\ op'[v] = op[v] /\ op[v] \in AllOps \cup {"none"}
      /\ pc[v] \in LabelsOf(op[v]) /\ f \in File /\ f[1] \in Doc
  BY FileParts DEF Controlled, Bystanders, IInv, TypeOK, Carrying
<1>2. Knows(v, f)
  BY <1>1 DEF IInv
<1>3. CASE Untouched(f[1])
  BY <1>1, <1>2, <1>3 DEF Untouched, Knows, Rowed
<1>4. CASE op[v] \in Storers /\ op[w] \in Storers
  <2>1. /\ tombstones' = tombstones /\ raw \subseteq raw'
        /\ Rowed(f) => Rowed(f)'
    BY <1>1, <1>4, RowsStay DEF Careful
  <2>2. pc[v] \notin {"begin", "shred", "bury", "mark", "revive"}
    BY <1>1, <1>4, LabelsOfOp DEF Storers
  <2> QED BY <1>1, <1>2, <2>1, <2>2 DEF Knows
<1>5. CASE op[v] \in CleanupOps
  <2>1. pc[v] \in {"list_docs", "list_raw", "delete"}
    BY <1>1, <1>5, LabelsOfOp
  <2> QED BY <1>1, <1>5, <2>1 DEF Knows, Storers, CleanupOps
<1>6. CASE op[v] \notin CleanupOps
  <2>1. Concerns(v, f[1])
    BY <1>1, <1>6, ConcernsOf
  <2>2. ~Concerns(w, f[1]) => Untouched(f[1])
    BY <1>1 DEF Careful
  <2> QED BY <1>1, <1>3, <1>4, <2>1, <2>2, Sharing
<1> QED BY <1>5, <1>6

\* And what v has listed.
LEMMA SweepsKept ==
  ASSUME IInv, NEW w \in Worker, Careful(w), Controlled(w),
         NEW v \in Worker \ {w}, NEW f \in File, f[1] \notin contended,
         op[v] \in CleanupOps
  PROVE  Sweeps(v, f)'
<1>1. /\ pc'[v] = pc[v] /\ op'[v] = op[v] /\ f[1] \in Doc
      /\ items'[v] = items[v] /\ todo'[v] = todo[v]
  BY FileParts DEF Controlled, Bystanders
<1>2. Sweeps(v, f)
  BY DEF IInv
<1>3. Untouched(f[1])
  <2>1. Concerns(v, f[1])
    BY <1>1, ConcernsOf
  <2>2. ~Concerns(w, f[1])
    BY <1>1, <2>1, Sharing DEF Storers, CleanupOps
  <2> QED BY <1>1, <2>2 DEF Careful
<1> QED BY <1>1, <1>2, <1>3 DEF Untouched, Sweeps, Rowed

\* A file that somebody saw to is seen to after a sound step.
LEMMA AccountedKept ==
  ASSUME IInv, NEW w \in Worker, Sound(w), NEW f \in raw',
         f[1] \notin contended, crashes' = 0
  PROVE  Accounted(f)'
<1>1. /\ f \in File /\ crashes = 0 /\ Careful(w)
      /\ f \in raw' \ raw => f \in items[w]
      /\ f \in items[w] \cup todo[w] => Accounted(f)'
      /\ (\E b \in manifests : f \in lines[b]) => Accounted(f)'
  BY DEF Sound, Passing, Careful, Stores
<1>2. CASE f \notin raw
  BY <1>1, <1>2
<1>3. CASE f \in raw
  <2>1. Accounted(f)
    BY <1>1, <1>3 DEF IInv
  <2>2. CASE Rowed(f)
    BY <1>1, <2>2, RowsStay DEF Accounted
  <2>3. ASSUME NEW v \in Worker, f \in items[v] \cup todo[v]
        PROVE  Accounted(f)'
    <3>1. CASE v = w
      BY <1>1, <2>3, <3>1
    <3>2. CASE v # w
      BY <2>3, <3>2 DEF Sound, Controlled, Bystanders, Accounted
    <3> QED BY <3>1, <3>2
  <2> QED BY <1>1, <2>1, <2>2, <2>3 DEF Accounted
<1> QED BY <1>2, <1>3

\* A skipped row is written by another after a sound step.
LEMMA SkipsKept ==
  ASSUME IInv, NEW w \in Worker, Sound(w), NEW f \in File,
         f[1] \notin contended, crashes' = 0, NEW v \in Worker
  PROVE  Skips(v, f)'
<1> SUFFICES ASSUME op'[v] = "upload", seen'[v], f \in items'[v]
             PROVE  Rowed(f)' \/ \E u \in Worker \ {v} : Writing(u, f)'
  BY DEF Skips
<1>1. /\ crashes = 0 /\ Careful(w) /\ Bystanders(w)
      /\ Writing(w, f) => Writing(w, f)' \/ Rowed(f)'
  BY DEF Sound, Passing, Controlled
<1>2. op[v] = "upload" /\ seen[v] /\ f \in items[v]
  <2>1. CASE v = w
    BY <2>1 DEF Sound, Passing, Controlled
  <2>2. CASE v # w
    BY <1>1, <2>2 DEF Bystanders
  <2> QED BY <2>1, <2>2
<1>3. Rowed(f) \/ \E u \in Worker \ {v} : Writing(u, f)
  BY <1>1, <1>2 DEF IInv, Skips
<1>4. CASE Rowed(f)
  BY <1>1, <1>4, RowsStay
<1>5. ASSUME NEW u \in Worker \ {v}, Writing(u, f)
      PROVE  Writing(u, f)' \/ Rowed(f)'
  BY <1>1, <1>5 DEF Bystanders, Writing
<1> QED BY <1>3, <1>4, <1>5

\* A sound step of one worker preserves the inductive invariant.
LEMMA Composing ==
  ASSUME IInv, NEW w \in Worker, Sound(w)
  PROVE  IInv'
<1>1. Careful(w) /\ Controlled(w) /\ Bystanders(w) /\ contended' = contended
  BY DEF Sound, Careful, Controlled
<1>2. TypeOK'
  BY <1>1 DEF Careful, Controlled, TypeOK, Stores, Processes
<1>3. \A v \in Worker : Carrying(v)'
  BY <1>1, CarryingKept DEF Controlled
<1>4. \A v \in Worker : Owning(v)'
  <2> SUFFICES ASSUME NEW v \in Worker, op'[v] \in {"collect", "build"},
                      NEW b \in batches'[v]
               PROVE  b \notin manifests'
                      /\ \A u \in Worker \ {v} : b \notin batches'[u]
    BY DEF Owning
  <2>1. op[v] = op'[v] /\ batches'[v] \subseteq batches[v]
    BY <1>1 DEF Controlled, Bystanders
  <2>2. /\ b \notin manifests
        /\ \A u \in Worker \ {v} : b \notin batches[u]
    BY <2>1 DEF IInv, Owning
  <2>3. \A u \in Worker : batches'[u] \subseteq batches[u]
    BY <1>1 DEF Controlled, Bystanders
  <2>4. b \notin manifests'
    BY <2>1, <2>2 DEF Sound, Publishing
  <2> QED BY <2>2, <2>3, <2>4
<1>5. Manifested'
  <2> SUFFICES ASSUME NEW b \in manifests', NEW f \in lines'[b]
               PROVE  Listed(f)'
    BY DEF Manifested
  <2>1. f \in File
    BY <1>2 DEF TypeOK
  <2>2. Listed(f)
    BY DEF Sound, Publishing, IInv, Manifested
  <2> QED BY <1>1, <2>1, <2>2, RowsStay
<1>6. Exclusion'
  <2> SUFFICES ASSUME NEW u \in Worker, NEW v \in Worker, u # v,
                      NEW d \in Doc \ contended, Concerns(u, d)', Concerns(v, d)'
               PROVE  op'[u] \in Storers /\ op'[v] \in Storers
    BY <1>1 DEF Exclusion
  <2>1. ASSUME NEW x \in Worker, Concerns(x, d)'
        PROVE  Concerns(x, d) /\ op'[x] = op[x]
    <3>1. CASE x = w
      <4>1. op'[x] # "none"
        BY <1>3, <2>1 DEF Concerns, About, Carrying, CleanupOps
      <4> QED BY <1>1, <2>1, <3>1, <4>1 DEF Controlled
    <3>2. CASE x # w
      BY <1>1, <2>1, <3>2 DEF Bystanders, Concerns
    <3> QED BY <3>1, <3>2
  <2> QED BY <2>1 DEF IInv, Exclusion
<1>7. \A d \in Doc \ contended : Content(d)'
  <2> TAKE d \in Doc \ contended
  <2>1. Concerns(w, d) => Content(d)'
    BY <1>1 DEF Careful
  <2>2. ~Concerns(w, d) => Untouched(d) /\ Stores /\ Content(d)
    BY <1>1, TypeParts DEF Careful, IInv
  <2> QED BY <2>1, <2>2, Untouching
<1>8. ASSUME NEW f \in File, f[1] \notin contended, NEW v \in Worker
      PROVE  /\ f \in items'[v] => Knows(v, f)'
             /\ op'[v] \in CleanupOps => Sweeps(v, f)'
             /\ crashes' = 0 => Skips(v, f)'
  <2>1. CASE v = w
    BY <1>1, <1>8, <2>1, SkipsKept DEF Controlled
  <2>2. CASE v # w
    BY <1>1, <1>8, <2>2, SkipsKept, KnowsKept, SweepsKept DEF Bystanders
  <2> QED BY <2>1, <2>2
<1>9. \A f \in raw' : f[1] \notin contended /\ crashes' = 0 => Accounted(f)'
  BY AccountedKept
<1> QED
  BY <1>1, <1>2, <1>3, <1>4, <1>5, <1>6, <1>7, <1>8, <1>9 DEF IInv

-----------------------------------------------------------------------------
(* Kinds of steps.                                                         *)

\* Where a worker is tells which operation it may be running.
LEMMA OpAt ==
  ASSUME IInv, NEW w \in Worker
  PROVE  /\ pc[w] # "idle" => op[w] \in AllOps
         /\ pc[w] = "gate" => op[w] \in {"upload", "ingest"}
         /\ pc[w] \in {"upsert", "recheck", "insert"} =>
              op[w] \in {"upload", "ingest"}
         /\ pc[w] \in {"load", "settle"} => op[w] = "ingest"
         /\ pc[w] = "put" => op[w] \in {"upload", "collect"}
         /\ pc[w] = "write" => op[w] \in {"collect", "build"}
         /\ pc[w] \in {"begin", "shred", "bury", "mark"} => op[w] \in PurgeOps
         /\ pc[w] \in {"unbury", "revive"} => op[w] = "restore"
         /\ pc[w] \in {"list_docs", "list_raw", "delete"} =>
              op[w] \in CleanupOps
<1>1. pc[w] \in LabelsOf(op[w]) /\ op[w] \in AllOps \cup {"none"}
  BY DEF IInv, Carrying, TypeOK
<1> QED BY <1>1, LabelsOfOp DEF AllOps

\* The three families of operations.
LEMMA Families ==
  /\ AllOps = Storers \cup Exclusive
  /\ Storers \cap Exclusive = {} /\ Storers \cap CleanupOps = {}
  /\ PurgeOps \cap CleanupOps = {} /\ "restore" \notin CleanupOps
  /\ PurgeOps \cap Storers = {} /\ "restore" \notin Storers
  /\ "none" \notin AllOps
  BY DEF AllOps, Storers, Exclusive, PurgeOps, CleanupOps

\* A step that writes no store.
LEMMA UnwrittenCareful ==
  ASSUME IInv, NEW w \in Worker, crashes' \in 0..MaxCrashes,
         UNCHANGED <<storeVars, shredded, contended>>
  PROVE  Careful(w)
<1> USE DEF storeVars
<1>1. Stores /\ Stores'
  BY TypeParts DEF IInv, Stores
<1>2. \A e \in Doc : Untouched(e)
  BY DEF Untouched
<1>3. \A e \in Doc \ contended : Content(e)'
  BY <1>1, <1>2, Untouching DEF IInv
<1> QED BY <1>1, <1>2, <1>3 DEF Careful

\* A step that writes about one of the files of w.
LEMMA OneCareful ==
  ASSUME IInv, NEW w \in Worker, op[w] \in AllOps \ CleanupOps,
         NEW f \in items[w], Stores', contended' = contended,
         Rowed(f) => Rowed(f)',
         \A e \in Doc \ {f[1]} : Untouched(e),
         op[w] \in Storers => tombstones' = tombstones /\ raw \subseteq raw',
         f[1] \notin contended => Content(f[1])'
  PROVE  Careful(w)
<1>1. Stores /\ f \in File /\ f[1] \in Doc /\ Concerns(w, f[1])
  BY FileParts, TypeParts, ConcernsOf DEF IInv, TypeOK
<1>2. \A e \in Doc : state[e] # "none" => state'[e] # "none"
  BY <1>1 DEF Rowed, Untouched
<1>3. \A e \in Doc \ contended : Content(e)'
  BY <1>1, Untouching DEF IInv
<1> QED BY <1>1, <1>2, <1>3 DEF Careful

\* A step to the next call of an operation that is no cleanup.
LEMMA GoingSound ==
  ASSUME IInv, NEW w \in Worker, Careful(w), Processes', Bystanders(w),
         op[w] \in AllOps \ CleanupOps, NEW l \in LabelsOf(op[w]), Going(w, l),
         \/ todo'[w] = todo[w]
         \/ op[w] = "collect" /\ todo'[w] \subseteq todo[w],
         UNCHANGED <<manifests, lines, crashes>>, raw' \ raw \subseteq items[w],
         \A f \in items[w] : f[1] \notin contended => Knows(w, f)',
         l = "settle" => \A f \in items[w] : Rowed(f)'
  PROVE  Sound(w)
<1>1. Carrying(w)'
  <2>1. Carrying(w) /\ items[w] \subseteq File
    BY DEF IInv, TypeOK
  <2>2. \A f \in items[w] : (Rowed(f) => Rowed(f)') /\ (Listed(f) => Listed(f)')
    BY <2>1, RowsStay
  <2>3. l \notin {"list_docs", "list_raw"} /\ op[w] # "none"
    BY LabelsOfOp, Families DEF AllOps
  <2> QED BY <2>1, <2>2, <2>3 DEF Carrying, Going
<1>2. Controlled(w)
  <2>1. \A e \in Doc : Concerns(w, e)' => Concerns(w, e)
    BY DEF Going, Concerns
  <2> QED BY <1>1, <2>1 DEF Controlled, Going
<1>3. Publishing(w)
  BY DEF Publishing
<1>4. Passing(w)
  <2> SUFFICES ASSUME NEW f \in File
               PROVE  /\ f \in items[w] \cup todo[w] => Accounted(f)'
                      /\ (\E b \in manifests : f \in lines[b]) => Accounted(f)'
                      /\ Writing(w, f) => Writing(w, f)'
                      /\ seen'[w] => seen[w] /\ items'[w] = items[w]
    BY DEF Passing
  <2>1. f \in items[w] \cup todo[w] => f \in items'[w] \cup todo'[w]
    BY DEF Going, IInv, Carrying
  <2> QED BY <2>1 DEF Accounted, Writing, Going
<1> QED BY <1>2, <1>3, <1>4 DEF Sound

\* A step that ends the operation, or a failed attempt, knows nothing.
LEMMA FailingControlled ==
  ASSUME IInv, NEW w \in Worker, Careful(w), Processes', Bystanders(w),
         op[w] \in AllOps, Failing(w)
  PROVE  Controlled(w)
<1>1. Carrying(w)'
  <2>1. CASE Ending(w)
    BY <2>1, LabelsOfOp DEF Ending, Carrying, PurgeOps, CleanupOps
  <2>2. CASE op[w] = "ingest" /\ Going(w, "load") /\ todo'[w] = todo[w]
    <3>1. Carrying(w) /\ items[w] \subseteq File
      BY DEF IInv, TypeOK
    <3>2. \A f \in items[w] : Listed(f) => Listed(f)'
      BY <3>1, RowsStay
    <3> QED
      BY <2>2, <3>1, <3>2, LabelsOfOp
      DEF Carrying, Going, PurgeOps, CleanupOps
  <2> QED BY <2>1, <2>2 DEF Failing
<1>2. \A e \in Doc : Concerns(w, e)' => Concerns(w, e)
  BY DEF Failing, Going, Ending, Concerns, About, CleanupOps
<1>3. op'[w] \notin CleanupOps
  BY DEF Failing, Going, Ending, CleanupOps
<1>4. \A f \in items'[w] : Knows(w, f)'
  BY DEF Failing, Going, Ending, Knows
<1> QED BY <1>1, <1>2, <1>3, <1>4 DEF Controlled, Failing, Going, Ending

\* It leaves no file behind that nobody sees to.
LEMMA FailingSound ==
  ASSUME IInv, NEW w \in Worker, Careful(w), Processes', Bystanders(w),
         op[w] \in AllOps, Failing(w),
         UNCHANGED <<manifests, lines>>, raw' \ raw \subseteq items[w],
         crashes' = 0 => crashes = 0,
         \A f \in items[w] \cup todo[w] :
           f[1] \notin contended /\ crashes' = 0 /\ f \in raw' => Accounted(f)',
         \A f \in items[w] :
           f[1] \notin contended /\ crashes' = 0 /\ Writing(w, f) => Rowed(f)'
  PROVE  Sound(w)
<1>1. Publishing(w)
  BY DEF Publishing
<1>2. Passing(w)
  <2> SUFFICES ASSUME NEW f \in File, f[1] \notin contended, crashes' = 0
               PROVE  /\ f \in raw' /\ f \in items[w] \cup todo[w] => Accounted(f)'
                      /\ (\E b \in manifests : f \in lines[b]) => Accounted(f)'
                      /\ Writing(w, f) => Writing(w, f)' \/ Rowed(f)'
                      /\ op'[w] # "upload"
    BY DEF Passing
  <2>1. Writing(w, f) => f \in items[w]
    BY DEF Writing
  <2> QED BY <2>1 DEF Accounted, Failing, Going, Ending
<1> QED BY <1>1, <1>2, FailingControlled DEF Sound

-----------------------------------------------------------------------------
(* Uploads, collectors, builds and ingests.                                *)

\* A buried document ends an upload or an ingest; its row says it is gone.
LEMMA CheckTombstoneSound ==
  ASSUME IInv, NEW w \in Worker, NEW f \in File, CheckTombstone(w, f)
  PROVE  Sound(w)
<1>1. /\ pc[w] \in {"gate", "upsert"} /\ items[w] = {f} /\ Processes
      /\ op[w] \in {"upload", "ingest"} /\ op[w] \in AllOps \ CleanupOps
      /\ crashes' \in 0..MaxCrashes /\ crashes' = crashes
      /\ UNCHANGED <<storeVars, shredded, contended>>
      /\ f[1] \in Doc
  BY OpAt, FileParts, TypeParts
  DEF CheckTombstone, At, AllOps, CleanupOps, IInv, TypeOK, envVars
<1>2. Careful(w)
  BY <1>1, UnwrittenCareful
<1>3. CASE f[1] \in tombstones
  <2>1. Processes' /\ Bystanders(w) /\ Failing(w)
    BY <1>1, <1>3, FailFails DEF CheckTombstone
  <2>2. todo[w] = {}
    BY <1>1 DEF IInv, Carrying, CleanupOps
  <2>3. f[1] \notin contended => Rowed(f) /\ Rowed(f)'
    <3>1. f[1] \notin contended => Rowed(f)
      BY <1>1, <1>3 DEF IInv, Content, Rowed
    <3> QED BY <1>2, <3>1, RowsStay
  <2> QED
    BY <1>1, <1>2, <2>1, <2>2, <2>3, FailingSound DEF storeVars, Accounted
<1>4. CASE f[1] \notin tombstones
  <2> DEFINE l == CASE pc[w] = "upsert" -> "recheck"
                    [] op[w] = "upload" -> "put"
                    [] OTHER            -> "upsert"
  <2>1. l \in LabelsOf(op[w]) /\ l \in Labels /\ l \in {"recheck", "put", "upsert"}
    BY <1>1, LabelsOfOp DEF Labels
  <2>2. Goto(w, l) /\ UNCHANGED todo
    BY <1>4 DEF CheckTombstone
  <2> HIDE DEF l
  <2>3. Processes' /\ Bystanders(w) /\ Going(w, l)
    BY <1>1, <2>1, <2>2, GotoGoes DEF Processes
  <2>4. f[1] \notin contended => Knows(w, f)'
    <3>1. f[1] \notin contended => Knows(w, f)
      BY <1>1 DEF IInv
    <3> QED BY <1>1, <1>4, <2>1, <2>3, <3>1 DEF Knows, Going, storeVars, l
  <2> QED
    BY <1>1, <1>2, <2>1, <2>2, <2>3, <2>4, GoingSound DEF storeVars
<1> QED BY <1>3, <1>4

\* The raw file is read at the head of an ingest.
LEMMA LoadRawSound ==
  ASSUME IInv, NEW w \in Worker, NEW f \in File, LoadRaw(w, f)
  PROVE  Sound(w)
<1>1. /\ pc[w] = "load" /\ items[w] = {f} /\ Processes
      /\ op[w] = "ingest" /\ op[w] \in AllOps \ CleanupOps
      /\ crashes' \in 0..MaxCrashes /\ crashes' = crashes
      /\ UNCHANGED <<storeVars, shredded, contended>>
  BY OpAt, TypeParts
  DEF LoadRaw, At, AllOps, CleanupOps, IInv, TypeOK, envVars
<1>2. Careful(w)
  BY <1>1, UnwrittenCareful
<1>3. CASE f \notin raw
  <2>1. Processes' /\ Bystanders(w) /\ Failing(w)
    BY <1>1, <1>3, FailFails DEF LoadRaw
  <2>2. todo[w] = {}
    BY <1>1 DEF IInv, Carrying, CleanupOps
  <2> QED
    BY <1>1, <1>2, <1>3, <2>1, <2>2, FailingSound DEF storeVars, Writing
<1>4. CASE f \in raw
  <2>1. "gate" \in LabelsOf(op[w]) /\ "gate" \in Labels
    BY <1>1, LabelsOfOp DEF Labels
  <2>2. Goto(w, "gate") /\ UNCHANGED todo
    BY <1>4 DEF LoadRaw
  <2>3. Processes' /\ Bystanders(w) /\ Going(w, "gate")
    BY <1>1, <2>1, <2>2, GotoGoes DEF Processes
  <2>4. Knows(w, f)'
    BY <1>1, <1>4, <2>3 DEF Knows, Going, storeVars
  <2> QED
    BY <1>1, <1>2, <2>1, <2>2, <2>3, <2>4, GoingSound DEF storeVars
<1> QED BY <1>3, <1>4

\* A purged document is refused; it has a row.
LEMMA RecheckPurgedSound ==
  ASSUME IInv, NEW w \in Worker, NEW f \in File, RecheckPurged(w, f)
  PROVE  Sound(w)
<1>1. /\ pc[w] = "recheck" /\ items[w] = {f} /\ Processes
      /\ op[w] \in {"upload", "ingest"} /\ op[w] \in AllOps \ CleanupOps
      /\ crashes' \in 0..MaxCrashes /\ crashes' = crashes
      /\ UNCHANGED <<storeVars, shredded, contended>>
  BY OpAt, TypeParts
  DEF RecheckPurged, At, AllOps, CleanupOps, IInv, TypeOK, envVars
<1>2. Careful(w)
  BY <1>1, UnwrittenCareful
<1>3. CASE state[f[1]] = "purged"
  <2>1. Processes' /\ Bystanders(w) /\ Failing(w)
    BY <1>1, <1>3, FailFails DEF RecheckPurged
  <2>2. todo[w] = {}
    BY <1>1 DEF IInv, Carrying, CleanupOps
  <2>3. Rowed(f)'
    BY <1>1, <1>3 DEF Rowed, storeVars
  <2> QED
    BY <1>1, <1>2, <2>1, <2>2, <2>3, FailingSound DEF storeVars, Accounted
<1>4. CASE state[f[1]] # "purged"
  <2>1. "insert" \in LabelsOf(op[w]) /\ "insert" \in Labels
    BY <1>1, LabelsOfOp DEF Labels
  <2>2. Goto(w, "insert") /\ UNCHANGED todo
    BY <1>4 DEF RecheckPurged
  <2>3. Processes' /\ Bystanders(w) /\ Going(w, "insert")
    BY <1>1, <2>1, <2>2, GotoGoes DEF Processes
  <2>4. f[1] \notin contended => Knows(w, f)'
    <3>1. f[1] \notin contended => Knows(w, f)
      BY <1>1 DEF IInv
    <3> QED BY <1>1, <2>3, <3>1 DEF Knows, Going, storeVars
  <2> QED
    BY <1>1, <1>2, <2>1, <2>2, <2>3, <2>4, GoingSound DEF storeVars
<1> QED BY <1>3, <1>4

\* A file that is put is one more file.
LEMMA PutCareful ==
  ASSUME IInv, NEW w \in Worker, op[w] \in Storers, NEW f \in items[w],
         raw' = raw \cup {f},
         UNCHANGED <<state, uri, tombstones, manifests, lines, envVars>>
  PROVE  Careful(w)
<1>1. f \in File /\ f[1] \in Doc /\ op[w] \in AllOps \ CleanupOps
  BY FileParts, Families DEF IInv, TypeOK
<1>2. Stores'
  BY <1>1, TypeParts DEF IInv, Stores, envVars
<1>3. \A e \in Doc \ {f[1]} : Untouched(e)
  BY DEF Untouched, envVars
<1>4. f[1] \notin contended => Content(f[1])'
  BY <1>1 DEF IInv, Content, envVars
<1>5. Rowed(f)' = Rowed(f)
  BY DEF Rowed
<1> QED BY <1>1, <1>2, <1>3, <1>4, <1>5, OneCareful DEF envVars

\* An upload puts its file; it skips the row of one that was there, which is
\* accounted for as Skips says.
LEMMA PutUploadSound ==
  ASSUME IInv, NEW w \in Worker, NEW f \in File, PutUpload(w, f)
  PROVE  Sound(w)
<1>1. /\ pc[w] = "put" /\ items[w] = {f} /\ Processes
      /\ op[w] = "upload" /\ op[w] \in AllOps \ CleanupOps /\ f[1] \in Doc
      /\ raw' = raw \cup {f} /\ crashes' = crashes /\ contended' = contended
      /\ UNCHANGED <<state, tombstones, manifests, lines>>
  BY TypeParts, FileParts
  DEF PutUpload, At, AllOps, CleanupOps, IInv, TypeOK, envVars
<1>2. Careful(w)
  BY <1>1, PutCareful DEF PutUpload, Storers
<1>3. CASE seen[w]
  <2>1. Processes' /\ Bystanders(w) /\ Failing(w)
    BY <1>1, <1>3, FinishEnds DEF PutUpload, Failing
  <2>2. todo[w] = {}
    BY <1>1 DEF IInv, Carrying, CleanupOps
  <2>3. f[1] \notin contended /\ crashes = 0 => Accounted(f)'
    <3> SUFFICES ASSUME f[1] \notin contended, crashes = 0 PROVE Accounted(f)'
      OBVIOUS
    <3>1. Rowed(f) \/ \E v \in Worker \ {w} : Writing(v, f)
      BY <1>1, <1>3 DEF IInv, Skips
    <3>2. CASE Rowed(f)
      BY <1>2, <3>2, RowsStay DEF Accounted
    <3>3. ASSUME NEW v \in Worker \ {w}, Writing(v, f)
          PROVE  Accounted(f)'
      BY <2>1, <3>3 DEF Bystanders, Writing, Accounted
    <3> QED BY <3>1, <3>2, <3>3
  <2> QED
    BY <1>1, <1>2, <1>3, <2>1, <2>2, <2>3, FailingSound DEF Writing
<1>4. CASE ~seen[w]
  <2>1. "upsert" \in LabelsOf(op[w]) /\ "upsert" \in Labels
    BY <1>1, LabelsOfOp DEF Labels
  <2>2. Goto(w, "upsert") /\ UNCHANGED todo
    BY <1>4 DEF PutUpload
  <2>3. Processes' /\ Bystanders(w) /\ Going(w, "upsert")
    BY <1>1, <2>1, <2>2, GotoGoes DEF Processes
  <2>4. f[1] \notin contended => Knows(w, f)'
    <3>1. f[1] \notin contended => Knows(w, f)
      BY <1>1 DEF IInv
    <3> QED BY <1>1, <2>3, <3>1 DEF Knows, Going, Storers
  <2> QED
    BY <1>1, <1>2, <2>1, <2>2, <2>3, <2>4, GoingSound
<1> QED BY <1>3, <1>4

\* A collector puts one file after the other.
LEMMA PutCollectedSound ==
  ASSUME IInv, NEW w \in Worker, NEW f \in File, PutCollected(w, f)
  PROVE  Sound(w)
<1> DEFINE l == IF todo[w] = {f} THEN "write" ELSE "put"
<1>1. /\ op[w] = "collect" /\ op[w] \in AllOps \ CleanupOps /\ Processes
      /\ f \in items[w] /\ raw' = raw \cup {f}
      /\ crashes' = crashes /\ contended' = contended
      /\ UNCHANGED <<manifests, lines>>
  BY TypeParts
  DEF PutCollected, AllOps, CleanupOps, IInv, Carrying, envVars
<1>2. Careful(w)
  BY <1>1, PutCareful DEF PutCollected, Storers
<1>3. l \in LabelsOf(op[w]) /\ l \in Labels /\ l \in {"put", "write"}
  BY <1>1, LabelsOfOp DEF Labels
<1>4. Goto(w, l) /\ todo' = [todo EXCEPT ![w] = @ \ {f}]
  BY DEF PutCollected
<1> HIDE DEF l
<1>5. Processes' /\ Bystanders(w) /\ Going(w, l)
      /\ todo'[w] \subseteq todo[w]
  BY <1>1, <1>3, <1>4, GotoGoes DEF Processes
<1>6. \A g \in items[w] : Knows(w, g)'
  BY <1>1, <1>3, <1>5 DEF Knows, Going, Storers
<1> QED BY <1>1, <1>2, <1>3, <1>5, <1>6, GoingSound

\* The manifest of a batch takes over its files.
LEMMA WriteManifestSound ==
  ASSUME IInv, NEW w \in Worker, WriteManifest(w)
  PROVE  Sound(w)
<1>1. /\ op[w] \in {"collect", "build"} /\ op[w] \in AllOps \ CleanupOps
      /\ Processes /\ Stores /\ Carrying(w) /\ Owning(w)
      /\ batches[w] \subseteq Batch /\ items[w] \subseteq File
  BY OpAt, TypeParts
  DEF WriteManifest, AllOps, CleanupOps, IInv, Processes
<1>2. /\ manifests' = manifests \cup batches[w]
      /\ lines' = [b \in Batch |-> IF b \in batches[w] THEN items[w]
                                                       ELSE lines[b]]
      /\ UNCHANGED <<raw, state, uri, tombstones, crashes, shredded, contended>>
  BY DEF WriteManifest, envVars
<1>3. Careful(w)
  <2>1. Stores'
    BY <1>1, <1>2 DEF Stores
  <2>2. \A e \in Doc : Untouched(e)
    BY <1>2 DEF Untouched
  <2>3. \A e \in Doc \ contended : Content(e)'
    BY <1>2 DEF IInv, Content
  <2> QED BY <1>2, <2>1, <2>2, <2>3 DEF Careful
<1>4. Processes' /\ Bystanders(w) /\ Ending(w)
  BY <1>1, FinishEnds DEF WriteManifest
<1>5. Controlled(w)
  BY <1>1, <1>3, <1>4, FailingControlled DEF Failing
<1>6. Publishing(w)
  <2>1. \A f \in items[w] : Listed(f)
    BY <1>1 DEF Carrying, Listed
  <2> QED BY <1>1, <1>2, <1>4, <2>1 DEF Publishing, Ending, Stores
<1>7. Passing(w)
  <2> SUFFICES ASSUME NEW f \in File
               PROVE  /\ f \in items[w] \cup todo[w] => Accounted(f)'
                      /\ (\E b \in manifests : f \in lines[b]) => Accounted(f)'
                      /\ ~Writing(w, f) /\ op'[w] # "upload"
    BY <1>2 DEF Passing
  <2>1. f \in items[w] \cup todo[w] => Accounted(f)'
    <3>1. PICK b \in Batch : batches[w] = {b}
      BY <1>1 DEF Carrying
    <3>2. todo[w] \subseteq items[w]
      BY <1>1 DEF Carrying, CleanupOps
    <3> QED BY <1>2, <3>1, <3>2 DEF Accounted
  <2>2. ASSUME NEW b \in manifests, f \in lines[b]
        PROVE  Accounted(f)'
    <3>1. b \in Batch /\ b \notin batches[w]
      BY <1>1 DEF Owning, Stores
    <3> QED BY <1>2, <2>2, <3>1 DEF Accounted
  <2> QED BY <1>1, <1>4, <2>1, <2>2 DEF Writing, Ending
<1> QED BY <1>3, <1>5, <1>6, <1>7 DEF Sound

\* A row is inserted for a file that is there.
LEMMA InsertDocumentSound ==
  ASSUME IInv, NEW w \in Worker, NEW f \in File, InsertDocument(w, f)
  PROVE  Sound(w)
<1>1. /\ pc[w] = "insert" /\ items[w] = {f} /\ Processes /\ Stores
      /\ op[w] \in {"upload", "ingest"} /\ op[w] \in AllOps \ CleanupOps
      /\ op[w] \in Storers /\ f[1] \in Doc /\ f[2] \in Name
      /\ f = <<f[1], f[2]>>
  BY OpAt, TypeParts, FileParts
  DEF InsertDocument, At, AllOps, CleanupOps, IInv, Storers
<1>2. /\ state' = [state EXCEPT ![f[1]] = "pending"]
      /\ uri' = [uri EXCEPT ![f[1]] = IF @ = NoName THEN f[2] ELSE @]
      /\ UNCHANGED <<raw, tombstones, manifests, lines, crashes, shredded,
                     contended>>
  BY DEF InsertDocument, envVars
<1>3. Rowed(f)'
  BY <1>1, <1>2 DEF Rowed, Stores
<1>4. Careful(w)
  <2>1. Stores'
    BY <1>1, <1>2, ConstantsAssumption DEF Stores, States
  <2>2. \A e \in Doc \ {f[1]} : Untouched(e)
    BY <1>1, <1>2 DEF Untouched, Stores
  <2>3. f[1] \notin contended => Content(f[1])'
    <3> SUFFICES ASSUME f[1] \notin contended PROVE Content(f[1])'
      OBVIOUS
    <3>1. f[1] \notin tombstones /\ f \in raw /\ Content(f[1])
      BY <1>1 DEF IInv, Knows
    <3>2. uri[f[1]] # NoName => state[f[1]] # "none" /\ uri'[f[1]] = uri[f[1]]
      BY <1>1, <1>2 DEF Stores
    <3>3. uri[f[1]] = NoName => uri'[f[1]] = f[2]
      BY <1>1, <1>2 DEF Stores
    <3> QED BY <1>1, <1>2, <3>1, <3>2, <3>3 DEF Content
  <2> QED BY <1>1, <1>2, <1>3, <2>1, <2>2, <2>3, OneCareful
<1>5. todo[w] = {}
  BY <1>1 DEF IInv, Carrying, CleanupOps
<1>6. CASE op[w] = "upload"
  <2>1. Processes' /\ Bystanders(w) /\ Failing(w)
    BY <1>1, <1>6, FinishEnds DEF InsertDocument, Failing
  <2> QED
    BY <1>1, <1>2, <1>3, <1>4, <1>5, <2>1, FailingSound DEF Accounted
<1>7. CASE op[w] = "ingest"
  <2>1. "settle" \in LabelsOf(op[w]) /\ "settle" \in Labels
    BY <1>7, LabelsOfOp DEF Labels
  <2>2. Goto(w, "settle") /\ UNCHANGED todo
    BY <1>7 DEF InsertDocument
  <2>3. Processes' /\ Bystanders(w) /\ Going(w, "settle")
    BY <1>1, <2>1, <2>2, GotoGoes DEF Processes
  <2>4. f[1] \notin contended => Knows(w, f)'
    <3>1. f[1] \notin contended => Knows(w, f)
      BY <1>1 DEF IInv
    <3> QED BY <1>1, <1>2, <1>3, <2>3, <3>1 DEF Knows, Going
  <2> QED
    BY <1>1, <1>2, <1>3, <1>4, <2>1, <2>2, <2>3, <2>4, GoingSound
<1> QED BY <1>1, <1>6, <1>7

\* What becomes of an ingested document is a state of its row.
LEMMA SettleDocumentSound ==
  ASSUME IInv, NEW w \in Worker, NEW f \in File, SettleDocument(w, f)
  PROVE  Sound(w)
<1>1. /\ pc[w] = "settle" /\ items[w] = {f} /\ Processes /\ Stores
      /\ op[w] = "ingest" /\ op[w] \in AllOps \ CleanupOps
      /\ op[w] \in Storers /\ f[1] \in Doc
  BY OpAt, TypeParts, FileParts
  DEF SettleDocument, At, AllOps, CleanupOps, IInv, Storers
<1>2. /\ state' \in {state, [state EXCEPT ![f[1]] = "ingested"]}
      /\ UNCHANGED <<raw, uri, tombstones, manifests, lines, crashes, shredded,
                     contended>>
  BY DEF SettleDocument, envVars
<1>3. Processes' /\ Bystanders(w) /\ Failing(w)
  BY <1>1, FailFails DEF SettleDocument
<1>4. state[f[1]] # "none" /\ Rowed(f)'
  BY <1>1, <1>2 DEF Rowed, Stores, IInv, Carrying
<1>5. Careful(w)
  <2>1. Stores'
    BY <1>1, <1>2, <1>4 DEF Stores, States
  <2>2. \A e \in Doc \ {f[1]} : Untouched(e)
    BY <1>1, <1>2 DEF Untouched, Stores
  <2>3. f[1] \notin contended => Content(f[1])'
    <3> SUFFICES ASSUME f[1] \notin contended PROVE Content(f[1])'
      OBVIOUS
    <3>1. f[1] \notin tombstones /\ Content(f[1])
      BY <1>1 DEF IInv, Knows
    <3> QED BY <1>1, <1>2, <1>4, <3>1 DEF Content
  <2> QED BY <1>1, <1>2, <1>4, <2>1, <2>2, <2>3, OneCareful
<1>6. todo[w] = {}
  BY <1>1 DEF IInv, Carrying, CleanupOps
<1> QED
  BY <1>1, <1>2, <1>3, <1>4, <1>5, <1>6, FailingSound DEF Accounted

-----------------------------------------------------------------------------
(* Purges and restores.                                                    *)

\* A purge or a restore is about one document that has a row.
LEMMA Alone ==
  ASSUME IInv, NEW w \in Worker, NEW f \in File, items[w] = {f},
         pc[w] \in {"begin", "shred", "bury", "mark", "unbury", "revive"}
  PROVE  /\ Processes /\ Stores /\ op[w] \in PurgeOps \cup {"restore"}
         /\ pc[w] \in {"begin", "shred", "bury", "mark"} => op[w] \in PurgeOps
         /\ pc[w] \in {"unbury", "revive"} => op[w] = "restore"
         /\ op[w] \in AllOps \ CleanupOps /\ op[w] \notin Storers
         /\ f[1] \in Doc /\ todo[w] = {} /\ Rowed(f) /\ state[f[1]] # "none"
         /\ f[1] \notin contended => Content(f[1]) /\ Knows(w, f)
<1>1. /\ op[w] \in PurgeOps \cup {"restore"} /\ Processes /\ Stores
      /\ pc[w] \in {"begin", "shred", "bury", "mark"} => op[w] \in PurgeOps
      /\ pc[w] \in {"unbury", "revive"} => op[w] = "restore"
      /\ f[1] \in Doc
  BY OpAt, TypeParts, FileParts DEF IInv
<1>2. op[w] \in AllOps \ CleanupOps /\ op[w] \notin Storers
  BY <1>1, Families DEF AllOps
<1>3. Rowed(f) /\ todo[w] = {}
  <2>1. Carrying(w) /\ op[w] \notin {"collect"} \cup CleanupOps
    BY <1>1, <1>2 DEF IInv, Storers
  <2> QED BY <1>1, <2>1 DEF Carrying
<1>4. f[1] \notin contended => Content(f[1]) /\ Knows(w, f)
  BY <1>1 DEF IInv
<1> QED BY <1>1, <1>2, <1>3, <1>4 DEF Rowed

\* Its steps are careful when they are about that document, and leave Content.
LEMMA AloneCareful ==
  ASSUME IInv, NEW w \in Worker, NEW f \in File, items[w] = {f},
         pc[w] \in {"begin", "shred", "bury", "mark", "unbury", "revive"},
         UNCHANGED <<uri, manifests, lines, crashes, contended>>,
         state' = state \/ \E s \in States \ {"none"} :
                             state' = [state EXCEPT ![f[1]] = s],
         raw' = raw \/ (raw' = raw \ {f} /\ shredded' = shredded \cup {f[1]}),
         shredded' = shredded \/ shredded' = shredded \cup {f[1]},
         tombstones' \in {tombstones, tombstones \cup {f[1]},
                          tombstones \ {f[1]}},
         f[1] \notin contended /\ f[1] \in tombstones' =>
           state'[f[1]] \in {"purging", "purged"}
  PROVE  Careful(w) /\ Rowed(f)'
<1>1. /\ Processes /\ Stores /\ op[w] \in AllOps \ CleanupOps
      /\ op[w] \notin Storers /\ f[1] \in Doc /\ state[f[1]] # "none"
      /\ f[1] \notin contended => Content(f[1])
  BY Alone
<1>2. /\ state' \in [Doc -> States] /\ state'[f[1]] # "none"
      /\ \A e \in Doc \ {f[1]} : state'[e] = state[e]
  <2>1. CASE state' = state
    BY <1>1, <2>1 DEF Stores
  <2>2. ASSUME NEW s \in States \ {"none"},
               state' = [state EXCEPT ![f[1]] = s]
        PROVE  /\ state' \in [Doc -> States] /\ state'[f[1]] # "none"
               /\ \A e \in Doc \ {f[1]} : state'[e] = state[e]
    BY <1>1, <2>2 DEF Stores
  <2> QED BY <2>1, <2>2
<1>3. Stores'
  <2>1. \A d \in Doc : state'[d] = "none" <=> uri'[d] = NoName
    BY <1>1, <1>2 DEF Stores
  <2> QED BY <1>1, <1>2, <2>1 DEF Stores
<1>4. \A e \in Doc \ {f[1]} : Untouched(e)
  BY <1>1, <1>2 DEF Untouched
<1>5. f[1] \notin contended => Content(f[1])'
  BY <1>1, <1>2 DEF Content
<1>6. Rowed(f)'
  BY <1>2 DEF Rowed
<1> QED BY <1>1, <1>3, <1>4, <1>5, <1>6, OneCareful

\* The purge says that it has begun.
LEMMA BeginPurgeSound ==
  ASSUME IInv, NEW w \in Worker, NEW f \in File, BeginPurge(w, f)
  PROVE  Sound(w)
<1>1. pc[w] = "begin" /\ items[w] = {f}
  BY DEF BeginPurge, At
<1>2. /\ Processes /\ Stores /\ op[w] \in PurgeOps /\ f[1] \in Doc
      /\ op[w] \in AllOps \ CleanupOps /\ todo[w] = {}
      /\ f[1] \notin contended => Content(f[1]) /\ Knows(w, f)
  BY <1>1, Alone
<1>3. Careful(w) /\ Rowed(f)'
  BY <1>1, <1>2, AloneCareful
  DEF BeginPurge, SetState, Stores, States, Knows, Content, envVars
<1>4. UNCHANGED <<manifests, lines, crashes>> /\ raw' \subseteq raw
  BY DEF BeginPurge, envVars
<1> DEFINE l == IF op[w] = "purge_hard" THEN "shred" ELSE "bury"
<1>5. l \in LabelsOf(op[w]) /\ l \in Labels /\ l \in {"shred", "bury"}
  BY <1>2, LabelsOfOp DEF Labels
<1>6. Goto(w, l) /\ todo' = todo
  BY DEF BeginPurge
<1> HIDE DEF l
<1>7. Processes' /\ Bystanders(w) /\ Going(w, l)
  BY <1>2, <1>5, <1>6, GotoGoes DEF Processes
<1>8. f[1] \notin contended => Knows(w, f)'
  BY <1>1, <1>2, <1>5, <1>7 DEF BeginPurge, SetState, Stores, Knows, Going, Storers, PurgeOps
<1> QED BY <1>1, <1>2, <1>3, <1>4, <1>5, <1>6, <1>7, <1>8, GoingSound

\* A hard purge deletes the file its document names, and is remembered for it.
LEMMA DeleteRawSound ==
  ASSUME IInv, NEW w \in Worker, NEW f \in File, DeleteRaw(w, f)
  PROVE  Sound(w)
<1>1. pc[w] = "shred" /\ items[w] = {f}
  BY DEF DeleteRaw, At
<1>2. /\ Processes /\ Stores /\ op[w] \in PurgeOps /\ f[1] \in Doc
      /\ op[w] \in AllOps \ CleanupOps /\ todo[w] = {}
      /\ f[1] \notin contended => Content(f[1]) /\ Knows(w, f)
  BY <1>1, Alone
<1>3. Careful(w) /\ Rowed(f)'
  BY <1>1, <1>2, AloneCareful
  DEF DeleteRaw, SetState, States, Knows, Content, envVars
<1>4. UNCHANGED <<manifests, lines, crashes>> /\ raw' \subseteq raw
  BY DEF DeleteRaw, envVars
<1>5. "bury" \in LabelsOf(op[w]) /\ "bury" \in Labels
  BY <1>2, LabelsOfOp DEF Labels
<1>6. Processes' /\ Bystanders(w) /\ Going(w, "bury") /\ todo' = todo
  BY <1>2, <1>5, GotoGoes DEF DeleteRaw, Processes
<1>7. f[1] \notin contended => Knows(w, f)'
  BY <1>1, <1>2, <1>6 DEF DeleteRaw, Knows, Going, Storers, PurgeOps
<1> QED BY <1>1, <1>2, <1>3, <1>4, <1>5, <1>6, <1>7, GoingSound

\* A document is buried while it is marked as being purged.
LEMMA InsertTombstoneSound ==
  ASSUME IInv, NEW w \in Worker, NEW f \in File, InsertTombstone(w, f)
  PROVE  Sound(w)
<1>1. pc[w] = "bury" /\ items[w] = {f}
  BY DEF InsertTombstone, At
<1>2. /\ Processes /\ Stores /\ op[w] \in PurgeOps /\ f[1] \in Doc
      /\ op[w] \in AllOps \ CleanupOps /\ todo[w] = {}
      /\ f[1] \notin contended => Content(f[1]) /\ Knows(w, f)
  BY <1>1, Alone
<1>3. Careful(w) /\ Rowed(f)'
  BY <1>1, <1>2, AloneCareful
  DEF InsertTombstone, SetState, States, Knows, Content, envVars
<1>4. UNCHANGED <<manifests, lines, crashes>> /\ raw' \subseteq raw
  BY DEF InsertTombstone, envVars
<1>5. "mark" \in LabelsOf(op[w]) /\ "mark" \in Labels
  BY <1>2, LabelsOfOp DEF Labels
<1>6. Processes' /\ Bystanders(w) /\ Going(w, "mark") /\ todo' = todo
  BY <1>2, <1>5, GotoGoes DEF InsertTombstone, Processes
<1>7. f[1] \notin contended => Knows(w, f)'
  BY <1>1, <1>2, <1>6 DEF InsertTombstone, Knows, Going, Storers, PurgeOps
<1> QED BY <1>1, <1>2, <1>3, <1>4, <1>5, <1>6, <1>7, GoingSound

\* Its purge is over.
LEMMA MarkPurgedSound ==
  ASSUME IInv, NEW w \in Worker, NEW f \in File, MarkPurged(w, f)
  PROVE  Sound(w)
<1>1. pc[w] = "mark" /\ items[w] = {f}
  BY DEF MarkPurged, At
<1>2. /\ Processes /\ Stores /\ op[w] \in PurgeOps /\ f[1] \in Doc
      /\ op[w] \in AllOps \ CleanupOps /\ todo[w] = {}
      /\ f[1] \notin contended => Content(f[1]) /\ Knows(w, f)
  BY <1>1, Alone
<1>3. Careful(w) /\ Rowed(f)'
  BY <1>1, <1>2, AloneCareful
  DEF MarkPurged, SetState, Stores, States, Knows, Content, envVars
<1>4. UNCHANGED <<manifests, lines, crashes>> /\ raw' \subseteq raw
  BY DEF MarkPurged, envVars
<1>5. Processes' /\ Bystanders(w) /\ Failing(w)
  BY <1>2, FinishEnds DEF MarkPurged, Failing
<1> QED BY <1>1, <1>2, <1>3, <1>4, <1>5, FailingSound DEF Accounted

\* A restore takes the tombstone away first.
LEMMA ClearTombstoneSound ==
  ASSUME IInv, NEW w \in Worker, NEW f \in File, ClearTombstone(w, f)
  PROVE  Sound(w)
<1>1. pc[w] = "unbury" /\ items[w] = {f}
  BY DEF ClearTombstone, At
<1>2. /\ Processes /\ Stores /\ op[w] = "restore" /\ f[1] \in Doc
      /\ op[w] \in AllOps \ CleanupOps /\ todo[w] = {}
      /\ f[1] \notin contended => Content(f[1]) /\ Knows(w, f)
  BY <1>1, Alone
<1>3. Careful(w) /\ Rowed(f)'
  BY <1>1, <1>2, AloneCareful
  DEF ClearTombstone, SetState, States, Knows, Content, envVars
<1>4. UNCHANGED <<manifests, lines, crashes>> /\ raw' \subseteq raw
  BY DEF ClearTombstone, envVars
<1>5. "revive" \in LabelsOf(op[w]) /\ "revive" \in Labels
  BY <1>2, LabelsOfOp DEF Labels
<1>6. Processes' /\ Bystanders(w) /\ Going(w, "revive") /\ todo' = todo
  BY <1>2, <1>5, GotoGoes DEF ClearTombstone, Processes
<1>7. f[1] \notin contended => Knows(w, f)'
  BY <1>1, <1>2, <1>6 DEF ClearTombstone, Knows, Going, Storers
<1> QED BY <1>1, <1>2, <1>3, <1>4, <1>5, <1>6, <1>7, GoingSound

\* And then sets the row back to pending.
LEMMA ReviveSound ==
  ASSUME IInv, NEW w \in Worker, NEW f \in File, Revive(w, f)
  PROVE  Sound(w)
<1>1. pc[w] = "revive" /\ items[w] = {f}
  BY DEF Revive, At
<1>2. /\ Processes /\ Stores /\ op[w] = "restore" /\ f[1] \in Doc
      /\ op[w] \in AllOps \ CleanupOps /\ todo[w] = {}
      /\ f[1] \notin contended => Content(f[1]) /\ Knows(w, f)
  BY <1>1, Alone
<1>3. Careful(w) /\ Rowed(f)'
  BY <1>1, <1>2, AloneCareful
  DEF Revive, SetState, States, Knows, Content, envVars
<1>4. UNCHANGED <<manifests, lines, crashes>> /\ raw' \subseteq raw
  BY DEF Revive, envVars
<1>5. Processes' /\ Bystanders(w) /\ Failing(w)
  BY <1>2, FinishEnds DEF Revive, Failing
<1> QED BY <1>1, <1>2, <1>3, <1>4, <1>5, FailingSound DEF Accounted

-----------------------------------------------------------------------------
(* Cleanups and failures.                                                  *)

\* A cleanup is about every document, and no upload.
LEMMA Cleaning ==
  ASSUME IInv, NEW w \in Worker,
         pc[w] \in {"list_docs", "list_raw", "delete"}
  PROVE  /\ Processes /\ Stores /\ Carrying(w) /\ op[w] \in AllOps
         /\ op[w] \in CleanupOps /\ op[w] \notin Storers
         /\ op[w] \notin {"none", "upload", "ingest", "collect", "build",
                          "restore"} \cup PurgeOps
         /\ LabelsOf(op[w]) = {"list_docs", "list_raw", "delete"}
         /\ \A e \in Doc : Concerns(w, e)
         /\ \A f \in File : f[1] \notin contended => Sweeps(w, f)
<1>1. op[w] \in CleanupOps /\ op[w] \in AllOps /\ Processes /\ Stores
  BY OpAt, TypeParts DEF IInv
<1> QED
  BY <1>1, ConcernsOf, LabelsOfOp
  DEF IInv, CleanupOps, Storers, PurgeOps, Processes

\* What a cleanup does to its control is sound when it keeps what it listed.
LEMMA CleaningControlled ==
  ASSUME IInv, NEW w \in Worker, Processes', Bystanders(w),
         pc[w] \in {"list_docs", "list_raw", "delete"},
         pc'[w] \in {"list_raw", "delete"}, op'[w] = op[w],
         seen'[w] = seen[w], batches'[w] \subseteq batches[w],
         pc'[w] = "list_raw" => todo'[w] = {},
         \A f \in File : f[1] \notin contended => Sweeps(w, f)'
  PROVE  Controlled(w)
<1>1. /\ Carrying(w) /\ op[w] \in CleanupOps /\ op[w] \notin Storers
      /\ op[w] \notin {"none", "upload", "ingest", "collect", "build",
                       "restore"} \cup PurgeOps
      /\ LabelsOf(op[w]) = {"list_docs", "list_raw", "delete"}
      /\ \A e \in Doc : Concerns(w, e)
  BY Cleaning
<1>2. Carrying(w)'
  BY <1>1 DEF Carrying
<1>3. \A f \in File : Knows(w, f)'
  BY <1>1 DEF Knows
<1> QED BY <1>1, <1>2, <1>3 DEF Controlled

\* The files whose document has a row are listed.
LEMMA ListDocumentsSound ==
  ASSUME IInv, NEW w \in Worker, ListDocuments(w)
  PROVE  Sound(w)
<1>1. /\ pc[w] = "list_docs" /\ Processes /\ op[w] \in CleanupOps
      /\ Carrying(w) /\ op[w] \notin Storers
  BY Cleaning DEF ListDocuments
<1>2. /\ UNCHANGED <<storeVars, shredded, contended, crashes>>
      /\ UNCHANGED <<op, todo, batches, seen>>
      /\ pc' = [pc EXCEPT ![w] = "list_raw"]
      /\ items' = [items EXCEPT ![w] = IF op[w] = "cleanup"
                     THEN {f \in File : state[f[1]] # "none"} ELSE {}]
  BY DEF ListDocuments, envVars
<1>3. Careful(w)
  BY <1>2, UnwrittenCareful DEF IInv, TypeOK
<1>4. /\ Processes' /\ Bystanders(w) /\ pc'[w] = "list_raw" /\ op'[w] = op[w]
      /\ items'[w] = IF op[w] = "cleanup" THEN {f \in File : Rowed(f)} ELSE {}
  BY <1>1, <1>2 DEF Processes, Labels, Bystanders, Rowed
<1>5. todo[w] = {} /\ items[w] = {}
  BY <1>1 DEF Carrying
<1>6. \A f \in File : Sweeps(w, f)'
  BY <1>2, <1>4 DEF Sweeps, Rowed, storeVars
<1>7. Controlled(w)
  BY <1>1, <1>2, <1>4, <1>5, <1>6, CleaningControlled
<1>8. Publishing(w) /\ Passing(w)
  BY <1>1, <1>2, <1>4, <1>5
  DEF Publishing, Passing, Accounted, Writing, storeVars, CleanupOps
<1> QED BY <1>3, <1>7, <1>8 DEF Sound

\* What is stored and was not listed is taken for an orphan.
LEMMA ListRawSound ==
  ASSUME IInv, NEW w \in Worker, ListRaw(w)
  PROVE  Sound(w)
<1>1. /\ pc[w] = "list_raw" /\ Processes /\ Stores /\ op[w] \in CleanupOps
      /\ Carrying(w) /\ op[w] \notin Storers
      /\ \A f \in File : f[1] \notin contended => Sweeps(w, f)
  BY Cleaning DEF ListRaw
<1>2. /\ UNCHANGED <<storeVars, shredded, contended, crashes>>
      /\ Goto(w, "delete") /\ todo' = [todo EXCEPT ![w] = raw \ items[w]]
  BY DEF ListRaw, envVars
<1>3. Careful(w)
  BY <1>2, UnwrittenCareful DEF IInv, TypeOK
<1>4. /\ Processes' /\ Bystanders(w) /\ Going(w, "delete")
      /\ todo'[w] = raw \ items[w]
  <2>1. "delete" \in Labels
    BY DEF Labels
  <2> QED BY <1>1, <1>2, <2>1, GotoGoes DEF Processes, Stores
<1>5. todo[w] = {}
  BY <1>1 DEF Carrying
<1>6. \A f \in File : f[1] \notin contended => Sweeps(w, f)'
  BY <1>1, <1>2, <1>4 DEF Sweeps, Rowed, Going, storeVars
<1>7. Controlled(w)
  BY <1>1, <1>4, <1>6, CleaningControlled DEF Going
<1>8. Publishing(w) /\ Passing(w)
  BY <1>1, <1>2, <1>4, <1>5
  DEF Publishing, Passing, Accounted, Writing, Going, storeVars, CleanupOps
<1> QED BY <1>3, <1>7, <1>8 DEF Sound

\* When a manifest goes, the files it lists and no row names are on the list.
LEMMA DeleteManifestSound ==
  ASSUME IInv, NEW w \in Worker, NEW b \in Batch, DeleteManifest(w, b)
  PROVE  Sound(w)
<1>1. /\ pc[w] = "delete" /\ Processes /\ Stores /\ op[w] \in CleanupOps
      /\ Carrying(w) /\ op[w] \notin Storers
      /\ \A f \in File : f[1] \notin contended => Sweeps(w, f)
  BY Cleaning DEF DeleteManifest
<1>2. /\ manifests' = manifests \ {b} /\ lines' = [lines EXCEPT ![b] = {}]
      /\ batches' = [batches EXCEPT ![w] = @ \ {b}]
      /\ UNCHANGED <<pc, op, items, todo, seen>>
      /\ UNCHANGED <<raw, state, uri, tombstones, shredded, contended, crashes>>
  BY DEF DeleteManifest, envVars
<1>3. Careful(w)
  <2>1. Stores'
    BY <1>1, <1>2 DEF Stores
  <2>2. \A e \in Doc : Untouched(e)
    BY <1>2 DEF Untouched
  <2>3. \A e \in Doc \ contended : Content(e)'
    BY <1>2 DEF IInv, Content
  <2> QED BY <1>1, <1>2, <2>1, <2>2, <2>3 DEF Careful
<1>4. Processes' /\ Bystanders(w) /\ batches'[w] \subseteq batches[w]
  BY <1>1, <1>2 DEF Processes, Bystanders
<1>5. \A f \in File : f[1] \notin contended => Sweeps(w, f)'
  BY <1>1, <1>2 DEF Sweeps, Rowed
<1>6. Controlled(w)
  BY <1>1, <1>2, <1>4, <1>5, CleaningControlled
<1>7. Publishing(w)
  BY <1>1, <1>2 DEF Publishing, Stores
<1>8. Passing(w)
  <2> SUFFICES ASSUME NEW f \in File, f[1] \notin contended, f \in raw
               PROVE  /\ f \in items[w] \cup todo[w] => Accounted(f)'
                      /\ (\E c \in manifests : f \in lines[c]) => Accounted(f)'
    BY <1>1, <1>2 DEF Passing, Writing, CleanupOps
  <2>1. f \in items[w] \cup todo[w] => Accounted(f)'
    BY <1>2 DEF Accounted
  <2>2. Rowed(f) => Accounted(f)'
    BY <1>2 DEF Accounted, Rowed
  <2>3. Rowed(f) \/ f \in todo[w]
    BY <1>1 DEF Sweeps
  <2> QED BY <2>1, <2>2, <2>3
<1> QED BY <1>3, <1>6, <1>7, <1>8 DEF Sound

\* An orphan goes: a cleanup of the project takes no file of a row.
LEMMA DeleteOrphanSound ==
  ASSUME IInv, NEW w \in Worker, NEW f \in File, DeleteOrphan(w, f)
  PROVE  Sound(w)
<1>1. /\ pc[w] = "delete" /\ Processes /\ Stores /\ op[w] \in CleanupOps
      /\ Carrying(w) /\ op[w] \notin Storers /\ f[1] \in Doc
      /\ \A g \in File : g[1] \notin contended => Sweeps(w, g)
      /\ \A e \in Doc : Concerns(w, e)
  BY Cleaning, FileParts DEF DeleteOrphan
<1>2. /\ raw' = raw \ {f} /\ todo' = [todo EXCEPT ![w] = @ \ {f}]
      /\ f \in todo[w]
      /\ UNCHANGED <<pc, op, items, batches, seen, state, uri, tombstones,
                     manifests, lines, shredded, contended, crashes>>
  BY DEF DeleteOrphan, envVars
<1>3. Careful(w)
  <2>1. Stores'
    BY <1>1, <1>2 DEF Stores
  <2>2. ASSUME NEW e \in Doc \ contended
        PROVE  Content(e)'
    <3>1. Content(e)
      BY DEF IInv
    <3>2. CASE e # f[1]
      <4>1. Untouched(e)
        BY <1>2, <3>2 DEF Untouched
      <4> QED BY <1>1, <3>1, <4>1, Untouching
    <3>3. CASE e = f[1]
      <4>1. "cleanup_all" \notin Ops => state[e] = "none"
        BY <1>1, <1>2, <3>3 DEF Carrying, Sweeps, Rowed, CleanupOps
      <4> QED BY <1>2, <3>1, <4>1 DEF Content
    <3> QED BY <3>2, <3>3
  <2> QED BY <1>1, <1>2, <2>1, <2>2 DEF Careful
<1>4. Processes' /\ Bystanders(w) /\ todo'[w] = todo[w] \ {f}
  BY <1>1, <1>2 DEF Processes, Bystanders
<1>5. \A g \in File : g[1] \notin contended => Sweeps(w, g)'
  BY <1>1, <1>2, <1>4 DEF Sweeps, Rowed
<1>6. Controlled(w)
  BY <1>1, <1>2, <1>4, <1>5, CleaningControlled
<1>7. Publishing(w)
  BY <1>2 DEF Publishing
<1>8. Passing(w)
  BY <1>1, <1>2, <1>4 DEF Passing, Accounted, Writing, CleanupOps
<1> QED BY <1>3, <1>6, <1>7, <1>8 DEF Sound

\* When nothing is left to delete, every file that stays has a row.
LEMMA EndCleanupSound ==
  ASSUME IInv, NEW w \in Worker, EndCleanup(w)
  PROVE  Sound(w)
<1>1. /\ pc[w] = "delete" /\ todo[w] = {} /\ Processes /\ op[w] \in AllOps
      /\ op[w] \in CleanupOps /\ items[w] \subseteq File
      /\ \A f \in File : f[1] \notin contended => Sweeps(w, f)
  BY Cleaning DEF EndCleanup, Processes
<1>2. UNCHANGED <<storeVars, shredded, contended, crashes>>
  BY DEF EndCleanup, envVars
<1>3. Careful(w)
  BY <1>2, UnwrittenCareful DEF IInv, TypeOK
<1>4. Processes' /\ Bystanders(w) /\ Failing(w)
  BY <1>1, FinishEnds DEF EndCleanup, Failing
<1>5. \A f \in File : f[1] \notin contended /\ f \in raw' => Accounted(f)'
  BY <1>1, <1>2 DEF Sweeps, Accounted, Rowed, storeVars
<1>6. \A f \in items[w] : ~Writing(w, f)
  BY <1>1 DEF Writing, CleanupOps
<1> QED
  BY <1>1, <1>2, <1>3, <1>4, <1>5, <1>6, FailingSound DEF storeVars

\* A failure is counted, and nothing is promised after it but what is stored.
LEMMA CrashSound ==
  ASSUME IInv, NEW w \in Worker, Crash(w)
  PROVE  Sound(w)
<1>1. /\ Processes /\ op[w] \in AllOps /\ crashes' # 0
      /\ crashes' \in 0..MaxCrashes
      /\ UNCHANGED <<storeVars, shredded, contended>>
  BY OpAt, TypeParts, ConstantsAssumption DEF Crash, IInv, TypeOK
<1>2. Careful(w)
  BY <1>1, UnwrittenCareful
<1>3. Processes' /\ Bystanders(w) /\ Failing(w)
  BY <1>1, FailFails DEF Crash
<1> QED BY <1>1, <1>2, <1>3, FailingSound DEF storeVars

-----------------------------------------------------------------------------
(* Operations that start.                                                  *)

\* A worker that is idle carries nothing.
LEMMA IdleCarries ==
  ASSUME IInv, NEW w \in Worker, pc[w] = "idle"
  PROVE  /\ op[w] = "none" /\ items[w] = {} /\ todo[w] = {} /\ batches[w] = {}
         /\ \A d \in Doc : ~Concerns(w, d)
<1>1. op[w] \in AllOps \cup {"none"} /\ "idle" \in LabelsOf(op[w]) /\ Carrying(w)
  BY DEF IInv, Carrying, TypeOK
<1>2. op[w] = "none"
  BY <1>1, LabelsOfOp DEF AllOps
<1> QED
  BY <1>1, <1>2, ConcernsOf DEF Carrying, CleanupOps

\* What the invariant asks of an operation that starts.
Starting(w, o, l, F, B, exists) ==
  /\ o \in AllOps /\ l \in LabelsOf(o) /\ F \subseteq File /\ exists \in BOOLEAN
  /\ B \subseteq Batch
  /\ \A b \in B : Fresh(b) \/ (b \in manifests /\ o \in CleanupOps)
  /\ Carrying(w)'
  /\ \A f \in F : f[1] \notin contended' => Knows(w, f)'
  /\ o \in CleanupOps => l = "list_docs"
  /\ o = "upload" /\ exists => \A f \in F :
       f[1] \notin contended' /\ crashes = 0 =>
         Rowed(f) \/ \E v \in Worker \ {w} : Writing(v, f)

\* An operation that starts as its kind should preserves the invariant: whoever
\* it meets on a document that is not contended stores, like itself.
LEMMA BeginKeeps ==
  ASSUME IInv, NEW w \in Worker, NEW o, NEW l, NEW F, NEW B, NEW exists,
         Begin(w, o, l, F, B, exists), Starting(w, o, l, F, B, exists)
  PROVE  IInv'
<1>1. /\ UNCHANGED <<raw, state, uri, tombstones, manifests, lines>>
      /\ UNCHANGED <<crashes, shredded>>
      /\ Processes /\ Stores
      /\ op[w] = "none" /\ items[w] = {} /\ todo[w] = {} /\ batches[w] = {}
      /\ \A d \in Doc : ~Concerns(w, d)
  BY IdleCarries, TypeParts DEF IInv, Begin, storeVars
<1>2. /\ contended \subseteq contended' /\ contended' \subseteq Doc
      /\ \A d \in About(o, F) \ contended' : \A v \in Worker :
           op[v] # "none" /\ d \in About(op[v], items[v]) => ~Conflict(o, op[v])
  <2>1. About(o, F) \subseteq Doc
    BY FileParts DEF Starting, About
  <2> QED BY <1>1, <2>1 DEF Begin, Stores
<1>3. /\ Processes' /\ pc'[w] = l /\ op'[w] = o /\ items'[w] = F
      /\ batches'[w] = B /\ seen'[w] = exists
      /\ \A v \in Worker \ {w} :
           /\ pc'[v] = pc[v] /\ op'[v] = op[v] /\ items'[v] = items[v]
           /\ todo'[v] = todo[v] /\ batches'[v] = batches[v]
           /\ seen'[v] = seen[v]
  <2>1. l \in Labels
    BY LabelsOfOp DEF Starting
  <2>2. PICK T \in SUBSET File : T = IF l = "put" THEN F ELSE {}
    BY DEF Starting
  <2> QED BY <1>1, <2>1, <2>2 DEF Begin, Starting, Processes
<1>4. TypeOK'
  <2>1. Stores'
    BY <1>1, <1>2 DEF Stores
  <2> QED BY <1>3, <2>1 DEF TypeOK, Processes, Stores
<1>5. \A f : Rowed(f)' = Rowed(f) /\ Listed(f)' = Listed(f)
  BY <1>1 DEF Rowed, Listed
<1>6. ASSUME NEW v \in Worker
      PROVE  Carrying(v)'
  <2>1. CASE v = w
    BY <2>1 DEF Starting
  <2>2. CASE v # w
    BY <1>3, <1>5, <2>2 DEF IInv, Carrying
  <2> QED BY <2>1, <2>2
<1>7. ASSUME NEW v \in Worker
      PROVE  Owning(v)'
  <2>1. CASE v = w
    BY <1>1, <1>3, <2>1 DEF Owning, Starting, Fresh, CleanupOps
  <2>2. CASE v # w
    <3>1. Owning(v)
      BY DEF IInv
    <3>2. \A b \in B : b \in manifests \/ b \notin batches[v]
      BY DEF Starting, Fresh
    <3> QED BY <1>1, <1>3, <2>2, <3>1, <3>2 DEF Owning
  <2> QED BY <2>1, <2>2
<1>8. Manifested'
  BY <1>1, <1>5 DEF IInv, Manifested
<1>9. Exclusion'
  <2>1. ASSUME NEW v \in Worker \ {w}, NEW d \in Doc \ contended',
               Concerns(v, d)', Concerns(w, d)'
        PROVE  op'[v] \in Storers /\ op'[w] \in Storers
    <3>1. Concerns(v, d) /\ d \in About(o, F) /\ op'[v] = op[v] /\ op'[w] = o
      BY <1>3, <2>1 DEF Concerns
    <3>2. op[v] # "none" /\ op[v] \in AllOps
      BY <1>1, <3>1 DEF IInv, Carrying, Concerns, About, CleanupOps, Processes
    <3>3. ~Conflict(o, op[v])
      BY <1>2, <3>1, <3>2 DEF Concerns
    <3> QED
      BY <3>1, <3>2, <3>3, Families DEF Conflict, Exclusive, Starting
  <2>2. ASSUME NEW u \in Worker \ {w}, NEW v \in Worker \ {w}, u # v,
               NEW d \in Doc \ contended', Concerns(u, d)', Concerns(v, d)'
        PROVE  op'[u] \in Storers /\ op'[v] \in Storers
    BY <1>2, <1>3, <2>2 DEF IInv, Exclusion, Concerns
  <2> QED BY <2>1, <2>2 DEF Exclusion
<1>10. \A d \in Doc \ contended' : Content(d)'
  BY <1>1, <1>2 DEF IInv, Content
<1>11. ASSUME NEW f \in File, f[1] \notin contended', NEW v \in Worker
       PROVE  /\ f \in items'[v] => Knows(v, f)'
              /\ op'[v] \in CleanupOps => Sweeps(v, f)'
              /\ crashes' = 0 => Skips(v, f)'
  <2>1. CASE v = w
    <3>1. f \in items'[v] => Knows(v, f)'
      BY <1>3, <1>11, <2>1 DEF Starting
    <3>2. op'[v] \in CleanupOps => Sweeps(v, f)'
      BY <1>3, <2>1 DEF Starting, Sweeps
    <3>3. crashes' = 0 => Skips(v, f)'
      BY <1>1, <1>3, <1>5, <1>11, <2>1 DEF Starting, Skips, Writing
    <3> QED BY <3>1, <3>2, <3>3
  <2>2. CASE v # w
    <3>1. /\ f \in items[v] => Knows(v, f)
          /\ op[v] \in CleanupOps => Sweeps(v, f)
          /\ crashes = 0 => Skips(v, f)
      BY <1>2, <1>11 DEF IInv
    <3>2. \A u \in Worker : Writing(u, f) => u # w /\ Writing(u, f)'
      BY <1>1, <1>3 DEF Writing
    <3>3. f \in items'[v] => Knows(v, f)'
      BY <1>1, <1>3, <1>5, <2>2, <3>1 DEF Knows
    <3>4. op'[v] \in CleanupOps => Sweeps(v, f)'
      BY <1>1, <1>3, <1>5, <2>2, <3>1 DEF Sweeps
    <3>5. crashes' = 0 => Skips(v, f)'
      BY <1>1, <1>3, <1>5, <2>2, <3>1, <3>2 DEF Skips
    <3> QED BY <3>3, <3>4, <3>5
  <2> QED BY <2>1, <2>2
<1>12. \A f \in raw' : f[1] \notin contended' /\ crashes' = 0 => Accounted(f)'
  <2> SUFFICES ASSUME NEW f \in raw, f[1] \notin contended', crashes = 0
               PROVE  Accounted(f)'
    BY <1>1
  <2>1. Accounted(f)
    BY <1>2 DEF IInv
  <2>2. ASSUME NEW v \in Worker, f \in items[v] \cup todo[v]
        PROVE  f \in items'[v] \cup todo'[v]
    BY <1>1, <1>3, <2>2
  <2> QED BY <1>1, <1>5, <2>1, <2>2 DEF Accounted
<1> QED
  BY <1>4, <1>6, <1>7, <1>8, <1>9, <1>10, <1>11, <1>12 DEF IInv

\* What Begin does to the worker, and to whom it looks for.
LEMMA BeginSets ==
  ASSUME IInv, NEW w \in Worker, NEW o, NEW l, NEW F, NEW B, NEW exists,
         Begin(w, o, l, F, B, exists)
  PROVE  /\ o \in Ops /\ o \in AllOps
         /\ pc'[w] = l /\ op'[w] = o /\ items'[w] = F /\ batches'[w] = B
         /\ todo'[w] = (IF l = "put" THEN F ELSE {}) /\ seen'[w] = exists
         /\ raw' = raw /\ state' = state /\ uri' = uri
         /\ tombstones' = tombstones /\ manifests' = manifests
         /\ lines' = lines /\ crashes' = crashes
         /\ contended \subseteq contended'
         /\ op[w] = "none" /\ items[w] = {} /\ todo[w] = {}
<1>1. /\ o \in Ops /\ o \in AllOps
      /\ pc'[w] = l /\ op'[w] = o /\ items'[w] = F /\ batches'[w] = B
      /\ todo'[w] = (IF l = "put" THEN F ELSE {}) /\ seen'[w] = exists
  BY ConstantsAssumption DEF Begin, IInv, TypeOK
<1>2. /\ raw' = raw /\ state' = state /\ uri' = uri
      /\ tombstones' = tombstones /\ manifests' = manifests
      /\ lines' = lines /\ crashes' = crashes
      /\ contended \subseteq contended'
  BY DEF Begin, storeVars
<1>3. op[w] = "none" /\ items[w] = {} /\ todo[w] = {}
  BY IdleCarries DEF Begin
<1> QED BY <1>1, <1>2, <1>3

\* The file of a row.
LEMMA RowFile ==
  ASSUME TypeOK, NEW d \in Doc, state[d] # "none"
  PROVE  /\ <<d, uri[d]>> \in File /\ <<d, uri[d]>>[1] = d
         /\ Rowed(<<d, uri[d]>>)
<1>1. uri[d] \in Name
  BY DEF TypeOK
<1> QED BY <1>1, FileParts DEF Rowed

\* An upload that finds its file there skips a row that is there or is coming:
\* the file came from an upload, and what lists a manual file knows its row.
LEMMA FoundIsWritten ==
  ASSUME IInv, NEW w \in Worker, NEW f \in File, f[2] \in Manual, crashes = 0,
         f \in raw, Begin(w, "upload", "gate", {f}, {}, TRUE),
         f[1] \notin contended'
  PROVE  Rowed(f) \/ \E v \in Worker \ {w} : Writing(v, f)
<1> SUFFICES ASSUME ~Rowed(f), NEW v \in Worker, f \in items[v] \cup todo[v]
             PROVE  \E u \in Worker \ {w} : Writing(u, f)
  <2>1. Accounted(f)
    BY BeginSets DEF IInv
  <2>2. ASSUME NEW b \in manifests, f \in lines[b]
        PROVE  Rowed(f)
    BY <2>2 DEF IInv, Manifested, Listed
  <2> QED BY <2>1, <2>2 DEF Accounted
<1>1. /\ v # w /\ op[v] \in AllOps /\ Carrying(v) /\ f[1] \notin contended
      /\ f[1] \in Doc
  <2>1. v # w /\ f[1] \notin contended
    BY BeginSets
  <2>2. f[1] \in Doc /\ Carrying(v)
    BY FileParts DEF IInv
  <2>3. op[v] \in Ops \cup {"none"}
    BY <2>2 DEF Carrying
  <2>4. op[v] # "none"
    BY <2>2 DEF Carrying, CleanupOps
  <2> QED BY <2>1, <2>2, <2>3, <2>4, ConstantsAssumption
<1>2. CASE op[v] \in CleanupOps
  <2>1. f[1] \in About("upload", {f}) /\ f[1] \in About(op[v], items[v])
    BY <1>1, <1>2 DEF About, CleanupOps
  <2>2. Conflict("upload", op[v]) /\ op[v] # "none"
    BY <1>2 DEF Conflict, CleanupOps
  <2>3. f[1] \in contended'
    BY <1>1, <2>1, <2>2 DEF Begin
  <2> QED BY <2>3
<1>3. CASE op[v] = "upload"
  <2>1. items[v] = {f}
    BY <1>1, <1>3 DEF Carrying, CleanupOps
  <2>2. seen[v] => \E u \in Worker \ {v} : Writing(u, f)
    BY <1>1, <1>3, <2>1 DEF IInv, Skips
  <2>3. ~Writing(w, f)
    BY BeginSets DEF Writing
  <2>4. ~seen[v] => Writing(v, f)
    BY <1>3, <2>1 DEF Writing
  <2> QED BY <1>1, <2>2, <2>3, <2>4
<1>4. CASE op[v] = "collect"
  BY <1>1, <1>4 DEF Carrying
<1>5. CASE op[v] \in {"ingest", "build", "restore"} \cup PurgeOps
  <2>1. f \in items[v]
    BY <1>1, <1>5 DEF Carrying, CleanupOps, PurgeOps
  <2> QED BY <1>1, <1>5, <2>1 DEF Carrying, Listed
<1> QED BY <1>1, <1>2, <1>3, <1>4, <1>5 DEF AllOps

\* An upload starts.
LEMMA StartUploadKeeps ==
  ASSUME IInv, NEW w \in Worker, NEW f \in File, StartUpload(w, f)
  PROVE  IInv'
<1>1. PICK exists \in BOOLEAN :
        (exists = TRUE <=> f \in raw)
        /\ Begin(w, "upload", "gate", {f}, {}, exists)
  <2>1. CASE f \in raw
    <3>1. (f \in raw) = TRUE
      BY <2>1
    <3> QED BY <2>1, <3>1 DEF StartUpload
  <2>2. CASE f \notin raw
    <3>1. (f \in raw) = FALSE
      BY <2>2
    <3> QED BY <2>2, <3>1 DEF StartUpload
  <2> QED BY <2>1, <2>2
<1>2. Begin(w, "upload", "gate", {f}, {}, exists) /\ f[2] \in Manual
  BY <1>1 DEF StartUpload
<1>3. /\ "upload" \in Ops /\ "upload" \in AllOps
      /\ pc'[w] = "gate" /\ op'[w] = "upload" /\ items'[w] = {f}
      /\ batches'[w] = {} /\ todo'[w] = {}
  BY <1>2, BeginSets
<1>4. Carrying(w)'
  BY <1>2, <1>3, LabelsOfOp DEF Carrying, PurgeOps, CleanupOps
<1>5. Knows(w, f)'
  BY <1>3 DEF Knows
<1>6. exists /\ f[1] \notin contended' /\ crashes = 0 =>
        Rowed(f) \/ \E v \in Worker \ {w} : Writing(v, f)
  BY <1>1, <1>2, FoundIsWritten
<1>7. Starting(w, "upload", "gate", {f}, {}, exists)
  BY <1>3, <1>4, <1>5, <1>6, LabelsOfOp DEF Starting, CleanupOps
<1> QED BY <1>2, <1>7, BeginKeeps

\* The ingest of a manifest line starts.
LEMMA StartIngestKeeps ==
  ASSUME IInv, NEW w \in Worker, NEW f \in File, NEW b \in Batch,
         StartIngest(w, f, b)
  PROVE  IInv'
<1>1. Begin(w, "ingest", "load", {f}, {}, FALSE)
  BY DEF StartIngest
<1>2. /\ "ingest" \in Ops /\ "ingest" \in AllOps
      /\ pc'[w] = "load" /\ op'[w] = "ingest" /\ items'[w] = {f}
      /\ batches'[w] = {} /\ todo'[w] = {} /\ seen'[w] = FALSE
      /\ state' = state
  BY <1>1, ConstantsAssumption DEF Begin, IInv, TypeOK, storeVars
<1>3. Listed(f) /\ Listed(f)'
  BY <1>2 DEF StartIngest, IInv, Manifested, Listed, Rowed
<1>4. Carrying(w)'
  BY <1>2, <1>3, LabelsOfOp DEF Carrying, PurgeOps, CleanupOps
<1>5. Knows(w, f)'
  BY <1>2 DEF Knows
<1>6. Starting(w, "ingest", "load", {f}, {}, FALSE)
  BY <1>2, <1>4, <1>5, LabelsOfOp DEF Starting, CleanupOps
<1> QED BY <1>1, <1>6, BeginKeeps

\* A collected batch starts.
LEMMA StartCollectKeeps ==
  ASSUME IInv, NEW w \in Worker, NEW F \in SUBSET File, NEW b \in Batch,
         StartCollect(w, F, b)
  PROVE  IInv'
<1>1. PICK l \in {"put", "write"} : l = IF F = {} THEN "write" ELSE "put"
  OBVIOUS
<1>2. Begin(w, "collect", l, F, {b}, FALSE)
  BY <1>1 DEF StartCollect
<1>3. /\ "collect" \in Ops /\ "collect" \in AllOps
      /\ pc'[w] = l /\ op'[w] = "collect" /\ items'[w] = F
      /\ batches'[w] = {b} /\ todo'[w] \in {F, {}} /\ seen'[w] = FALSE
  <2>1. (IF l = "put" THEN F ELSE {}) \in {F, {}}
    OBVIOUS
  <2>2. todo'[w] = (IF l = "put" THEN F ELSE {})
    BY <1>2, ConstantsAssumption DEF Begin, IInv, TypeOK, storeVars
  <2> QED BY <1>2, <2>1, <2>2, BeginSets
<1>4. \A f \in F : f[2] \notin Manual
  BY DEF StartCollect
<1>5. Carrying(w)'
  BY <1>1, <1>3, <1>4, LabelsOfOp DEF Carrying, PurgeOps, CleanupOps
<1>6. \A f \in F : Knows(w, f)'
  BY <1>1, <1>3 DEF Knows
<1>7. Starting(w, "collect", l, F, {b}, FALSE)
  BY <1>1, <1>3, <1>5, <1>6, LabelsOfOp DEF Starting, CleanupOps, StartCollect
<1> QED BY <1>2, <1>7, BeginKeeps

\* A manifest of pending documents starts: none of them is buried.
LEMMA StartBuildKeeps ==
  ASSUME IInv, NEW w \in Worker, NEW W \in SUBSET Doc, NEW b \in Batch,
         StartBuild(w, W, b)
  PROVE  IInv'
<1>1. PICK F : F = {<<d, uri[d]>> : d \in Page(PendingInSource) \cap W}
  OBVIOUS
<1>2. Begin(w, "build", "write", F, {b}, FALSE)
  BY <1>1 DEF StartBuild
<1>3. /\ "build" \in Ops /\ "build" \in AllOps
      /\ pc'[w] = "write" /\ op'[w] = "build" /\ items'[w] = F
      /\ batches'[w] = {b} /\ todo'[w] = {} /\ seen'[w] = FALSE
      /\ contended \subseteq contended' /\ tombstones' = tombstones
      /\ state' = state
  BY <1>2, ConstantsAssumption DEF Begin, IInv, TypeOK, storeVars
<1>4. \A f \in F : f \in File /\ f[1] \in Doc /\ state[f[1]] = "pending"
  <2> SUFFICES ASSUME NEW d \in Doc, state[d] = "pending"
               PROVE  /\ <<d, uri[d]>> \in File /\ <<d, uri[d]>>[1] \in Doc
                      /\ state[<<d, uri[d]>>[1]] = "pending"
    BY <1>1 DEF Page, PendingInSource
  <2> QED BY RowFile DEF IInv
<1>5. Carrying(w)'
  BY <1>3, <1>4, LabelsOfOp DEF Carrying, Rowed, PurgeOps, CleanupOps
<1>6. \A f \in F : f[1] \notin contended' => Knows(w, f)'
  BY <1>3, <1>4 DEF Knows, IInv, Content
<1>7. Starting(w, "build", "write", F, {b}, FALSE)
  BY <1>3, <1>4, <1>5, <1>6, LabelsOfOp DEF Starting, CleanupOps, StartBuild
<1> QED BY <1>2, <1>7, BeginKeeps

\* A purge starts.
LEMMA StartPurgeKeeps ==
  ASSUME IInv, NEW w \in Worker, NEW d \in Doc, NEW o \in PurgeOps,
         StartPurge(w, d, o)
  PROVE  IInv'
<1>1. PICK f \in File : f = <<d, uri[d]>> /\ f[1] = d /\ Rowed(f)
  BY RowFile DEF StartPurge, IInv
<1>2. Begin(w, o, "begin", {f}, {}, FALSE)
  BY <1>1 DEF StartPurge
<1>3. /\ o \in Ops /\ o \in AllOps
      /\ pc'[w] = "begin" /\ op'[w] = o /\ items'[w] = {f}
      /\ batches'[w] = {} /\ todo'[w] = {} /\ seen'[w] = FALSE
      /\ state' = state
  BY <1>2, ConstantsAssumption DEF Begin, IInv, TypeOK, storeVars
<1>4. Carrying(w)'
  BY <1>1, <1>3, LabelsOfOp DEF Carrying, Rowed, PurgeOps, CleanupOps
<1>5. Knows(w, f)'
  BY <1>1, <1>3 DEF Knows, Storers, PurgeOps, StartPurge
<1>6. Starting(w, o, "begin", {f}, {}, FALSE)
  BY <1>3, <1>4, <1>5, LabelsOfOp DEF Starting, PurgeOps, CleanupOps
<1> QED BY <1>2, <1>6, BeginKeeps

\* A restore starts.
LEMMA StartRestoreKeeps ==
  ASSUME IInv, NEW w \in Worker, NEW d \in Doc, StartRestore(w, d)
  PROVE  IInv'
<1>1. PICK f \in File : f = <<d, uri[d]>> /\ f[1] = d /\ Rowed(f)
  BY RowFile DEF StartRestore, IInv
<1>2. Begin(w, "restore", "unbury", {f}, {}, FALSE)
  BY <1>1 DEF StartRestore
<1>3. /\ "restore" \in Ops /\ "restore" \in AllOps
      /\ pc'[w] = "unbury" /\ op'[w] = "restore" /\ items'[w] = {f}
      /\ batches'[w] = {} /\ todo'[w] = {} /\ seen'[w] = FALSE
      /\ state' = state
  BY <1>2, ConstantsAssumption DEF Begin, IInv, TypeOK, storeVars
<1>4. Carrying(w)'
  BY <1>1, <1>3, LabelsOfOp DEF Carrying, Rowed, PurgeOps, CleanupOps
<1>5. Knows(w, f)'
  BY <1>3 DEF Knows, Storers
<1>6. Starting(w, "restore", "unbury", {f}, {}, FALSE)
  BY <1>3, <1>4, <1>5, LabelsOfOp DEF Starting, CleanupOps
<1> QED BY <1>2, <1>6, BeginKeeps

\* A cleanup starts.
LEMMA StartCleanupKeeps ==
  ASSUME IInv, NEW w \in Worker, NEW o \in CleanupOps, StartCleanup(w, o)
  PROVE  IInv'
<1>1. Begin(w, o, "list_docs", {}, manifests, FALSE)
  BY DEF StartCleanup
<1>2. /\ o \in Ops /\ o \in AllOps
      /\ pc'[w] = "list_docs" /\ op'[w] = o /\ items'[w] = {}
      /\ batches'[w] = manifests /\ todo'[w] = {} /\ seen'[w] = FALSE
  BY <1>1, ConstantsAssumption DEF Begin, IInv, TypeOK, storeVars
<1>3. Carrying(w)'
  BY <1>2, LabelsOfOp DEF Carrying, PurgeOps, CleanupOps
<1>4. Starting(w, o, "list_docs", {}, manifests, FALSE)
  BY <1>2, <1>3, LabelsOfOp DEF Starting, CleanupOps, IInv, TypeOK
<1> QED BY <1>1, <1>4, BeginKeeps

-----------------------------------------------------------------------------
(* The theorems.                                                           *)

\* IInv holds of the initial state.
LEMMA InitIInv == Init => IInv
<1> SUFFICES ASSUME Init PROVE IInv
  OBVIOUS
<1>1. TypeOK
  BY ConstantsAssumption DEF Init, TypeOK, States, Labels, AllOps
<1>2. \A w \in Worker : Carrying(w) /\ Owning(w) /\ op[w] = "none"
  BY LabelsOfOp DEF Init, Carrying, Owning, PurgeOps, CleanupOps
<1>3. Manifested /\ \A d \in Doc : Content(d) /\ ~\E w \in Worker : Concerns(w, d)
  BY DEF Init, Manifested, Content, Concerns, About, CleanupOps
<1>4. \A w \in Worker, f \in File :
        f \notin items[w] /\ f \notin raw /\ Skips(w, f)
  BY DEF Init, Skips
<1>5. raw = {}
  BY DEF Init
<1>6. Exclusion
  BY <1>3 DEF Exclusion
<1>7. \A w \in Worker : op[w] \notin CleanupOps
  BY <1>2 DEF CleanupOps
<1> QED BY <1>1, <1>2, <1>3, <1>4, <1>5, <1>6, <1>7 DEF IInv

\* IInv is inductive.
LEMMA NextIInv == IInv /\ [Next]_vars => IInv'
<1> SUFFICES ASSUME IInv, [Next]_vars PROVE IInv'
  OBVIOUS
<1>1. CASE UNCHANGED vars
  <2> USE <1>1 DEF vars, storeVars, procVars, envVars
  <2>1. TypeOK'
    BY DEF IInv, TypeOK
  <2>2. Manifested' /\ Exclusion'
    BY DEF IInv, Manifested, Exclusion, Concerns, Listed, Rowed
  <2>3. \A w \in Worker : Carrying(w)' /\ Owning(w)'
    BY DEF IInv, Carrying, Owning, Listed, Rowed
  <2>4. \A d \in Doc \ contended' : Content(d)'
    BY DEF IInv, Content
  <2>5. \A f \in File : f[1] \notin contended' =>
          \A w \in Worker : /\ f \in items'[w] => Knows(w, f)'
                            /\ op'[w] \in CleanupOps => Sweeps(w, f)'
                            /\ crashes' = 0 => Skips(w, f)'
    BY DEF IInv, Knows, Sweeps, Skips, Writing, Rowed
  <2>6. \A f \in raw' : f[1] \notin contended' /\ crashes' = 0
                         => Accounted(f)'
    BY DEF IInv, Accounted, Rowed
  <2> QED BY <2>1, <2>2, <2>3, <2>4, <2>5, <2>6 DEF IInv
<1> SUFFICES ASSUME NEW w \in Worker,
               \/ Start(w) \/ WriteManifest(w) \/ Cleanup(w) \/ Crash(w)
               \/ \E f \in File : Store(w, f) \/ Purge(w, f)
             PROVE  IInv'
  BY <1>1 DEF Next
<1>2. CASE Start(w)
  BY <1>2, StartUploadKeeps, StartIngestKeeps, StartCollectKeeps,
     StartBuildKeeps, StartPurgeKeeps, StartRestoreKeeps, StartCleanupKeeps
     DEF Start
<1>3. CASE WriteManifest(w) \/ Crash(w)
  BY <1>3, WriteManifestSound, CrashSound, Composing
<1>4. CASE Cleanup(w)
  BY <1>4, ListDocumentsSound, ListRawSound, EndCleanupSound,
     DeleteManifestSound, DeleteOrphanSound, Composing DEF Cleanup
<1>5. ASSUME NEW f \in File, Store(w, f)
      PROVE  IInv'
  BY <1>5, CheckTombstoneSound, PutUploadSound, PutCollectedSound,
     LoadRawSound, RecheckPurgedSound, InsertDocumentSound,
     SettleDocumentSound, Composing DEF Store
<1>6. ASSUME NEW f \in File, Purge(w, f)
      PROVE  IInv'
  BY <1>6, BeginPurgeSound, DeleteRawSound, InsertTombstoneSound,
     MarkPurgedSound, ClearTombstoneSound, ReviveSound, Composing DEF Purge
<1> QED BY <1>2, <1>3, <1>4, <1>5, <1>6

\* What a step of any worker may rely on holds of every reachable state.
THEOREM Invariance == Spec => []IInv
  BY InitIInv, NextIInv, PTL DEF Spec

\* The variables of the model have their types.
THEOREM TypeCorrect == Spec => []TypeOK
<1>1. IInv => TypeOK
  BY DEF IInv
<1> QED BY <1>1, Invariance, PTL

\* When no call failed, no raw file is lost from sight (FileAccounted): its
\* document has a row, a manifest lists it, or an operation carries it.
THEOREM NoFileIsLost == Spec => []FileAccounted
<1>1. IInv => FileAccounted
  BY DEF IInv, FileAccounted, Accounted, Rowed, TypeOK
<1> QED BY <1>1, Invariance, PTL

\* When no call failed, an upload that answers already_exists leaves out a row
\* that is there or about to be written (SkippedHasRow).
THEOREM SkippedRowIsWritten == Spec => []SkippedHasRow
<1>1. IInv => SkippedHasRow
  <2> SUFFICES ASSUME IInv, NEW w \in Worker, crashes = 0, pc[w] = "put",
                      seen[w], NEW f \in items[w], f[1] \notin contended
               PROVE  \/ state[f[1]] # "none"
                      \/ \E v \in Worker \ {w} : op[v] = "upload" /\ ~seen[v]
                                                 /\ items[v] = {f}
    BY DEF SkippedHasRow
  <2>1. f \in File /\ op[w] = "upload"
    BY DEF IInv, TypeOK, Carrying
  <2>2. Skips(w, f)
    BY <2>1 DEF IInv
  <2> QED BY <2>1, <2>2 DEF Skips, Rowed, Writing
<1> QED BY <1>1, Invariance, PTL

\* While nobody runs the cleanup without a project_id, which takes every file
\* for an orphan, the file a row names is there unless a hard purge deleted it
\* (RowHasFile): no cleanup of the project takes it.
THEOREM RowKeepsFile ==
  ASSUME "cleanup_all" \notin Ops
  PROVE  Spec => []RowHasFile
<1>1. IInv => RowHasFile
  BY DEF IInv, RowHasFile, Content
<1> QED BY <1>1, Invariance, PTL

\* What a step may do to a document that is buried before and after it.
Blocked(d) ==
  /\ \A f \in raw' \ raw : f[1] = d => \E w \in Worker :
       op[w] = "collect" /\ f \in items[w]
  /\ \A b \in Batch : \A f \in lines'[b] \ lines[b] : f[1] = d =>
       \E w \in Worker : op[w] = "collect" /\ f \in items[w]
  /\ state[d] = "purged" => state'[d] = "purged"

\* No step stops a document from being contended.
LEMMA ContendedGrows ==
  ASSUME IInv, Next
  PROVE  contended \subseteq contended'
<1> SUFFICES ASSUME NEW w \in Worker,
               \/ Start(w) \/ WriteManifest(w) \/ Cleanup(w) \/ Crash(w)
               \/ \E f \in File : Store(w, f) \/ Purge(w, f)
             PROVE  contended \subseteq contended'
  BY DEF Next
<1>1. CASE Start(w)
  BY <1>1 DEF Start, StartUpload, StartIngest, StartCollect, StartBuild,
     StartPurge, StartRestore, StartCleanup, Begin
<1>2. CASE WriteManifest(w) \/ Crash(w)
  BY <1>2 DEF WriteManifest, Crash, envVars
<1>3. CASE Cleanup(w)
  BY <1>3 DEF Cleanup, ListDocuments, ListRaw, EndCleanup, DeleteManifest,
     DeleteOrphan, envVars
<1>4. ASSUME NEW f \in File, Store(w, f)
      PROVE  contended' = contended
  BY <1>4 DEF Store, CheckTombstone, PutUpload, PutCollected, LoadRaw,
     RecheckPurged, InsertDocument, SettleDocument, envVars
<1>5. ASSUME NEW f \in File, Purge(w, f)
      PROVE  contended' = contended
  BY <1>5 DEF Purge, BeginPurge, DeleteRaw, InsertTombstone, MarkPurged,
     ClearTombstone, Revive, envVars
<1> QED BY <1>1, <1>2, <1>3, <1>4, <1>5

\* What sets the row of a document sets one that is not buried, or not purged.
LEMMA SettersBlocked ==
  ASSUME IInv, NEW w \in Worker, NEW f \in File,
         NEW d \in tombstones \ contended,
         \/ InsertDocument(w, f) \/ SettleDocument(w, f) \/ BeginPurge(w, f)
         \/ MarkPurged(w, f) \/ Revive(w, f)
  PROVE  Blocked(d)
<1>1. /\ raw' = raw /\ lines' = lines /\ d \in Doc
      /\ items[w] = {f} /\ state \in [Doc -> States]
  BY DEF InsertDocument, SettleDocument, BeginPurge, MarkPurged, Revive, At,
     IInv, TypeOK
<1>2. f[1] = d => Knows(w, f)
  BY <1>1 DEF IInv
<1>3. CASE InsertDocument(w, f) \/ SettleDocument(w, f)
  <2>1. f[1] # d
    BY <1>2, <1>3, OpAt DEF InsertDocument, SettleDocument, At, Knows, Storers
  <2>2. state'[d] = state[d]
    BY <1>1, <1>3, <2>1 DEF InsertDocument, SettleDocument
  <2> QED BY <1>1, <2>2 DEF Blocked
<1>4. CASE BeginPurge(w, f)
  BY <1>1, <1>2, <1>4 DEF BeginPurge, At, SetState, Knows, Blocked
<1>5. CASE MarkPurged(w, f)
  BY <1>1, <1>5, FileParts DEF MarkPurged, SetState, Blocked
<1>6. CASE Revive(w, f)
  BY <1>1, <1>2, <1>6 DEF Revive, At, SetState, Knows, Blocked
<1> QED BY <1>3, <1>4, <1>5, <1>6

\* What puts a file of a document, or lists it, and is not a collector has
\* looked for its tombstone.
LEMMA WritersBlocked ==
  ASSUME IInv, NEW w \in Worker, NEW d \in tombstones \ contended,
         \/ WriteManifest(w)
         \/ \E f \in File : PutUpload(w, f) \/ PutCollected(w, f)
  PROVE  Blocked(d)
<1>1. ASSUME NEW f \in File, PutUpload(w, f)
      PROVE  Blocked(d)
  <2>1. items[w] = {f} /\ pc[w] = "put" /\ op[w] = "upload"
    BY <1>1 DEF PutUpload, At
  <2>2. f[1] # d
    BY <2>1 DEF IInv, Knows, Storers
  <2> QED BY <1>1, <2>2 DEF PutUpload, Blocked
<1>2. ASSUME NEW f \in File, PutCollected(w, f)
      PROVE  Blocked(d)
  <2>1. op[w] = "collect" /\ f \in items[w]
    BY <1>2 DEF PutCollected, IInv, Carrying
  <2> QED BY <1>2, <2>1 DEF PutCollected, Blocked
<1>3. CASE WriteManifest(w)
  <2>1. /\ pc[w] = "write" /\ raw' = raw /\ state' = state
        /\ \A b \in Batch : lines'[b] \subseteq lines[b] \cup items[w]
        /\ items[w] \subseteq File
    BY <1>3 DEF WriteManifest, IInv, TypeOK
  <2>2. CASE op[w] = "collect"
    BY <2>1, <2>2 DEF Blocked
  <2>3. CASE op[w] = "build"
    <3>1. \A g \in items[w] : g[1] # d
      BY <2>1, <2>3 DEF IInv, Knows, Storers
    <3> QED BY <2>1, <3>1 DEF Blocked
  <2> QED BY <2>1, <2>2, <2>3, OpAt
<1> QED BY <1>1, <1>2, <1>3

\* Every other step puts no file, lists none and sets no row.
LEMMA OthersBlocked ==
  ASSUME IInv, NEW w \in Worker, NEW d,
         \/ Start(w) \/ Cleanup(w) \/ Crash(w)
         \/ \E f \in File :
              \/ CheckTombstone(w, f) \/ LoadRaw(w, f) \/ RecheckPurged(w, f)
              \/ DeleteRaw(w, f) \/ InsertTombstone(w, f)
              \/ ClearTombstone(w, f)
  PROVE  Blocked(d)
<1> SUFFICES /\ raw' \subseteq raw /\ state' = state
             /\ \A b \in Batch : lines'[b] \subseteq lines[b]
  BY DEF Blocked
<1>1. CASE Start(w)
  BY <1>1 DEF Start, StartUpload, StartIngest, StartCollect, StartBuild,
     StartPurge, StartRestore, StartCleanup, Begin, storeVars
<1>2. CASE Cleanup(w)
  BY <1>2 DEF Cleanup, ListDocuments, ListRaw, EndCleanup, DeleteManifest,
     DeleteOrphan, storeVars, IInv, TypeOK
<1>3. CASE \/ Crash(w)
           \/ \E f \in File : CheckTombstone(w, f) \/ LoadRaw(w, f)
                             \/ RecheckPurged(w, f)
  BY <1>3 DEF CheckTombstone, LoadRaw, RecheckPurged, Crash, storeVars
<1>4. CASE \E f \in File : DeleteRaw(w, f) \/ InsertTombstone(w, f)
                          \/ ClearTombstone(w, f)
  BY <1>4 DEF DeleteRaw, InsertTombstone, ClearTombstone
<1> QED BY <1>1, <1>2, <1>3, <1>4

\* A buried document is blocked (BuriedIsBlocked): while it stays buried, no
\* file of it is put and no manifest lists it but by a collector, and its row
\* stays purging or purged, and purged once it is that.
THEOREM BuriedStaysBlocked == Spec => BuriedIsBlocked
<1>1. ASSUME IInv, [Next]_vars,
             NEW d \in (tombstones \cap tombstones') \ contended'
      PROVE  /\ Blocked(d) /\ state'[d] \in {"purging", "purged"}
  <2>1. state'[d] \in {"purging", "purged"}
    BY <1>1, NextIInv DEF IInv, Content, TypeOK
  <2> SUFFICES Blocked(d)
    BY <2>1
  <2>2. CASE UNCHANGED vars
    <3>1. raw' = raw /\ lines' = lines /\ state' = state
      BY <2>2 DEF vars, storeVars
    <3> QED BY <3>1 DEF Blocked
  <2>3. CASE Next
    <3>1. d \notin contended
      BY <2>3, <1>1, ContendedGrows
    <3>2. PICK w \in Worker :
            \/ Start(w) \/ WriteManifest(w) \/ Cleanup(w) \/ Crash(w)
            \/ \E f \in File : Store(w, f) \/ Purge(w, f)
      BY <2>3 DEF Next
    <3>3. ASSUME NEW f \in File, Store(w, f) \/ Purge(w, f)
          PROVE  Blocked(d)
      BY <1>1, <3>1, <3>3, SettersBlocked, WritersBlocked, OthersBlocked
         DEF Store, Purge
    <3>4. CASE Start(w) \/ WriteManifest(w) \/ Cleanup(w) \/ Crash(w)
      BY <1>1, <3>1, <3>4, WritersBlocked, OthersBlocked
    <3> QED BY <3>2, <3>3, <3>4
  <2> QED BY <1>1, <2>2, <2>3
<1>2. IInv /\ [Next]_vars =>
        [\A d \in (tombstones \cap tombstones') \ contended' :
           /\ \A f \in raw' \ raw : f[1] = d => \E w \in Worker :
                op[w] = "collect" /\ f \in items[w]
           /\ \A b \in Batch : \A f \in lines'[b] \ lines[b] : f[1] = d =>
                \E w \in Worker : op[w] = "collect" /\ f \in items[w]
           /\ state[d] = "purged" => state'[d] = "purged"
           /\ state'[d] \in {"purging", "purged"}]_vars
  BY <1>1 DEF Blocked
<1> QED BY <1>2, Invariance, PTL DEF Spec, BuriedIsBlocked
=============================================================================
