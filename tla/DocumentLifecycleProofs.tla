---------------------- MODULE DocumentLifecycleProofs ----------------------
(***************************************************************************)
(* The theorems about DocumentLifecycle, for any number of documents,      *)
(* chunks, workers, retries and failures, and any mix of operations: its   *)
(* type invariant, its inductive invariant IInv, the safety properties     *)
(* that follow from it, what a step may do to an erased document, and that *)
(* every step is one of DocumentContract or a stutter.                     *)
(*                                                                         *)
(* First the rely-guarantee frame.  A worker only touches the documents of *)
(* its batch; on a document that is not contended, whoever else is there   *)
(* runs an operation Alike its own.  So a step is Sound when it keeps      *)
(* CoreInv about its own documents and gives the Guarantee an operation of *)
(* the same kind relies on; Composing says that a sound step preserves     *)
(* CoreInv, whatever the other workers are doing.                          *)
(*                                                                         *)
(* Then the steps, shown to be sound: one lemma per action, in the order   *)
(* of DocumentLifecycle.  In each of them                                  *)
(*   <1>1, <1>2 say where the worker is and what it may be running;        *)
(*   <1>3 where it goes, with the types of the process variables;          *)
(*   <1>4 which documents the step does not touch, and the other types;    *)
(*   <1>5 what becomes of the document in the stores;                      *)
(*   <1>6 what the worker knows after the step.                            *)
(* The steps over the documents of a batch come after them, and then the   *)
(* theorems.                                                               *)
(***************************************************************************)
EXTENDS DocumentInvariant, TLAPS

\* AfterLookup, operation by operation.
LEMMA AfterLookupOf ==
  ASSUME NEW o \in AllOps, NEW s \in States
  PROVE  /\ o \in IngestOps =>
              AfterLookup(o, s) = IF s \in Indexed THEN "list" ELSE "upsert"
         /\ o \in PurgeOps =>
              AfterLookup(o, s) =
                IF s \in {"none", "purged"} THEN "idle" ELSE "begin"
         /\ o = "restore" =>
              AfterLookup(o, s) = IF s = "none" THEN "idle" ELSE "unbury"
         /\ o \in {"reingest", "graphrag"} =>
              AfterLookup(o, s) =
                IF s \in {"none", "purged"} THEN "idle" ELSE "list"
  BY DEF AfterLookup, IngestOps, PurgeOps, AllOps

\* AfterCompensation, operation by operation.
LEMMA AfterCompensationOf ==
  ASSUME NEW o \in AllOps
  PROVE  /\ o \in IngestOps => AfterCompensation(o) = "upsert"
         /\ o \in PurgeOps => AfterCompensation(o) = "del_parsed"
         /\ o \notin IngestOps \cup PurgeOps => AfterCompensation(o) = "revive"
  BY DEF AfterCompensation, IngestOps, PurgeOps, AllOps

\* LabelsOf, operation by operation.
LEMMA LabelsOfOp ==
  ASSUME NEW o \in AllOps \cup {"none"}
  PROVE  /\ o \in IngestOps =>
              LabelsOf(o) =
                {"lookup"} \cup IngestLabels \cup CompensationLabels
         /\ o \in PurgeOps =>
              LabelsOf(o) = {"lookup"} \cup PurgeLabels \cup CompensationLabels
         /\ o = "restore" => LabelsOf(o) = {"lookup", "unbury", "revive"}
         /\ o = "reingest" =>
              LabelsOf(o) = {"lookup", "revive"} \cup CompensationLabels
         /\ o = "graphrag" => LabelsOf(o) = GraphLabels
         /\ o = "none" => LabelsOf(o) = {"idle"}
  BY DEF LabelsOf, IngestOps, PurgeOps, AllOps

\* Where a worker is tells which operations it may be running.
LEMMA OpAt ==
  ASSUME TypeOK, Control, NEW w \in Worker
  PROVE  /\ pc[w] # "idle" => op[w] \in AllOps
         /\ pc[w] \in IngestLabels => op[w] \in IngestOps
         /\ pc[w] \in PurgeLabels => op[w] \in PurgeOps
         /\ pc[w] \in GraphLabels => op[w] = "graphrag"
         /\ pc[w] \in CompensationLabels =>
              op[w] \in IngestOps \cup PurgeOps \cup {"reingest"}
         /\ pc[w] = "lookup" => op[w] \in AllOps \ {"graphrag"}
         /\ pc[w] = "unbury" => op[w] = "restore"
         /\ pc[w] = "revive" => op[w] \in {"restore", "reingest"}
<1>1. op[w] \in AllOps \cup {"none"} /\ pc[w] \in LabelsOf(op[w])
  BY DEF TypeOK, Control
<1> QED
  BY <1>1, LabelsOfOp
  DEF AllOps, IngestOps, PurgeOps, IngestLabels, PurgeLabels, GraphLabels,
      CompensationLabels

\* A step of w leaves what the other workers hold alone.
Bystanders(w) ==
  \A v \in Worker \ {w} :
    /\ pc'[v] = pc[v] /\ op'[v] = op[v]
    /\ batch'[v] = batch[v] /\ held'[v] = held[v]

\* The two ways a step of w leaves its control.
Going(w, l) ==
  /\ op[w] \in AllOps /\ l \in LabelsOf(op[w]) /\ pc'[w] = l
  /\ op'[w] = op[w] /\ batch'[w] = batch[w]

Ending(w) ==
  /\ pc'[w] = "idle" /\ op'[w] = "none"
  /\ batch'[w] = {} /\ held'[w] = NoChunks

\* The two halves of the type invariant: the workers and what they work on.
Processes ==
  /\ pc \in [Worker -> Labels]
  /\ op \in [Worker -> AllOps \cup {"none"}]
  /\ batch \in [Worker -> SUBSET Doc]
  /\ held \in [Worker -> [Doc -> SUBSET Chunk]]
  /\ tries \in [Worker -> 0..RetryLimit]

Stores ==
  /\ ingest_state \in [Doc -> States]
  /\ tombstones \subseteq Doc /\ stale \subseteq Doc
  /\ rows \in [Doc -> SUBSET Chunk]
  /\ embedded \in [Doc -> SUBSET Chunk]
  /\ raw \subseteq Doc /\ parsed \subseteq Doc
  /\ pages \subseteq Doc /\ letters \subseteq Doc
  /\ artifact \in [Doc -> SUBSET Chunk]
  /\ vertices \in [Doc -> SUBSET Chunk]
  /\ outcomes \in [Doc -> Profiles]
  /\ crashes \in 0..MaxCrashes
  /\ contended \subseteq Doc

\* The type invariant is the sum of its halves.
LEMMA TypeParts == TypeOK <=> Processes /\ Stores
  BY DEF TypeOK, Processes, Stores

\* No operation leaves the set of labels.
LEMMA LabelsOfLabels ==
  \A o \in AllOps \cup {"none"} : LabelsOf(o) \subseteq Labels
  BY LabelsOfOp
  DEF AllOps, IngestOps, PurgeOps, Labels

\* Goto leaves the worker in its operation, whatever becomes of held[w].
LEMMA GotoGoes ==
  ASSUME Processes, NEW w \in Worker, op[w] \in AllOps,
         NEW l \in LabelsOf(op[w]), Goto(w, l),
         held' \in [Worker -> [Doc -> SUBSET Chunk]],
         \A v \in Worker \ {w} : held'[v] = held[v]
  PROVE  Processes' /\ Bystanders(w) /\ Going(w, l)
<1>1. l \in Labels
  BY LabelsOfLabels DEF Processes
<1> QED BY <1>1 DEF Processes, Goto, Bystanders, Going

\* Finish leaves an idle worker.
LEMMA FinishEnds ==
  ASSUME Processes, NEW w \in Worker, Finish(w)
  PROVE  Processes' /\ Bystanders(w) /\ Ending(w)
<1>1. /\ "idle" \in Labels /\ NoChunks \in [Doc -> SUBSET Chunk]
      /\ 0 \in 0..RetryLimit
  BY ConstantsAssumption DEF Labels, NoChunks, ConstantsAssumption
<1> QED BY <1>1 DEF Processes, Finish, Bystanders, Ending

\* A failed attempt ends the operation, or an ingest starts over.
LEMMA EndAttemptEnds ==
  ASSUME Processes, NEW w \in Worker, EndAttempt(w)
  PROVE  /\ Processes' /\ Bystanders(w)
         /\ \/ Ending(w)
            \/ /\ Going(w, "load") /\ op[w] \in IngestOps
               /\ held'[w] = NoChunks
<1>1. CASE Restartable(w)
  <2>1. Restart(w)
    BY <1>1 DEF EndAttempt
  <2>2. "load" \in Labels /\ NoChunks \in [Doc -> SUBSET Chunk]
        /\ tries[w] + 1 \in 0..RetryLimit
    BY <1>1, ConstantsAssumption
    DEF Labels, IngestLabels, NoChunks, ConstantsAssumption, Restartable,
        Processes
  <2>3. op[w] \in IngestOps /\ op[w] \in AllOps /\ "load" \in LabelsOf(op[w])
    BY <1>1, LabelsOfOp DEF Restartable, Processes, IngestLabels, AllOps
  <2> QED BY <2>1, <2>2, <2>3 DEF Restart, Processes, Bystanders, Going
<1>2. CASE ~Restartable(w)
  BY <1>2, FinishEnds DEF EndAttempt
<1> QED BY <1>1, <1>2

\* Nothing the invariant says of document e changes.
Untouched(e) ==
  /\ ingest_state'[e] = ingest_state[e]
  /\ (e \in tombstones') <=> (e \in tombstones)
  /\ (e \in parsed') <=> (e \in parsed)
  /\ (e \in letters') <=> (e \in letters)
  /\ rows'[e] = rows[e] /\ embedded'[e] = embedded[e]
  /\ artifact'[e] = artifact[e] /\ vertices'[e] = vertices[e]

\* What an operation of the same kind may rely on.
Guarantee(o, e) ==
  /\ o \in PurgeOps =>
       /\ \/ ingest_state'[e] = ingest_state[e]
          \/ ingest_state'[e] \in {"purging", "purged"}
       /\ rows'[e] \subseteq rows[e] /\ artifact'[e] \subseteq artifact[e]
       /\ vertices'[e] \subseteq vertices[e]
       /\ e \in parsed' => e \in parsed
       /\ e \in letters' => e \in letters
  /\ o = "reingest" => rows'[e] = rows[e]
  /\ o = "graphrag" =>
       /\ rows'[e] = rows[e]
       /\ ingest_state[e] \in Indexed => ingest_state'[e] \in Indexed

\* A step of w that keeps to its part of the inductive invariant.
Sound(w) ==
  /\ contended' = contended
  /\ Processes' /\ Stores' /\ Bystanders(w)
  /\ Ending(w) \/ \E l \in Labels : Going(w, l)
  /\ \A e \in Doc \ (batch[w] \cup contended) : Untouched(e)
  /\ \A e \in batch[w] \ contended : Guarantee(op[w], e) /\ Content(e)'
  /\ \A e \in batch'[w] \ contended : Knowledge(w, e)'

\* What is untouched keeps its part of the invariant.
LEMMA Untouching ==
  ASSUME NEW e \in Doc, Untouched(e), Content(e)
  PROVE  Content(e)'
  BY DEF Untouched, Content, Erased

\* What worker v knows survives a step of w that leaves the document alone, or
\* that keeps the guarantee of an operation like the one of v.
LEMMA Relying ==
  ASSUME TypeOK, NEW w \in Worker, NEW v \in Worker \ {w}, NEW e \in Doc,
         Bystanders(w), Knowledge(v, e), pc[v] \in LabelsOf(op[v]),
         Untouched(e) \/ (Alike(op[v], op[w]) /\ Guarantee(op[w], e))
  PROVE  Knowledge(v, e)'
<1> USE DEF Bystanders
<1>1. CASE Untouched(e)
  BY <1>1 DEF Untouched, Knowledge, Compensating, Purging, Ingesting, Graphing
<1>2. CASE Alike(op[v], op[w]) /\ Guarantee(op[w], e)
  <2>1. CASE op[v] \in PurgeOps
    BY <1>2, <2>1
    DEF TypeOK, Alike, Guarantee, Knowledge, Compensating, Purging, Ingesting,
        Graphing, PurgeOps, IngestOps
  <2>2. CASE op[v] = op[w] /\ op[v] \in {"restore", "reingest", "graphrag"}
    <3>1. pc[v] \in {"clear", "unlink"} => op[v] = "reingest"
      BY <2>2, LabelsOfOp DEF GraphLabels, AllOps
    <3>2. op[v] = "reingest" => rows'[e] \subseteq rows[e]
      BY <1>2, <2>2 DEF Guarantee
    <3>3. Compensating(v, e)'
      BY <3>1, <3>2 DEF Knowledge, Compensating
    <3> QED
      BY <1>2, <2>2, <3>3 DEF TypeOK, Guarantee, Knowledge, Purging, Ingesting,
         Graphing, PurgeOps, IngestOps
  <2> QED BY <1>2, <2>1, <2>2 DEF Alike
<1> QED BY <1>1, <1>2

\* A sound step of one worker preserves the inductive invariant.
LEMMA Composing ==
  ASSUME CoreInv, NEW w \in Worker, Sound(w)
  PROVE  CoreInv'
<1>1. Control'
  <2>1. /\ pc'[w] \in LabelsOf(op'[w])
        /\ op'[w] = "none" => batch'[w] = {} /\ held'[w] = NoChunks
    <3>1. CASE Ending(w)
      BY <3>1, LabelsOfOp DEF Ending
    <3>2. CASE \E l \in Labels : Going(w, l)
      BY <3>2 DEF Going, AllOps, IngestOps, PurgeOps
    <3> QED BY <3>1, <3>2 DEF Sound
  <2> QED BY <2>1 DEF CoreInv, Sound, Bystanders, Control, TypeOK
<1>2. Exclusion'
  BY DEF CoreInv, Sound, Bystanders, Exclusion, Going, Ending, TypeOK
<1>3. \A e \in Doc \ contended' : Content(e)'
  BY Untouching DEF CoreInv, Sound
<1>4. ASSUME NEW v \in Worker, NEW e \in batch'[v] \ contended'
      PROVE  Knowledge(v, e)'
  <2>1. CASE v = w
    BY <2>1 DEF Sound
  <2>2. CASE v # w
    <3>1. /\ e \in batch[v] /\ e \in Doc
          /\ e \notin contended /\ v \in Worker \ {w}
      BY <2>2 DEF Sound, Bystanders, CoreInv, TypeOK
    <3>2. /\ Knowledge(v, e) /\ TypeOK /\ Bystanders(w)
          /\ pc[v] \in LabelsOf(op[v])
      BY <3>1 DEF CoreInv, Sound, Control
    <3>3. CASE e \in batch[w]
      <4>1. Alike(op[v], op[w])
        BY <3>1, <3>3 DEF CoreInv, Exclusion
      <4>2. Guarantee(op[w], e)
        BY <3>1, <3>3 DEF Sound
      <4> QED BY <3>1, <3>2, <4>1, <4>2, Relying
    <3>4. CASE e \notin batch[w]
      <4>1. Untouched(e)
        BY <3>1, <3>4 DEF Sound
      <4> QED BY <3>1, <3>2, <4>1, Relying
    <3> QED BY <3>3, <3>4
  <2> QED BY <2>1, <2>2
<1>5. TypeOK'
  BY DEF Sound, TypeOK, Processes, Stores
<1> QED BY <1>1, <1>2, <1>3, <1>4, <1>5 DEF CoreInv

-----------------------------------------------------------------------------
(* The steps.                                                              *)

\* The state read decides how an operation goes on and what it may rely on.
LEMMA GetDocumentSound ==
  ASSUME CoreInv, NEW w \in Worker, NEW d \in Doc, GetDocument(w, d)
  PROVE  Sound(w)
<1>1. Processes /\ Stores /\ batch[w] = {d} /\ pc[w] = "lookup"
  BY TypeParts DEF CoreInv, GetDocument, At
<1>2. op[w] \in AllOps \ {"graphrag"}
  BY <1>1, OpAt DEF CoreInv
<1>3. Processes' /\ Bystanders(w)
      /\ (Ending(w) \/ Going(w, AfterLookup(op[w], ingest_state[d])))
  <2>1. AfterLookup(op[w], ingest_state[d]) \in LabelsOf(op[w]) \cup {"idle"}
    BY <1>1, <1>2, LabelsOfOp, AfterLookupOf, AfterCompensationOf
    DEF AllOps, IngestOps, PurgeOps, IngestLabels, CompensationLabels,
       PurgeLabels, Stores
  <2> QED
    BY <1>1, <1>2, <2>1, GotoGoes, FinishEnds, EndAttemptEnds
    DEF GetDocument, Processes
<1>4. Stores' /\ contended' = contended /\ \A e \in Doc : Untouched(e)
  BY <1>1 DEF GetDocument, Stores, Untouched, pgVars, blobVars, envVars
<1>5. ASSUME d \notin contended
      PROVE  Guarantee(op[w], d) /\ Content(d)'
  BY <1>4, <1>5, Untouching DEF CoreInv, Guarantee, Untouched
<1>6. ASSUME d \notin contended, d \in batch'[w]
      PROVE  Knowledge(w, d)'
  <2>1. Content(d) /\ Knowledge(w, d)
    BY <1>1, <1>6 DEF CoreInv
  <2>2. /\ Going(w, AfterLookup(op[w], ingest_state[d])) /\ held'[w] = held[w]
        /\ AfterLookup(op[w], ingest_state[d]) # "idle"
    BY <1>1, <1>3, <1>6, FinishEnds DEF GetDocument, Ending
  <2>3. /\ pc'[w] = AfterLookup(op[w], ingest_state[d]) /\ op'[w] = op[w]
        /\ ingest_state[d] \in States /\ ingest_state'[d] = ingest_state[d]
        /\ (d \in tombstones') <=> (d \in tombstones)
    BY <1>1, <1>4, <2>2 DEF Going, Stores, Untouched
  <2>4. CASE op[w] \in IngestOps
    <3>1. pc'[w] \in {"list", "upsert"}
      BY <1>2, <2>3, <2>4, AfterLookupOf
    <3>2. d \notin tombstones
      BY <1>1, <2>1, <2>4 DEF Knowledge, Ingesting
    <3> QED
      BY <2>3, <2>4, <3>1, <3>2
      DEF Knowledge, Compensating, Purging, Ingesting, Graphing, Inserted,
          IngestOps, PurgeOps
  <2>5. CASE op[w] \in PurgeOps
    <3>1. pc'[w] = "begin" /\ ingest_state[d] # "none"
      BY <1>2, <2>2, <2>3, <2>5, AfterLookupOf
    <3> QED
      BY <2>3, <2>5, <3>1
      DEF Knowledge, Compensating, Purging, Ingesting, Graphing, Unlinked,
          Unparsed, Unchunked, Unlettered, Rowless, IngestOps, PurgeOps
  <2>6. CASE op[w] \in {"restore", "reingest"}
    <3>1. pc'[w] \in {"unbury", "list"}
      BY <1>2, <2>2, <2>3, <2>6, AfterLookupOf
    <3> QED
      BY <2>3, <2>6, <3>1
      DEF Knowledge, Compensating, Purging, Ingesting, Graphing, IngestOps,
          PurgeOps
  <2> QED BY <1>2, <2>4, <2>5, <2>6 DEF AllOps
<1>7. \E l \in Labels : Ending(w) \/ Going(w, l)
  BY <1>3, LabelsOfLabels DEF Going, Labels
<1> QED BY <1>1, <1>2, <1>3, <1>4, <1>5, <1>6, <1>7 DEF Sound, Ending, Going

\* Compensation lists the rows: until it is over they are all it has to unlink.
LEMMA ListChunksSound ==
  ASSUME CoreInv, NEW w \in Worker, NEW d \in Doc, ListChunks(w, d)
  PROVE  Sound(w)
<1>1. Processes /\ Stores /\ batch[w] = {d} /\ pc[w] = "list"
  BY TypeParts DEF CoreInv, ListChunks, At
<1>2. op[w] \in AllOps /\ op[w] \in IngestOps \cup PurgeOps \cup {"reingest"}
  BY <1>1, OpAt DEF CoreInv, CompensationLabels
<1>3. Processes' /\ Bystanders(w)
      /\ Going(w, "clear")
  <2>1. {"clear"} \subseteq LabelsOf(op[w])
    BY <1>2, LabelsOfOp DEF CompensationLabels
  <2> QED BY <1>1, <1>2, <2>1, GotoGoes DEF ListChunks, Processes, Stores
<1>4. Stores' /\ contended' = contended /\ \A e \in Doc : Untouched(e)
  BY <1>1 DEF ListChunks, Stores, Untouched, pgVars, blobVars, envVars
<1>5. ASSUME d \notin contended
      PROVE  Guarantee(op[w], d) /\ Content(d)'
  BY <1>4, <1>5, Untouching DEF CoreInv, Guarantee, Untouched
<1>6. ASSUME d \notin contended, d \in batch'[w]
      PROVE  Knowledge(w, d)'
  <2>1. Content(d) /\ Knowledge(w, d)
    BY <1>1, <1>6 DEF CoreInv
  <2> QED
    BY <1>1, <1>3, <2>1
    DEF Going, ListChunks, Processes, Knowledge, Compensating, Purging,
        Ingesting, Graphing, Unlinked, Unparsed, Unchunked, Unlettered,
        Rowless, Inserted, pgVars
<1>7. \E l \in Labels : Ending(w) \/ Going(w, l)
  BY <1>3, LabelsOfLabels DEF Going
<1> QED BY <1>1, <1>3, <1>4, <1>5, <1>6, <1>7 DEF Sound, Going

\* Clearing embeddings leaves an indexed document with none, never with some.
LEMMA ClearEmbeddingsSound ==
  ASSUME CoreInv, NEW w \in Worker, NEW d \in Doc, ClearEmbeddings(w, d)
  PROVE  Sound(w)
<1>1. Processes /\ Stores /\ batch[w] = {d} /\ pc[w] = "clear"
  BY TypeParts DEF CoreInv, ClearEmbeddings, At
<1>2. op[w] \in AllOps /\ op[w] \in IngestOps \cup PurgeOps \cup {"reingest"}
  BY <1>1, OpAt DEF CoreInv, CompensationLabels
<1>3. Processes' /\ Bystanders(w)
      /\ Going(w, IF held[w][d] = {} THEN AfterCompensation(op[w])
                  ELSE "unlink")
  <2>1. {"unlink", AfterCompensation(op[w])} \subseteq LabelsOf(op[w])
    BY <1>2, LabelsOfOp, AfterCompensationOf
    DEF IngestLabels, CompensationLabels, PurgeLabels
  <2> QED BY <1>1, <1>2, <2>1, GotoGoes DEF ClearEmbeddings, Processes
<1>4. Stores' /\ contended' = contended /\ \A e \in Doc \ {d} : Untouched(e)
  BY <1>1 DEF ClearEmbeddings, Stores, Untouched, blobVars, envVars
<1>5. ASSUME d \notin contended
      PROVE  Guarantee(op[w], d) /\ Content(d)'
  <2>1. Content(d) /\ Compensating(w, d) /\ Purging(w, d)
    BY <1>1, <1>5 DEF CoreInv, Knowledge
  <2>2. Guarantee(op[w], d)
    BY DEF ClearEmbeddings, Guarantee, blobVars
  <2>3. Content(d)'
    BY <2>1 DEF ClearEmbeddings, Content, Erased, blobVars
  <2> QED BY <2>2, <2>3
<1>6. ASSUME d \notin contended, d \in batch'[w]
      PROVE  Knowledge(w, d)'
  <2>1. Content(d) /\ Knowledge(w, d)
    BY <1>1, <1>6 DEF CoreInv
  <2> QED
    BY <1>1, <1>3, <2>1, AfterCompensationOf
    DEF Going, ClearEmbeddings, Content, Knowledge, Compensating, Purging,
        Ingesting, Graphing, Unlinked, Unparsed, Unchunked, Unlettered,
        Rowless, Inserted
<1>7. \E l \in Labels : Ending(w) \/ Going(w, l)
  BY <1>3, LabelsOfLabels DEF Going
<1> QED BY <1>1, <1>3, <1>4, <1>5, <1>6, <1>7 DEF Sound, Going

\* After the unlinking a document that is purged has no vertex left.
LEMMA DeleteVerticesSound ==
  ASSUME CoreInv, NEW w \in Worker, NEW d \in Doc, DeleteVertices(w, d)
  PROVE  Sound(w)
<1>1. Processes /\ Stores /\ batch[w] = {d} /\ pc[w] = "unlink"
  BY TypeParts DEF CoreInv, DeleteVertices, At
<1>2. op[w] \in AllOps /\ op[w] \in IngestOps \cup PurgeOps \cup {"reingest"}
  BY <1>1, OpAt DEF CoreInv, CompensationLabels
<1>3. Processes' /\ Bystanders(w)
      /\ Going(w, AfterCompensation(op[w]))
  <2>1. {"unlink", AfterCompensation(op[w])} \subseteq LabelsOf(op[w])
    BY <1>2, LabelsOfOp, AfterCompensationOf
    DEF IngestLabels, CompensationLabels, PurgeLabels
  <2> QED BY <1>1, <1>2, <2>1, GotoGoes DEF DeleteVertices, Processes
<1>4. Stores' /\ contended' = contended /\ \A e \in Doc \ {d} : Untouched(e)
  BY <1>1 DEF DeleteVertices, Stores, Untouched, pgVars, blobVars, envVars
<1>5. ASSUME d \notin contended
      PROVE  Guarantee(op[w], d) /\ Content(d)'
  <2>1. Content(d) /\ Compensating(w, d) /\ Purging(w, d)
    BY <1>1, <1>5 DEF CoreInv, Knowledge
  <2>2. Guarantee(op[w], d)
    BY DEF DeleteVertices, Guarantee, pgVars, blobVars
  <2>3. Content(d)'
    BY <2>1 DEF DeleteVertices, Content, Erased, pgVars, blobVars
  <2> QED BY <2>2, <2>3
<1>6. ASSUME d \notin contended, d \in batch'[w]
      PROVE  Knowledge(w, d)'
  <2>1. Content(d) /\ Knowledge(w, d)
    BY <1>1, <1>6 DEF CoreInv
  <2> QED
    BY <1>1, <1>3, <2>1, AfterCompensationOf
    DEF Going, DeleteVertices, Stores, Content, Knowledge, Compensating,
        Purging, Ingesting, Graphing, Unparsed, Unchunked, Unlettered, Rowless,
        Inserted, pgVars
<1>7. \E l \in Labels : Ending(w) \/ Going(w, l)
  BY <1>3, LabelsOfLabels DEF Going
<1> QED BY <1>1, <1>3, <1>4, <1>5, <1>6, <1>7 DEF Sound, Going

\* An ingest whose raw file is missing fails and touches nothing.
LEMMA LoadRawSound ==
  ASSUME CoreInv, NEW w \in Worker, NEW d \in Doc, LoadRaw(w, d)
  PROVE  Sound(w)
<1>1. Processes /\ Stores /\ batch[w] = {d} /\ pc[w] = "load"
  BY TypeParts DEF CoreInv, LoadRaw, At
<1>2. op[w] \in AllOps /\ op[w] \in IngestOps
  BY <1>1, OpAt DEF CoreInv, IngestLabels
<1>3. Processes' /\ Bystanders(w)
      /\ \/ Going(w, "gate")
         \/ Ending(w)
         \/ Going(w, "load") /\ held'[w] = NoChunks
  <2>1. {"gate"} \subseteq LabelsOf(op[w])
    BY <1>2, LabelsOfOp DEF IngestLabels
  <2> QED BY <1>1, <1>2, <2>1, GotoGoes, EndAttemptEnds DEF LoadRaw, Processes
<1>4. Stores' /\ contended' = contended /\ \A e \in Doc : Untouched(e)
  BY <1>1 DEF LoadRaw, Stores, Untouched, pgVars, blobVars, envVars
<1>5. ASSUME d \notin contended
      PROVE  Guarantee(op[w], d) /\ Content(d)'
  BY <1>4, <1>5, Untouching DEF CoreInv, Guarantee, Untouched
<1>6. ASSUME d \notin contended, d \in batch'[w]
      PROVE  Knowledge(w, d)'
  <2>1. Content(d) /\ Knowledge(w, d)
    BY <1>1, <1>6 DEF CoreInv
  <2> QED
    BY <1>2, <1>3
    DEF Going, Ending, IngestOps, PurgeOps, Knowledge, Compensating, Purging,
        Ingesting, Graphing, Inserted
<1>7. \E l \in Labels : Ending(w) \/ Going(w, l)
  BY <1>3, LabelsOfLabels DEF Going, Labels
<1> QED BY <1>1, <1>3, <1>4, <1>5, <1>6, <1>7 DEF Sound, Ending, Going

\* Past the tombstone check an ingest knows its document is not buried.
LEMMA CheckTombstoneSound ==
  ASSUME CoreInv, NEW w \in Worker, NEW d \in Doc, CheckTombstone(w, d)
  PROVE  Sound(w)
<1>1. Processes /\ Stores /\ batch[w] = {d} /\ pc[w] \in {"gate", "upsert"}
  BY TypeParts DEF CoreInv, CheckTombstone, At
<1>2. op[w] \in AllOps /\ op[w] \in IngestOps
  BY <1>1, OpAt DEF CoreInv, IngestLabels
<1>3. Processes' /\ Bystanders(w)
      /\ \/ Ending(w)
         \/ Going(w, "load") /\ held'[w] = NoChunks
         \/ /\ d \notin tombstones
            /\ Going(w, IF pc[w] = "gate" THEN "lookup" ELSE "recheck")
  <2>1. (IF pc[w] = "gate" THEN "lookup" ELSE "recheck") \in LabelsOf(op[w])
    BY <1>2, LabelsOfOp DEF IngestLabels
  <2> QED
    BY <1>1, <1>2, <2>1, GotoGoes, EndAttemptEnds DEF CheckTombstone, Processes
<1>4. Stores' /\ contended' = contended /\ \A e \in Doc : Untouched(e)
  BY <1>1 DEF CheckTombstone, Stores, Untouched, pgVars, blobVars, envVars
<1>5. ASSUME d \notin contended
      PROVE  Guarantee(op[w], d) /\ Content(d)'
  BY <1>4, <1>5, Untouching DEF CoreInv, Guarantee, Untouched
<1>6. ASSUME d \notin contended, d \in batch'[w]
      PROVE  Knowledge(w, d)'
  <2>1. Content(d) /\ Knowledge(w, d)
    BY <1>1, <1>6 DEF CoreInv
  <2> QED
    BY <1>1, <1>3, <1>6, <2>1
    DEF Going, Ending, CheckTombstone, Knowledge, Compensating, Purging,
        Ingesting, Graphing, Unlinked, Unparsed, Unchunked, Unlettered,
        Rowless, Inserted, pgVars, NoChunks
<1>7. \E l \in Labels : Ending(w) \/ Going(w, l)
  BY <1>3, LabelsOfLabels DEF Going, Labels
<1> QED BY <1>1, <1>3, <1>4, <1>5, <1>6, <1>7 DEF Sound, Ending, Going

\* Past the second check of upsert_document the document is not purged.
LEMMA RecheckPurgedSound ==
  ASSUME CoreInv, NEW w \in Worker, NEW d \in Doc, RecheckPurged(w, d)
  PROVE  Sound(w)
<1>1. Processes /\ Stores /\ batch[w] = {d} /\ pc[w] = "recheck"
  BY TypeParts DEF CoreInv, RecheckPurged, At
<1>2. op[w] \in AllOps /\ op[w] \in IngestOps
  BY <1>1, OpAt DEF CoreInv, IngestLabels
<1>3. Processes' /\ Bystanders(w)
      /\ \/ ingest_state[d] # "purged" /\ Going(w, "insert")
         \/ Ending(w)
         \/ Going(w, "load") /\ held'[w] = NoChunks
  <2>1. {"insert"} \subseteq LabelsOf(op[w])
    BY <1>2, LabelsOfOp DEF IngestLabels
  <2> QED
    BY <1>1, <1>2, <2>1, GotoGoes, EndAttemptEnds DEF RecheckPurged, Processes
<1>4. Stores' /\ contended' = contended /\ \A e \in Doc : Untouched(e)
  BY <1>1 DEF RecheckPurged, Stores, Untouched, pgVars, blobVars, envVars
<1>5. ASSUME d \notin contended
      PROVE  Guarantee(op[w], d) /\ Content(d)'
  BY <1>4, <1>5, Untouching DEF CoreInv, Guarantee, Untouched
<1>6. ASSUME d \notin contended, d \in batch'[w]
      PROVE  Knowledge(w, d)'
  <2>1. Content(d) /\ Knowledge(w, d)
    BY <1>1, <1>6 DEF CoreInv
  <2> QED
    BY <1>1, <1>3, <1>6, <2>1
    DEF Going, Ending, RecheckPurged, Knowledge, Compensating, Purging,
        Ingesting, Graphing, Unlinked, Unparsed, Unchunked, Unlettered,
        Rowless, Inserted, pgVars, NoChunks
<1>7. \E l \in Labels : Ending(w) \/ Going(w, l)
  BY <1>3, LabelsOfLabels DEF Going, Labels
<1> QED BY <1>1, <1>3, <1>4, <1>5, <1>6, <1>7 DEF Sound, Ending, Going

\* From the insert on, an ingest knows its document is pending.
LEMMA InsertDocumentSound ==
  ASSUME CoreInv, NEW w \in Worker, NEW d \in Doc, InsertDocument(w, d)
  PROVE  Sound(w)
<1>1. Processes /\ Stores /\ batch[w] = {d} /\ pc[w] = "insert"
  BY TypeParts DEF CoreInv, InsertDocument, At
<1>2. op[w] \in AllOps /\ op[w] \in IngestOps
  BY <1>1, OpAt DEF CoreInv, IngestLabels
<1>3. Processes' /\ Bystanders(w)
      /\ Going(w, "parse")
  <2>1. {"parse"} \subseteq LabelsOf(op[w])
    BY <1>2, LabelsOfOp DEF IngestLabels
  <2> QED BY <1>1, <1>2, <2>1, GotoGoes DEF InsertDocument, Processes
<1>4. Stores' /\ contended' = contended /\ \A e \in Doc \ {d} : Untouched(e)
  BY <1>1 DEF InsertDocument, Stores, States, Untouched, blobVars, envVars
<1>5. ASSUME d \notin contended
      PROVE  Guarantee(op[w], d) /\ Content(d)'
  <2>1. Content(d) /\ Ingesting(w, d)
    BY <1>1, <1>5 DEF CoreInv, Knowledge
  <2>2. Guarantee(op[w], d)
    BY <1>2 DEF Guarantee, IngestOps, PurgeOps
  <2>3. Content(d)'
    BY <2>1 DEF InsertDocument, Content, Erased, Indexed, blobVars
  <2> QED BY <2>2, <2>3
<1>6. ASSUME d \notin contended, d \in batch'[w]
      PROVE  Knowledge(w, d)'
  <2>1. Content(d) /\ Knowledge(w, d)
    BY <1>1, <1>6 DEF CoreInv
  <2> QED
    BY <1>1, <1>2, <1>3, <2>1
    DEF Going, InsertDocument, Stores, IngestOps, PurgeOps, Knowledge,
        Compensating, Purging, Ingesting, Graphing
<1>7. \E l \in Labels : Ending(w) \/ Going(w, l)
  BY <1>3, LabelsOfLabels DEF Going
<1> QED BY <1>1, <1>3, <1>4, <1>5, <1>6, <1>7 DEF Sound, Going

\* OCR pages are of no concern to the invariant.
LEMMA RunOcrSound ==
  ASSUME CoreInv, NEW w \in Worker, NEW d \in Doc, RunOcr(w, d)
  PROVE  Sound(w)
<1>1. Processes /\ Stores /\ batch[w] = {d} /\ pc[w] = "parse"
  BY TypeParts DEF CoreInv, RunOcr, At
<1>2. op[w] \in AllOps /\ op[w] \in IngestOps
  BY <1>1, OpAt DEF CoreInv, IngestLabels
<1>3. Processes' /\ Bystanders(w)
      /\ Going(w, "paged")
  <2>1. {"paged"} \subseteq LabelsOf(op[w])
    BY <1>2, LabelsOfOp DEF IngestLabels
  <2> QED BY <1>1, <1>2, <2>1, GotoGoes DEF RunOcr, Processes
<1>4. Stores' /\ contended' = contended /\ \A e \in Doc \ {d} : Untouched(e)
  BY <1>1 DEF RunOcr, Stores, Untouched, pgVars, envVars
<1>5. ASSUME d \notin contended
      PROVE  Guarantee(op[w], d) /\ Content(d)'
  <2>1. Content(d) /\ Ingesting(w, d)
    BY <1>1, <1>5 DEF CoreInv, Knowledge
  <2>2. Guarantee(op[w], d)
    BY <1>2 DEF Guarantee, IngestOps, PurgeOps
  <2>3. Content(d)'
    BY <2>1 DEF RunOcr, Content, Erased, pgVars
  <2> QED BY <2>2, <2>3
<1>6. ASSUME d \notin contended, d \in batch'[w]
      PROVE  Knowledge(w, d)'
  <2>1. Content(d) /\ Knowledge(w, d)
    BY <1>1, <1>6 DEF CoreInv
  <2> QED
    BY <1>1, <1>2, <1>3, <2>1
    DEF Going, RunOcr, Knowledge, Compensating, Purging, Ingesting, Graphing,
        Inserted, pgVars
<1>7. \E l \in Labels : Ending(w) \/ Going(w, l)
  BY <1>3, LabelsOfLabels DEF Going
<1> QED BY <1>1, <1>3, <1>4, <1>5, <1>6, <1>7 DEF Sound, Going

\* A dead letter is written before the state says there is one.
LEMMA ParseFailsSound ==
  ASSUME CoreInv, NEW w \in Worker, NEW d \in Doc, ParseFails(w, d)
  PROVE  Sound(w)
<1>1. Processes /\ Stores /\ batch[w] = {d} /\ pc[w] \in {"parse", "paged"}
  BY TypeParts DEF CoreInv, ParseFails, At
<1>2. op[w] \in AllOps /\ op[w] \in IngestOps
  BY <1>1, OpAt DEF CoreInv, IngestLabels
<1>3. Processes' /\ Bystanders(w)
      /\ Going(w, "dead")
  <2>1. {"dead"} \subseteq LabelsOf(op[w])
    BY <1>2, LabelsOfOp DEF IngestLabels
  <2> QED BY <1>1, <1>2, <2>1, GotoGoes DEF ParseFails, Processes
<1>4. Stores' /\ contended' = contended /\ \A e \in Doc \ {d} : Untouched(e)
  BY <1>1 DEF ParseFails, Stores, Untouched, pgVars, envVars
<1>5. ASSUME d \notin contended
      PROVE  Guarantee(op[w], d) /\ Content(d)'
  <2>1. Content(d) /\ Ingesting(w, d)
    BY <1>1, <1>5 DEF CoreInv, Knowledge
  <2>2. Guarantee(op[w], d)
    BY <1>2 DEF Guarantee, IngestOps, PurgeOps
  <2>3. Content(d)'
    BY <1>1, <1>2, <2>1
    DEF ParseFails, Content, Erased, pgVars, Ingesting, Inserted
  <2> QED BY <2>2, <2>3
<1>6. ASSUME d \notin contended, d \in batch'[w]
      PROVE  Knowledge(w, d)'
  <2>1. Content(d) /\ Knowledge(w, d)
    BY <1>1, <1>6 DEF CoreInv
  <2> QED
    BY <1>1, <1>2, <1>3, <2>1
    DEF Going, ParseFails, Knowledge, Compensating, Purging, Ingesting,
        Graphing, Inserted, pgVars
<1>7. \E l \in Labels : Ending(w) \/ Going(w, l)
  BY <1>3, LabelsOfLabels DEF Going
<1> QED BY <1>1, <1>3, <1>4, <1>5, <1>6, <1>7 DEF Sound, Going

\* content.json is written for a document that is pending, so not erased.
LEMMA PersistParsedSound ==
  ASSUME CoreInv, NEW w \in Worker, NEW d \in Doc, PersistParsed(w, d)
  PROVE  Sound(w)
<1>1. Processes /\ Stores /\ batch[w] = {d} /\ pc[w] \in {"parse", "paged"}
  BY TypeParts DEF CoreInv, PersistParsed, At, ParsedAt
<1>2. op[w] \in AllOps /\ op[w] \in IngestOps
  BY <1>1, OpAt DEF CoreInv, IngestLabels
<1>3. Processes' /\ Bystanders(w)
      /\ Going(w, "chunk")
  <2>1. {"chunk"} \subseteq LabelsOf(op[w])
    BY <1>2, LabelsOfOp DEF IngestLabels
  <2>2. outcomes[d] \in SUBSET SUBSET Chunk
    BY <1>1, ConstantsAssumption DEF Stores
  <2>3. /\ held' \in [Worker -> [Doc -> SUBSET Chunk]]
        /\ \A v \in Worker \ {w} : held'[v] = held[v]
    BY <1>1, <2>2 DEF PersistParsed, Processes
  <2> QED BY <1>1, <1>2, <2>1, <2>3, GotoGoes DEF PersistParsed
<1>4. Stores' /\ contended' = contended /\ \A e \in Doc \ {d} : Untouched(e)
  BY <1>1 DEF PersistParsed, Stores, Untouched, pgVars, envVars
<1>5. ASSUME d \notin contended
      PROVE  Guarantee(op[w], d) /\ Content(d)'
  <2>1. Content(d) /\ Ingesting(w, d)
    BY <1>1, <1>5 DEF CoreInv, Knowledge
  <2>2. Guarantee(op[w], d)
    BY <1>2 DEF Guarantee, IngestOps, PurgeOps
  <2>3. Content(d)'
    BY <1>1, <1>2, <2>1
    DEF PersistParsed, Content, Erased, pgVars, Ingesting, Inserted
  <2> QED BY <2>2, <2>3
<1>6. ASSUME d \notin contended, d \in batch'[w]
      PROVE  Knowledge(w, d)'
  <2>1. Content(d) /\ Knowledge(w, d)
    BY <1>1, <1>6 DEF CoreInv
  <2> QED
    BY <1>1, <1>2, <1>3, <2>1
    DEF Going, PersistParsed, IngestOps, Knowledge, Compensating, Purging,
        Ingesting, Graphing, Inserted, pgVars
<1>7. \E l \in Labels : Ending(w) \/ Going(w, l)
  BY <1>3, LabelsOfLabels DEF Going
<1> QED BY <1>1, <1>3, <1>4, <1>5, <1>6, <1>7 DEF Sound, Going

\* No chunks is a dead letter too, written before the state says so.
LEMMA ChunksEmptySound ==
  ASSUME CoreInv, NEW w \in Worker, NEW d \in Doc, ChunksEmpty(w, d)
  PROVE  Sound(w)
<1>1. Processes /\ Stores /\ batch[w] = {d} /\ pc[w] = "chunk"
  BY TypeParts DEF CoreInv, ChunksEmpty, At
<1>2. op[w] \in AllOps /\ op[w] \in IngestOps
  BY <1>1, OpAt DEF CoreInv, IngestLabels
<1>3. Processes' /\ Bystanders(w)
      /\ Going(w, "dead")
  <2>1. {"dead"} \subseteq LabelsOf(op[w])
    BY <1>2, LabelsOfOp DEF IngestLabels
  <2> QED BY <1>1, <1>2, <2>1, GotoGoes DEF ChunksEmpty, Processes
<1>4. Stores' /\ contended' = contended /\ \A e \in Doc \ {d} : Untouched(e)
  BY <1>1 DEF ChunksEmpty, Stores, Untouched, pgVars, envVars
<1>5. ASSUME d \notin contended
      PROVE  Guarantee(op[w], d) /\ Content(d)'
  <2>1. Content(d) /\ Ingesting(w, d)
    BY <1>1, <1>5 DEF CoreInv, Knowledge
  <2>2. Guarantee(op[w], d)
    BY <1>2 DEF Guarantee, IngestOps, PurgeOps
  <2>3. Content(d)'
    BY <1>1, <1>2, <2>1
    DEF ChunksEmpty, Content, Erased, pgVars, Ingesting, Inserted
  <2> QED BY <2>2, <2>3
<1>6. ASSUME d \notin contended, d \in batch'[w]
      PROVE  Knowledge(w, d)'
  <2>1. Content(d) /\ Knowledge(w, d)
    BY <1>1, <1>6 DEF CoreInv
  <2> QED
    BY <1>1, <1>2, <1>3, <2>1
    DEF Going, ChunksEmpty, Knowledge, Compensating, Purging, Ingesting,
        Graphing, Inserted, pgVars
<1>7. \E l \in Labels : Ending(w) \/ Going(w, l)
  BY <1>3, LabelsOfLabels DEF Going
<1> QED BY <1>1, <1>3, <1>4, <1>5, <1>6, <1>7 DEF Sound, Going

\* chunks.jsonl is replaced while the document is pending.
LEMMA WriteChunksSound ==
  ASSUME CoreInv, NEW w \in Worker, NEW d \in Doc, WriteChunks(w, d)
  PROVE  Sound(w)
<1>1. Processes /\ Stores /\ batch[w] = {d} /\ pc[w] = "chunk"
  BY TypeParts DEF CoreInv, WriteChunks, At
<1>2. op[w] \in AllOps /\ op[w] \in IngestOps
  BY <1>1, OpAt DEF CoreInv, IngestLabels
<1>3. Processes' /\ Bystanders(w)
      /\ (Going(w, "read") \/ Ending(w))
  <2>1. {"read"} \subseteq LabelsOf(op[w])
    BY <1>2, LabelsOfOp DEF IngestLabels
  <2> QED BY <1>1, <2>1, GotoGoes, FinishEnds DEF WriteChunks, Processes
<1>4. Stores' /\ contended' = contended /\ \A e \in Doc \ {d} : Untouched(e)
  BY <1>1 DEF WriteChunks, Stores, Untouched, pgVars, envVars, Processes
<1>5. ASSUME d \notin contended
      PROVE  Guarantee(op[w], d) /\ Content(d)'
  <2>1. Content(d) /\ Ingesting(w, d)
    BY <1>1, <1>5 DEF CoreInv, Knowledge
  <2>2. Guarantee(op[w], d)
    BY <1>2 DEF Guarantee, IngestOps, PurgeOps
  <2>3. Content(d)'
    BY <1>1, <1>2, <2>1
    DEF WriteChunks, Content, Erased, Indexed, pgVars, Ingesting, Inserted
  <2> QED BY <2>2, <2>3
<1>6. ASSUME d \notin contended, d \in batch'[w]
      PROVE  Knowledge(w, d)'
  <2>1. Content(d) /\ Knowledge(w, d)
    BY <1>1, <1>6 DEF CoreInv
  <2> QED
    BY <1>1, <1>2, <1>3, <1>6, <2>1
    DEF Going, Ending, WriteChunks, IngestOps, Knowledge, Compensating,
        Purging, Ingesting, Graphing, Inserted, pgVars
<1>7. \E l \in Labels : Ending(w) \/ Going(w, l)
  BY <1>3, LabelsOfLabels DEF Going, Labels
<1> QED BY <1>1, <1>3, <1>4, <1>5, <1>6, <1>7 DEF Sound, Ending, Going

\* A document becomes dead_letter with its error.json there.
LEMMA RecordDeadLetterSound ==
  ASSUME CoreInv, NEW w \in Worker, NEW d \in Doc, RecordDeadLetter(w, d)
  PROVE  Sound(w)
<1>1. Processes /\ Stores /\ batch[w] = {d} /\ pc[w] = "dead"
  BY TypeParts DEF CoreInv, RecordDeadLetter, At
<1>2. op[w] \in AllOps /\ op[w] \in IngestOps
  BY <1>1, OpAt DEF CoreInv, IngestLabels
<1>3. Processes' /\ Bystanders(w)
      /\ (Ending(w) \/ (Going(w, "load") /\ held'[w] = NoChunks))
  BY <1>1, EndAttemptEnds DEF RecordDeadLetter
<1>4. Stores' /\ contended' = contended /\ \A e \in Doc \ {d} : Untouched(e)
  BY <1>1
  DEF RecordDeadLetter, SetState, Stores, States, Untouched, blobVars, envVars
<1>5. ASSUME d \notin contended
      PROVE  Guarantee(op[w], d) /\ Content(d)'
  <2>1. Content(d) /\ Ingesting(w, d)
    BY <1>1, <1>5 DEF CoreInv, Knowledge
  <2>2. Guarantee(op[w], d)
    BY <1>2 DEF Guarantee, IngestOps, PurgeOps
  <2>3. Content(d)'
    BY <1>1, <1>2, <2>1
    DEF RecordDeadLetter, SetState, Content, Erased, Indexed, blobVars,
        Ingesting
  <2> QED BY <2>2, <2>3
<1>6. ASSUME d \notin contended, d \in batch'[w]
      PROVE  Knowledge(w, d)'
  <2>1. Content(d) /\ Knowledge(w, d)
    BY <1>1, <1>6 DEF CoreInv
  <2> QED
    BY <1>1, <1>2, <1>3, <1>6, <2>1
    DEF Going, Ending, IngestOps, Knowledge, Compensating, Purging, Ingesting,
        Graphing, Inserted
<1>7. \E l \in Labels : Ending(w) \/ Going(w, l)
  BY <1>3, LabelsOfLabels DEF Going, Labels
<1> QED BY <1>1, <1>3, <1>4, <1>5, <1>6, <1>7 DEF Sound, Ending, Going

\* index_rag_for_document holds what chunks.jsonl says.
LEMMA ReadChunksSound ==
  ASSUME CoreInv, NEW w \in Worker, NEW d \in Doc, ReadChunks(w, d)
  PROVE  Sound(w)
<1>1. Processes /\ Stores /\ batch[w] = {d} /\ pc[w] = "read"
  BY TypeParts DEF CoreInv, ReadChunks, At
<1>2. op[w] \in AllOps /\ op[w] \in IngestOps
  BY <1>1, OpAt DEF CoreInv, IngestLabels
<1>3. Processes' /\ Bystanders(w)
      /\ \/ artifact[d] # {} /\ held'[w][d] = artifact[d] /\ Going(w, "store")
         \/ Ending(w)
         \/ Going(w, "load") /\ held'[w] = NoChunks
  <2>1. {"store"} \subseteq LabelsOf(op[w])
    BY <1>2, LabelsOfOp DEF IngestLabels
  <2>2. CASE artifact[d] = {}
    BY <1>1, <2>2, EndAttemptEnds DEF ReadChunks
  <2>3. CASE artifact[d] # {}
    <3>1. held' = [held EXCEPT ![w][d] = artifact[d]] /\ Goto(w, "store")
      BY <2>3 DEF ReadChunks
    <3>2. /\ held' \in [Worker -> [Doc -> SUBSET Chunk]]
          /\ held'[w][d] = artifact[d]
          /\ \A v \in Worker \ {w} : held'[v] = held[v]
      BY <1>1, <3>1 DEF Processes, Stores
    <3> QED BY <1>1, <1>2, <2>1, <2>3, <3>1, <3>2, GotoGoes
  <2> QED BY <2>2, <2>3
<1>4. Stores' /\ contended' = contended /\ \A e \in Doc : Untouched(e)
  BY <1>1 DEF ReadChunks, Stores, Untouched, pgVars, blobVars, envVars
<1>5. ASSUME d \notin contended
      PROVE  Guarantee(op[w], d) /\ Content(d)'
  BY <1>4, <1>5, Untouching DEF CoreInv, Guarantee, Untouched
<1>6. ASSUME d \notin contended, d \in batch'[w]
      PROVE  Knowledge(w, d)'
  <2>1. Content(d) /\ Knowledge(w, d)
    BY <1>1, <1>6 DEF CoreInv
  <2> QED
    BY <1>1, <1>2, <1>3, <1>6, <2>1
    DEF Going, Ending, ReadChunks, IngestOps, Knowledge, Compensating, Purging,
        Ingesting, Graphing, Inserted, pgVars, blobVars
<1>7. \E l \in Labels : Ending(w) \/ Going(w, l)
  BY <1>3, LabelsOfLabels DEF Going, Labels
<1> QED BY <1>1, <1>3, <1>4, <1>5, <1>6, <1>7 DEF Sound, Ending, Going

\* After upsert_chunks every chunk of chunks.jsonl has a row and an embedding.
LEMMA UpsertChunksSound ==
  ASSUME CoreInv, NEW w \in Worker, NEW d \in Doc, UpsertChunks(w, d)
  PROVE  Sound(w)
<1>1. Processes /\ Stores /\ batch[w] = {d} /\ pc[w] = "store"
  BY TypeParts DEF CoreInv, UpsertChunks, At
<1>2. op[w] \in AllOps /\ op[w] \in IngestOps
  BY <1>1, OpAt DEF CoreInv, IngestLabels
<1>3. Processes' /\ Bystanders(w)
      /\ Going(w, "mark")
  <2>1. {"mark"} \subseteq LabelsOf(op[w])
    BY <1>2, LabelsOfOp DEF IngestLabels
  <2> QED BY <1>1, <1>2, <2>1, GotoGoes DEF UpsertChunks, Processes
<1>4. Stores' /\ contended' = contended /\ \A e \in Doc \ {d} : Untouched(e)
  BY <1>1 DEF UpsertChunks, Stores, Untouched, blobVars, envVars, Processes
<1>5. ASSUME d \notin contended
      PROVE  Guarantee(op[w], d) /\ Content(d)'
  <2>1. Content(d) /\ Ingesting(w, d)
    BY <1>1, <1>5 DEF CoreInv, Knowledge
  <2>2. Guarantee(op[w], d)
    BY <1>2 DEF Guarantee, IngestOps, PurgeOps
  <2>3. Content(d)'
    BY <1>1, <1>2, <2>1
    DEF UpsertChunks, Stores, Content, Erased, blobVars, Ingesting
  <2> QED BY <2>2, <2>3
<1>6. ASSUME d \notin contended, d \in batch'[w]
      PROVE  Knowledge(w, d)'
  <2>1. Content(d) /\ Knowledge(w, d)
    BY <1>1, <1>6 DEF CoreInv
  <2> QED
    BY <1>1, <1>2, <1>3, <2>1
    DEF Going, UpsertChunks, Stores, Knowledge, Compensating, Purging,
        Ingesting, Graphing, Inserted, blobVars
<1>7. \E l \in Labels : Ending(w) \/ Going(w, l)
  BY <1>3, LabelsOfLabels DEF Going
<1> QED BY <1>1, <1>3, <1>4, <1>5, <1>6, <1>7 DEF Sound, Going

\* A document becomes indexed with all of its chunks embedded.
LEMMA MarkRagIndexedSound ==
  ASSUME CoreInv, NEW w \in Worker, NEW d \in Doc, MarkRagIndexed(w, d)
  PROVE  Sound(w)
<1>1. Processes /\ Stores /\ batch[w] = {d} /\ pc[w] = "mark"
  BY TypeParts DEF CoreInv, MarkRagIndexed, At
<1>2. op[w] \in AllOps /\ op[w] \in IngestOps
  BY <1>1, OpAt DEF CoreInv, IngestLabels
<1>3. Processes' /\ Bystanders(w)
      /\ Ending(w)
  BY <1>1, FinishEnds DEF MarkRagIndexed
<1>4. Stores' /\ contended' = contended /\ \A e \in Doc \ {d} : Untouched(e)
  BY <1>1
  DEF MarkRagIndexed, SetState, Stores, States, Untouched, blobVars, envVars
<1>5. ASSUME d \notin contended
      PROVE  Guarantee(op[w], d) /\ Content(d)'
  <2>1. Content(d) /\ Ingesting(w, d)
    BY <1>1, <1>5 DEF CoreInv, Knowledge
  <2>2. Guarantee(op[w], d)
    BY <1>2 DEF Guarantee, IngestOps, PurgeOps
  <2>3. Content(d)'
    BY <1>1, <1>2, <2>1
    DEF MarkRagIndexed, SetState, Content, Erased, blobVars, Ingesting
  <2> QED BY <2>2, <2>3
<1> QED BY <1>1, <1>3, <1>4, <1>5 DEF Sound, Ending

\* From its first write on, a purge knows its document is purging or purged.
LEMMA BeginPurgeSound ==
  ASSUME CoreInv, NEW w \in Worker, NEW d \in Doc, BeginPurge(w, d)
  PROVE  Sound(w)
<1>1. Processes /\ Stores /\ batch[w] = {d} /\ pc[w] = "begin"
  BY TypeParts DEF CoreInv, BeginPurge, At
<1>2. op[w] \in AllOps /\ op[w] \in PurgeOps
  BY <1>1, OpAt DEF CoreInv, PurgeLabels
<1>3. Processes' /\ Bystanders(w)
      /\ Going(w, "list")
  <2>1. {"list"} \subseteq LabelsOf(op[w])
    BY <1>2, LabelsOfOp DEF CompensationLabels
  <2> QED BY <1>1, <1>2, <2>1, GotoGoes DEF BeginPurge, Processes
<1>4. Stores' /\ contended' = contended /\ \A e \in Doc \ {d} : Untouched(e)
  BY <1>1
  DEF BeginPurge, SetState, Stores, States, Untouched, blobVars, envVars
<1>5. ASSUME d \notin contended
      PROVE  Guarantee(op[w], d) /\ Content(d)'
  <2>1. Content(d) /\ Compensating(w, d) /\ Purging(w, d)
    BY <1>1, <1>5 DEF CoreInv, Knowledge
  <2>2. Guarantee(op[w], d)
    BY <1>2 DEF BeginPurge, SetState, Guarantee, PurgeOps, blobVars
  <2>3. Content(d)'
    BY <2>1 DEF BeginPurge, SetState, Content, Erased, Indexed, blobVars
  <2> QED BY <2>2, <2>3
<1>6. ASSUME d \notin contended, d \in batch'[w]
      PROVE  Knowledge(w, d)'
  <2>1. Content(d) /\ Knowledge(w, d)
    BY <1>1, <1>6 DEF CoreInv
  <2> QED
    BY <1>1, <1>2, <1>3, <2>1
    DEF Going, BeginPurge, SetState, Stores, PurgeOps, Knowledge, Compensating,
        Purging, Ingesting, Graphing, Unlinked, Unparsed, Unchunked,
        Unlettered, Rowless, Inserted
<1>7. \E l \in Labels : Ending(w) \/ Going(w, l)
  BY <1>3, LabelsOfLabels DEF Going
<1> QED BY <1>1, <1>3, <1>4, <1>5, <1>6, <1>7 DEF Sound, Going

\* Purge knows that no parsed text is left.
LEMMA DeleteParsedSound ==
  ASSUME CoreInv, NEW w \in Worker, NEW d \in Doc, DeleteParsed(w, d)
  PROVE  Sound(w)
<1>1. Processes /\ Stores /\ batch[w] = {d} /\ pc[w] = "del_parsed"
  BY TypeParts DEF CoreInv, DeleteParsed, At
<1>2. op[w] \in AllOps /\ op[w] \in PurgeOps
  BY <1>1, OpAt DEF CoreInv, PurgeLabels
<1>3. Processes' /\ Bystanders(w)
      /\ Going(w, "del_chunks")
  <2>1. {"del_chunks"} \subseteq LabelsOf(op[w])
    BY <1>2, LabelsOfOp DEF PurgeLabels
  <2> QED BY <1>1, <1>2, <2>1, GotoGoes DEF DeleteParsed, Processes
<1>4. Stores' /\ contended' = contended /\ \A e \in Doc \ {d} : Untouched(e)
  BY <1>1 DEF DeleteParsed, Stores, Untouched, pgVars, envVars
<1>5. ASSUME d \notin contended
      PROVE  Guarantee(op[w], d) /\ Content(d)'
  <2>1. Content(d) /\ Compensating(w, d) /\ Purging(w, d)
    BY <1>1, <1>5 DEF CoreInv, Knowledge
  <2>2. Guarantee(op[w], d)
    BY DEF DeleteParsed, Guarantee, pgVars
  <2>3. Content(d)'
    BY <2>1 DEF DeleteParsed, Content, Erased, pgVars
  <2> QED BY <2>2, <2>3
<1>6. ASSUME d \notin contended, d \in batch'[w]
      PROVE  Knowledge(w, d)'
  <2>1. Content(d) /\ Knowledge(w, d)
    BY <1>1, <1>6 DEF CoreInv
  <2> QED
    BY <1>1, <1>3, <2>1
    DEF Going, DeleteParsed, Knowledge, Compensating, Purging, Ingesting,
        Graphing, Unlinked, Unchunked, Unlettered, Rowless, Inserted, pgVars
<1>7. \E l \in Labels : Ending(w) \/ Going(w, l)
  BY <1>3, LabelsOfLabels DEF Going
<1> QED BY <1>1, <1>3, <1>4, <1>5, <1>6, <1>7 DEF Sound, Going

\* Purge knows that no chunks.jsonl is left.
LEMMA DeleteArtifactSound ==
  ASSUME CoreInv, NEW w \in Worker, NEW d \in Doc, DeleteArtifact(w, d)
  PROVE  Sound(w)
<1>1. Processes /\ Stores /\ batch[w] = {d} /\ pc[w] = "del_chunks"
  BY TypeParts DEF CoreInv, DeleteArtifact, At
<1>2. op[w] \in AllOps /\ op[w] \in PurgeOps
  BY <1>1, OpAt DEF CoreInv, PurgeLabels
<1>3. Processes' /\ Bystanders(w)
      /\ Going(w, "del_letter")
  <2>1. {"del_letter"} \subseteq LabelsOf(op[w])
    BY <1>2, LabelsOfOp DEF PurgeLabels
  <2> QED BY <1>1, <1>2, <2>1, GotoGoes DEF DeleteArtifact, Processes
<1>4. Stores' /\ contended' = contended /\ \A e \in Doc \ {d} : Untouched(e)
  BY <1>1 DEF DeleteArtifact, Stores, Untouched, pgVars, envVars
<1>5. ASSUME d \notin contended
      PROVE  Guarantee(op[w], d) /\ Content(d)'
  <2>1. Content(d) /\ Compensating(w, d) /\ Purging(w, d)
    BY <1>1, <1>5 DEF CoreInv, Knowledge
  <2>2. Guarantee(op[w], d)
    BY DEF DeleteArtifact, Guarantee, pgVars
  <2>3. Content(d)'
    BY <1>1, <1>2, <2>1
    DEF DeleteArtifact, Content, Erased, Indexed, pgVars, Purging
  <2> QED BY <2>2, <2>3
<1>6. ASSUME d \notin contended, d \in batch'[w]
      PROVE  Knowledge(w, d)'
  <2>1. Content(d) /\ Knowledge(w, d)
    BY <1>1, <1>6 DEF CoreInv
  <2> QED
    BY <1>1, <1>3, <2>1
    DEF Going, DeleteArtifact, Stores, Knowledge, Compensating, Purging,
        Ingesting, Graphing, Unlinked, Unparsed, Unlettered, Rowless, Inserted,
        pgVars
<1>7. \E l \in Labels : Ending(w) \/ Going(w, l)
  BY <1>3, LabelsOfLabels DEF Going
<1> QED BY <1>1, <1>3, <1>4, <1>5, <1>6, <1>7 DEF Sound, Going

\* Purge knows that no dead letter is left.
LEMMA DeleteDeadLetterSound ==
  ASSUME CoreInv, NEW w \in Worker, NEW d \in Doc, DeleteDeadLetter(w, d)
  PROVE  Sound(w)
<1>1. Processes /\ Stores /\ batch[w] = {d} /\ pc[w] = "del_letter"
  BY TypeParts DEF CoreInv, DeleteDeadLetter, At
<1>2. op[w] \in AllOps /\ op[w] \in PurgeOps
  BY <1>1, OpAt DEF CoreInv, PurgeLabels
<1>3. Processes' /\ Bystanders(w)
      /\ (Going(w, "del_raw") \/ Going(w, "del_rows"))
  <2>1. {"del_raw", "del_rows"} \subseteq LabelsOf(op[w])
    BY <1>2, LabelsOfOp DEF PurgeLabels
  <2> QED BY <1>1, <1>2, <2>1, GotoGoes DEF DeleteDeadLetter, Processes
<1>4. Stores' /\ contended' = contended /\ \A e \in Doc \ {d} : Untouched(e)
  BY <1>1 DEF DeleteDeadLetter, Stores, Untouched, pgVars, envVars
<1>5. ASSUME d \notin contended
      PROVE  Guarantee(op[w], d) /\ Content(d)'
  <2>1. Content(d) /\ Compensating(w, d) /\ Purging(w, d)
    BY <1>1, <1>5 DEF CoreInv, Knowledge
  <2>2. Guarantee(op[w], d)
    BY DEF DeleteDeadLetter, Guarantee, pgVars
  <2>3. Content(d)'
    BY <1>1, <1>2, <2>1 DEF DeleteDeadLetter, Content, Erased, pgVars, Purging
  <2> QED BY <2>2, <2>3
<1>6. ASSUME d \notin contended, d \in batch'[w]
      PROVE  Knowledge(w, d)'
  <2>1. Content(d) /\ Knowledge(w, d)
    BY <1>1, <1>6 DEF CoreInv
  <2> QED
    BY <1>1, <1>3, <2>1
    DEF Going, DeleteDeadLetter, Knowledge, Compensating, Purging, Ingesting,
        Graphing, Unlinked, Unparsed, Unchunked, Rowless, Inserted, pgVars
<1>7. \E l \in Labels : Ending(w) \/ Going(w, l)
  BY <1>3, LabelsOfLabels DEF Going
<1> QED BY <1>1, <1>3, <1>4, <1>5, <1>6, <1>7 DEF Sound, Going

\* The raw file is of no concern to the invariant.
LEMMA DeleteRawSound ==
  ASSUME CoreInv, NEW w \in Worker, NEW d \in Doc, DeleteRaw(w, d)
  PROVE  Sound(w)
<1>1. Processes /\ Stores /\ batch[w] = {d} /\ pc[w] = "del_raw"
  BY TypeParts DEF CoreInv, DeleteRaw, At
<1>2. op[w] \in AllOps /\ op[w] \in PurgeOps
  BY <1>1, OpAt DEF CoreInv, PurgeLabels
<1>3. Processes' /\ Bystanders(w)
      /\ Going(w, "del_rows")
  <2>1. {"del_rows"} \subseteq LabelsOf(op[w])
    BY <1>2, LabelsOfOp DEF PurgeLabels
  <2> QED BY <1>1, <1>2, <2>1, GotoGoes DEF DeleteRaw, Processes
<1>4. Stores' /\ contended' = contended /\ \A e \in Doc \ {d} : Untouched(e)
  BY <1>1 DEF DeleteRaw, Stores, Untouched, pgVars, envVars
<1>5. ASSUME d \notin contended
      PROVE  Guarantee(op[w], d) /\ Content(d)'
  <2>1. Content(d) /\ Compensating(w, d) /\ Purging(w, d)
    BY <1>1, <1>5 DEF CoreInv, Knowledge
  <2>2. Guarantee(op[w], d)
    BY DEF DeleteRaw, Guarantee, pgVars
  <2>3. Content(d)'
    BY <2>1 DEF DeleteRaw, Content, Erased, pgVars
  <2> QED BY <2>2, <2>3
<1>6. ASSUME d \notin contended, d \in batch'[w]
      PROVE  Knowledge(w, d)'
  <2>1. Content(d) /\ Knowledge(w, d)
    BY <1>1, <1>6 DEF CoreInv
  <2> QED
    BY <1>1, <1>3, <2>1
    DEF Going, DeleteRaw, Knowledge, Compensating, Purging, Ingesting,
        Graphing, Unlinked, Unparsed, Unchunked, Unlettered, Rowless, Inserted,
        pgVars
<1>7. \E l \in Labels : Ending(w) \/ Going(w, l)
  BY <1>3, LabelsOfLabels DEF Going
<1> QED BY <1>1, <1>3, <1>4, <1>5, <1>6, <1>7 DEF Sound, Going

\* Purge knows that no row is left, and still no vertex.
LEMMA DeleteRowsSound ==
  ASSUME CoreInv, NEW w \in Worker, NEW d \in Doc, DeleteRows(w, d)
  PROVE  Sound(w)
<1>1. Processes /\ Stores /\ batch[w] = {d} /\ pc[w] = "del_rows"
  BY TypeParts DEF CoreInv, DeleteRows, At
<1>2. op[w] \in AllOps /\ op[w] \in PurgeOps
  BY <1>1, OpAt DEF CoreInv, PurgeLabels
<1>3. Processes' /\ Bystanders(w)
      /\ Going(w, "bury")
  <2>1. {"bury"} \subseteq LabelsOf(op[w])
    BY <1>2, LabelsOfOp DEF PurgeLabels
  <2> QED BY <1>1, <1>2, <2>1, GotoGoes DEF DeleteRows, Processes
<1>4. Stores' /\ contended' = contended /\ \A e \in Doc \ {d} : Untouched(e)
  BY <1>1 DEF DeleteRows, Stores, Untouched, blobVars, envVars
<1>5. ASSUME d \notin contended
      PROVE  Guarantee(op[w], d) /\ Content(d)'
  <2>1. Content(d) /\ Compensating(w, d) /\ Purging(w, d)
    BY <1>1, <1>5 DEF CoreInv, Knowledge
  <2>2. Guarantee(op[w], d)
    BY <1>2 DEF DeleteRows, Guarantee, PurgeOps, blobVars
  <2>3. Content(d)'
    BY <1>1, <1>2, <2>1
    DEF DeleteRows, Stores, Content, blobVars, Purging, Unlinked, Unparsed,
        Unchunked, Unlettered
  <2> QED BY <2>2, <2>3
<1>6. ASSUME d \notin contended, d \in batch'[w]
      PROVE  Knowledge(w, d)'
  <2>1. Content(d) /\ Knowledge(w, d)
    BY <1>1, <1>6 DEF CoreInv
  <2> QED
    BY <1>1, <1>2, <1>3, <2>1
    DEF Going, DeleteRows, Stores, PurgeOps, Knowledge, Compensating, Purging,
        Ingesting, Graphing, Unlinked, Unparsed, Unchunked, Unlettered,
        Inserted, blobVars
<1>7. \E l \in Labels : Ending(w) \/ Going(w, l)
  BY <1>3, LabelsOfLabels DEF Going
<1> QED BY <1>1, <1>3, <1>4, <1>5, <1>6, <1>7 DEF Sound, Going

\* A document is buried only when nothing is left of it.
LEMMA InsertTombstoneSound ==
  ASSUME CoreInv, NEW w \in Worker, NEW d \in Doc, InsertTombstone(w, d)
  PROVE  Sound(w)
<1>1. Processes /\ Stores /\ batch[w] = {d} /\ pc[w] = "bury"
  BY TypeParts DEF CoreInv, InsertTombstone, At
<1>2. op[w] \in AllOps /\ op[w] \in PurgeOps
  BY <1>1, OpAt DEF CoreInv, PurgeLabels
<1>3. Processes' /\ Bystanders(w)
      /\ Going(w, "mark_purged")
  <2>1. {"mark_purged"} \subseteq LabelsOf(op[w])
    BY <1>2, LabelsOfOp DEF PurgeLabels
  <2> QED BY <1>1, <1>2, <2>1, GotoGoes DEF InsertTombstone, Processes
<1>4. Stores' /\ contended' = contended /\ \A e \in Doc \ {d} : Untouched(e)
  BY <1>1 DEF InsertTombstone, Stores, Untouched, blobVars, envVars
<1>5. ASSUME d \notin contended
      PROVE  Guarantee(op[w], d) /\ Content(d)'
  <2>1. Content(d) /\ Compensating(w, d) /\ Purging(w, d)
    BY <1>1, <1>5 DEF CoreInv, Knowledge
  <2>2. Guarantee(op[w], d)
    BY DEF InsertTombstone, Guarantee, blobVars
  <2>3. Content(d)'
    BY <1>1, <1>2, <2>1
    DEF InsertTombstone, Content, blobVars, Purging, Unlinked, Unparsed,
        Unchunked, Unlettered, Rowless
  <2> QED BY <2>2, <2>3
<1>6. ASSUME d \notin contended, d \in batch'[w]
      PROVE  Knowledge(w, d)'
  <2>1. Content(d) /\ Knowledge(w, d)
    BY <1>1, <1>6 DEF CoreInv
  <2> QED
    BY <1>1, <1>2, <1>3, <2>1
    DEF Going, InsertTombstone, IngestOps, PurgeOps, Knowledge, Compensating,
        Purging, Ingesting, Graphing, Unlinked, Unparsed, Unchunked,
        Unlettered, Rowless, blobVars
<1>7. \E l \in Labels : Ending(w) \/ Going(w, l)
  BY <1>3, LabelsOfLabels DEF Going
<1> QED BY <1>1, <1>3, <1>4, <1>5, <1>6, <1>7 DEF Sound, Going

\* A document is marked purged only when nothing is left of it.
LEMMA MarkPurgedSound ==
  ASSUME CoreInv, NEW w \in Worker, NEW d \in Doc, MarkPurged(w, d)
  PROVE  Sound(w)
<1>1. Processes /\ Stores /\ batch[w] = {d} /\ pc[w] = "mark_purged"
  BY TypeParts DEF CoreInv, MarkPurged, At
<1>2. op[w] \in AllOps /\ op[w] \in PurgeOps
  BY <1>1, OpAt DEF CoreInv, PurgeLabels
<1>3. Processes' /\ Bystanders(w)
      /\ Going(w, "flag")
  <2>1. {"flag"} \subseteq LabelsOf(op[w])
    BY <1>2, LabelsOfOp DEF PurgeLabels
  <2> QED BY <1>1, <1>2, <2>1, GotoGoes DEF MarkPurged, Processes
<1>4. Stores' /\ contended' = contended /\ \A e \in Doc \ {d} : Untouched(e)
  BY <1>1
  DEF MarkPurged, SetState, Stores, States, Untouched, blobVars, envVars
<1>5. ASSUME d \notin contended
      PROVE  Guarantee(op[w], d) /\ Content(d)'
  <2>1. Content(d) /\ Compensating(w, d) /\ Purging(w, d)
    BY <1>1, <1>5 DEF CoreInv, Knowledge
  <2>2. Guarantee(op[w], d)
    BY <1>2 DEF MarkPurged, SetState, Guarantee, PurgeOps, blobVars
  <2>3. Content(d)'
    BY <1>1, <1>2, <2>1
    DEF MarkPurged, SetState, Content, Indexed, blobVars, Purging, Unlinked,
        Unparsed, Unchunked, Unlettered, Rowless
  <2> QED BY <2>2, <2>3
<1>6. ASSUME d \notin contended, d \in batch'[w]
      PROVE  Knowledge(w, d)'
  <2>1. Content(d) /\ Knowledge(w, d)
    BY <1>1, <1>6 DEF CoreInv
  <2> QED
    BY <1>1, <1>2, <1>3, <2>1
    DEF Going, MarkPurged, SetState, PurgeOps, Knowledge, Compensating,
        Purging, Ingesting, Graphing, Unlinked, Unparsed, Unchunked,
        Unlettered, Rowless, Inserted, blobVars
<1>7. \E l \in Labels : Ending(w) \/ Going(w, l)
  BY <1>3, LabelsOfLabels DEF Going
<1> QED BY <1>1, <1>3, <1>4, <1>5, <1>6, <1>7 DEF Sound, Going

\* Reading the stale flags changes nothing.
LEMMA ListStaleSound ==
  ASSUME CoreInv, NEW w \in Worker, NEW d \in Doc, ListStale(w, d)
  PROVE  Sound(w)
<1>1. Processes /\ Stores /\ batch[w] = {d} /\ pc[w] = "flag"
  BY TypeParts DEF CoreInv, ListStale, At
<1>2. op[w] \in AllOps /\ op[w] \in PurgeOps
  BY <1>1, OpAt DEF CoreInv, PurgeLabels
<1>3. Processes' /\ Bystanders(w)
      /\ (Going(w, "mark_stale") \/ Ending(w))
  <2>1. {"mark_stale"} \subseteq LabelsOf(op[w])
    BY <1>2, LabelsOfOp DEF PurgeLabels
  <2> QED BY <1>1, <1>2, <2>1, GotoGoes, FinishEnds DEF ListStale, Processes
<1>4. Stores' /\ contended' = contended /\ \A e \in Doc : Untouched(e)
  BY <1>1 DEF ListStale, Stores, Untouched, pgVars, blobVars, envVars
<1>5. ASSUME d \notin contended
      PROVE  Guarantee(op[w], d) /\ Content(d)'
  BY <1>4, <1>5, Untouching DEF CoreInv, Guarantee, Untouched
<1>6. ASSUME d \notin contended, d \in batch'[w]
      PROVE  Knowledge(w, d)'
  <2>1. Content(d) /\ Knowledge(w, d)
    BY <1>1, <1>6 DEF CoreInv
  <2> QED
    BY <1>1, <1>2, <1>3, <1>6, <2>1
    DEF Going, Ending, ListStale, PurgeOps, Knowledge, Compensating, Purging,
        Ingesting, Graphing, Unlinked, Unparsed, Unchunked, Unlettered,
        Rowless, Inserted, pgVars, blobVars
<1>7. \E l \in Labels : Ending(w) \/ Going(w, l)
  BY <1>3, LabelsOfLabels DEF Going, Labels
<1> QED BY <1>1, <1>3, <1>4, <1>5, <1>6, <1>7 DEF Sound, Ending, Going

\* The stale flag is of no concern to the invariant.
LEMMA MarkStaleSound ==
  ASSUME CoreInv, NEW w \in Worker, NEW d \in Doc, MarkStale(w, d)
  PROVE  Sound(w)
<1>1. Processes /\ Stores /\ batch[w] = {d} /\ pc[w] = "mark_stale"
  BY TypeParts DEF CoreInv, MarkStale, At
<1>2. op[w] \in AllOps /\ op[w] \in PurgeOps
  BY <1>1, OpAt DEF CoreInv, PurgeLabels
<1>3. Processes' /\ Bystanders(w)
      /\ Ending(w)
  BY <1>1, FinishEnds DEF MarkStale
<1>4. Stores' /\ contended' = contended /\ \A e \in Doc \ {d} : Untouched(e)
  BY <1>1 DEF MarkStale, Stores, Untouched, blobVars, envVars
<1>5. ASSUME d \notin contended
      PROVE  Guarantee(op[w], d) /\ Content(d)'
  <2>1. Content(d) /\ Compensating(w, d) /\ Purging(w, d)
    BY <1>1, <1>5 DEF CoreInv, Knowledge
  <2>2. Guarantee(op[w], d)
    BY DEF MarkStale, Guarantee, blobVars
  <2>3. Content(d)'
    BY <1>1, <1>2, <2>1
    DEF MarkStale, Content, blobVars, Purging, Unlinked, Unparsed, Unchunked,
        Unlettered, Rowless
  <2> QED BY <2>2, <2>3
<1> QED BY <1>1, <1>3, <1>4, <1>5 DEF Sound, Ending

\* A document that is no longer buried may still be purged.
LEMMA ClearTombstoneSound ==
  ASSUME CoreInv, NEW w \in Worker, NEW d \in Doc, ClearTombstone(w, d)
  PROVE  Sound(w)
<1>1. Processes /\ Stores /\ batch[w] = {d} /\ pc[w] = "unbury"
  BY TypeParts DEF CoreInv, ClearTombstone, At
<1>2. op[w] \in AllOps /\ op[w] = "restore"
  BY <1>1, OpAt DEF CoreInv
<1>3. Processes' /\ Bystanders(w)
      /\ Going(w, "revive")
  <2>1. {"revive"} \subseteq LabelsOf(op[w])
    BY <1>2, LabelsOfOp
  <2> QED BY <1>1, <1>2, <2>1, GotoGoes DEF ClearTombstone, Processes
<1>4. Stores' /\ contended' = contended /\ \A e \in Doc \ {d} : Untouched(e)
  BY <1>1 DEF ClearTombstone, Stores, Untouched, blobVars, envVars
<1>5. ASSUME d \notin contended
      PROVE  Guarantee(op[w], d) /\ Content(d)'
  <2>1. Content(d) /\ Knowledge(w, d)
    BY <1>1, <1>5 DEF CoreInv
  <2>2. Guarantee(op[w], d)
    BY <1>2 DEF Guarantee, PurgeOps
  <2>3. Content(d)'
    BY <2>1 DEF ClearTombstone, Content, Erased, blobVars
  <2> QED BY <2>2, <2>3
<1>6. ASSUME d \notin contended, d \in batch'[w]
      PROVE  Knowledge(w, d)'
  <2>1. Content(d) /\ Knowledge(w, d)
    BY <1>1, <1>6 DEF CoreInv
  <2> QED
    BY <1>2, <1>3
    DEF Going, IngestOps, PurgeOps, Knowledge, Compensating, Purging,
        Ingesting, Graphing
<1>7. \E l \in Labels : Ending(w) \/ Going(w, l)
  BY <1>3 DEF Labels
<1> QED BY <1>1, <1>3, <1>4, <1>5, <1>6, <1>7 DEF Sound, Going

\* Setting a document to pending takes no promise back.
LEMMA ReviveSound ==
  ASSUME CoreInv, NEW w \in Worker, NEW d \in Doc, Revive(w, d)
  PROVE  Sound(w)
<1>1. Processes /\ Stores /\ batch[w] = {d} /\ pc[w] = "revive"
  BY TypeParts DEF CoreInv, Revive, At
<1>2. op[w] \in AllOps /\ op[w] \in {"restore", "reingest"}
  BY <1>1, OpAt DEF CoreInv
<1>3. Processes' /\ Bystanders(w)
      /\ Ending(w)
  BY <1>1, FinishEnds DEF Revive
<1>4. Stores' /\ contended' = contended /\ \A e \in Doc \ {d} : Untouched(e)
  BY <1>1 DEF Revive, SetState, Stores, States, Untouched, blobVars, envVars
<1>5. ASSUME d \notin contended
      PROVE  Guarantee(op[w], d) /\ Content(d)'
  <2>1. Content(d) /\ Knowledge(w, d)
    BY <1>1, <1>5 DEF CoreInv
  <2>2. Guarantee(op[w], d)
    BY <1>2 DEF Revive, Guarantee, PurgeOps
  <2>3. Content(d)'
    BY <2>1 DEF Revive, SetState, Content, Erased, Indexed, blobVars
  <2> QED BY <2>2, <2>3
<1> QED
  BY <1>1, <1>3, <1>4, <1>5
  DEF Sound, Ending

-----------------------------------------------------------------------------
(* The steps over the documents of a batch.                                *)

\* A line of the manifest is looked up: GraphRAG knows the document is indexed.
LEMMA CheckEligibleSound ==
  ASSUME CoreInv, NEW w \in Worker, NEW d \in Doc, CheckEligible(w, d)
  PROVE  Sound(w)
<1>1. /\ Processes /\ d \in batch[w] /\ d = Line(batch[w], held[w])
      /\ pc[w] = "aggregate" /\ op[w] = "graphrag" /\ op[w] \in AllOps
  BY TypeParts, OpAt DEF CoreInv, CheckEligible, GraphLabels
<1>2. /\ Processes' /\ Bystanders(w)
      /\ \/ Ending(w)
         \/ Going(w, "merge") /\ Eligible(d) /\ held' = held
  <2>1. "merge" \in LabelsOf(op[w])
    BY <1>1, LabelsOfOp DEF GraphLabels
  <2>2. CASE ~Eligible(d)
    BY <1>1, <2>2, FinishEnds DEF CheckEligible
  <2>3. CASE Eligible(d)
    <3>1. held' = held /\ Goto(w, "merge")
      BY <2>3 DEF CheckEligible
    <3> QED BY <1>1, <2>1, <2>3, <3>1, GotoGoes DEF Processes
  <2> QED BY <2>2, <2>3
<1>3. Stores' /\ contended' = contended /\ \A e \in Doc : Untouched(e)
  BY <1>1, TypeParts
  DEF CheckEligible, CoreInv, Stores, Untouched, pgVars, blobVars, envVars
<1>4. ASSUME NEW e \in batch[w] \ contended
      PROVE  Guarantee(op[w], e) /\ Content(e)'
  BY <1>1, <1>3, Untouching DEF CoreInv, Processes, Guarantee, Untouched
<1>5. ASSUME NEW e \in batch'[w] \ contended
      PROVE  Knowledge(w, e)'
  <2>1. /\ e \in batch[w] /\ Graphing(w, e) /\ Untouched(e)
        /\ batch'[w] = batch[w] /\ op'[w] = op[w] /\ pc'[w] = "merge"
        /\ held'[w] = held[w] /\ Eligible(d)
    BY <1>1, <1>2, <1>3 DEF CoreInv, Knowledge, Ending, Going, Processes
  <2>2. e = Line(batch'[w], held'[w]) => ingest_state'[e] \in Indexed
    BY <1>1, <2>1 DEF Eligible, Untouched
  <2>3. /\ held'[w][e] # {} => ingest_state'[e] \in Indexed
        /\ held'[w][e] \subseteq rows'[e]
    BY <1>1, <2>1 DEF Graphing, Untouched
  <2> QED
    BY <1>1, <2>1, <2>2, <2>3
    DEF Knowledge, Compensating, Purging, Ingesting, Graphing, IngestOps,
        PurgeOps
<1> QED BY <1>2, <1>3, <1>4, <1>5 DEF Sound, Labels, GraphLabels

\* A line's chunks.jsonl is read: what GraphRAG holds are chunks with rows.
LEMMA AggregateDocumentSound ==
  ASSUME CoreInv, NEW w \in Worker, NEW d \in Doc, AggregateDocument(w, d)
  PROVE  Sound(w)
<1>1. /\ Processes /\ Stores /\ d \in batch[w] /\ d = Line(batch[w], held[w])
      /\ pc[w] = "merge" /\ op[w] = "graphrag" /\ op[w] \in AllOps
  BY TypeParts, OpAt DEF CoreInv, AggregateDocument, GraphLabels
<1>2. /\ Processes' /\ Bystanders(w)
      /\ \/ Ending(w)
         \/ /\ Going(w, "aggregate") \/ Going(w, "mention")
            /\ artifact[d] # {} /\ held' = [held EXCEPT ![w][d] = artifact[d]]
            /\ pc'[w] = "mention" => \A e \in batch[w] \ {d} : held[w][e] # {}
  <2>1. {"aggregate", "mention"} \subseteq LabelsOf(op[w])
    BY <1>1, LabelsOfOp DEF GraphLabels
  <2>2. CASE artifact[d] = {}
    BY <1>1, <2>2, FinishEnds DEF AggregateDocument
  <2>3. CASE artifact[d] # {}
    <3> DEFINE l == IF \E e \in batch[w] \ {d} : held[w][e] = {}
                    THEN "aggregate" ELSE "mention"
    <3>1. held' = [held EXCEPT ![w][d] = artifact[d]] /\ Goto(w, l)
      BY <2>3 DEF AggregateDocument
    <3>2. /\ held' \in [Worker -> [Doc -> SUBSET Chunk]]
          /\ \A v \in Worker \ {w} : held'[v] = held[v]
      BY <1>1, <3>1 DEF Processes, Stores
    <3>3. Processes' /\ Bystanders(w) /\ Going(w, l)
      BY <1>1, <2>1, <3>1, <3>2, GotoGoes
    <3> QED BY <2>3, <3>1, <3>3 DEF Going
  <2> QED BY <2>2, <2>3
<1>3. Stores' /\ contended' = contended /\ \A e \in Doc : Untouched(e)
  BY <1>1 DEF AggregateDocument, Stores, Untouched, pgVars, blobVars, envVars
<1>4. ASSUME NEW e \in batch[w] \ contended
      PROVE  Guarantee(op[w], e) /\ Content(e)'
  BY <1>1, <1>3, Untouching DEF CoreInv, Processes, Guarantee, Untouched
<1>5. ASSUME NEW e \in batch'[w] \ contended
      PROVE  Knowledge(w, e)'
  <2>1. /\ e \in batch[w] /\ e \in Doc /\ Content(e) /\ Graphing(w, e)
        /\ Untouched(e)
    BY <1>2, <1>3 DEF CoreInv, Knowledge, Ending, Going, Processes
  <2>2. /\ Going(w, "aggregate") \/ Going(w, "mention")
        /\ artifact[d] # {} /\ held' = [held EXCEPT ![w][d] = artifact[d]]
        /\ pc'[w] = "mention" => \A f \in batch[w] \ {d} : held[w][f] # {}
    BY <1>2 DEF Ending
  <2>3. held'[w][e] = IF e = d THEN artifact[d] ELSE held[w][e]
    BY <1>1, <2>2 DEF Processes
  <2>4. /\ held[w][e] # {} => ingest_state[e] \in Indexed
        /\ e = d => ingest_state[e] \in Indexed
        /\ held[w][e] \subseteq rows[e]
    BY <1>1, <2>1 DEF Graphing
  <2>5. held'[w][e] # {} => ingest_state'[e] \in Indexed
    BY <2>1, <2>3, <2>4 DEF Untouched
  <2>6. held'[w][e] \subseteq rows'[e]
    BY <2>1, <2>3, <2>4 DEF Content, Untouched
  <2>7. pc'[w] = "mention" => held'[w][e] # {}
    BY <2>1, <2>2, <2>3
  <2> QED
    BY <1>1, <2>2, <2>5, <2>6, <2>7
    DEF Knowledge, Compensating, Purging, Ingesting, Graphing, Going,
        IngestOps, PurgeOps
<1> QED BY <1>2, <1>3, <1>4, <1>5 DEF Sound, Labels, GraphLabels

\* Mentions are only written of chunks that are in the database.
LEMMA UpsertMentionsSound ==
  ASSUME CoreInv, NEW w \in Worker, NEW d \in Doc, UpsertMentions(w, d)
  PROVE  Sound(w)
<1>1. /\ Processes /\ Stores /\ d \in batch[w]
      /\ pc[w] = "mention" /\ op[w] = "graphrag" /\ op[w] \in AllOps
  BY TypeParts, OpAt DEF CoreInv, UpsertMentions, GraphLabels
<1>2. /\ Processes' /\ Bystanders(w)
      /\ Going(w, "mention") \/ Going(w, "apply")
  <2> DEFINE l == IF \E e \in batch[w] \ {d} : held[w][e] # {}
                  THEN "mention" ELSE "apply"
  <2>1. l \in LabelsOf(op[w])
    BY <1>1, LabelsOfOp DEF GraphLabels
  <2>2. /\ held' \in [Worker -> [Doc -> SUBSET Chunk]]
        /\ \A v \in Worker \ {w} : held'[v] = held[v]
    BY <1>1 DEF UpsertMentions, Processes
  <2>3. Processes' /\ Bystanders(w) /\ Going(w, l)
    BY <1>1, <2>1, <2>2, GotoGoes DEF UpsertMentions
  <2> QED BY <2>3
<1>3. Stores' /\ contended' = contended /\ \A e \in Doc \ {d} : Untouched(e)
  BY <1>1
  DEF UpsertMentions, Stores, Processes, Untouched, pgVars, blobVars, envVars
<1>4. ASSUME NEW e \in batch[w] \ contended
      PROVE  Guarantee(op[w], e) /\ Content(e)'
  <2>1. e \in Doc /\ Content(e) /\ Graphing(w, e)
    BY <1>1 DEF CoreInv, Knowledge, Processes
  <2>2. Guarantee(op[w], e)
    BY <1>1 DEF UpsertMentions, Guarantee, PurgeOps, pgVars
  <2>3. CASE e # d
    BY <1>3, <2>1, <2>2, <2>3, Untouching
  <2>4. CASE e = d
    BY <1>1, <2>1, <2>2
    DEF UpsertMentions, Content, Erased, Graphing, pgVars, blobVars
  <2> QED BY <2>3, <2>4
<1>5. ASSUME NEW e \in batch'[w] \ contended
      PROVE  Knowledge(w, e)'
  <2>1. e \in batch[w] /\ e \in Doc /\ Graphing(w, e)
    BY <1>2 DEF CoreInv, Knowledge, Going, Processes
  <2>2. held'[w][e] = {} \/ held'[w][e] = held[w][e]
    BY DEF UpsertMentions
  <2>3. ingest_state'[e] = ingest_state[e] /\ rows'[e] = rows[e]
    BY DEF UpsertMentions, pgVars
  <2> QED
    BY <1>1, <1>2, <2>1, <2>2, <2>3
    DEF Knowledge, Compensating, Purging, Ingesting, Graphing, Going,
        IngestOps, PurgeOps
<1> QED BY <1>1, <1>2, <1>3, <1>4, <1>5 DEF Sound, Labels, GraphLabels

\* The unconditional UPDATE finds the documents of an uncontended run indexed.
LEMMA MarkGraphragIndexedSound ==
  ASSUME CoreInv, NEW w \in Worker, MarkGraphragIndexed(w)
  PROVE  Sound(w)
<1>1. /\ Processes /\ Stores /\ pc[w] \in {"apply", "finalize"}
      /\ op[w] = "graphrag" /\ op[w] \in AllOps
  BY TypeParts, OpAt DEF CoreInv, MarkGraphragIndexed, GraphLabels
<1>2. /\ Processes' /\ Bystanders(w)
      /\ Ending(w) \/ (Going(w, "finalize") /\ held'[w] = held[w])
  <2>1. "finalize" \in LabelsOf(op[w])
    BY <1>1, LabelsOfOp DEF GraphLabels
  <2>2. CASE pc[w] = "apply"
    <3>1. Goto(w, "finalize") /\ held' = held
      BY <2>2 DEF MarkGraphragIndexed
    <3>2. /\ held' \in [Worker -> [Doc -> SUBSET Chunk]]
          /\ \A v \in Worker \ {w} : held'[v] = held[v]
      BY <1>1, <3>1 DEF Processes
    <3> QED BY <1>1, <2>1, <3>1, <3>2, GotoGoes
  <2>3. CASE pc[w] = "finalize"
    BY <1>1, <2>3, FinishEnds DEF MarkGraphragIndexed
  <2> QED BY <1>1, <2>2, <2>3
<1>3. /\ Stores' /\ contended' = contended
      /\ \A e \in Doc \ batch[w] : Untouched(e)
  BY <1>1 DEF MarkGraphragIndexed, Stores, States, Untouched, blobVars, envVars
<1>4. ASSUME NEW e \in batch[w] \ contended
      PROVE  Guarantee(op[w], e) /\ Content(e)'
  <2>1. e \in Doc /\ Content(e) /\ Graphing(w, e)
    BY <1>1 DEF CoreInv, Knowledge, Processes
  <2>2. ingest_state[e] \in Indexed /\ ingest_state'[e] = "indexed_graph"
    BY <1>1, <2>1 DEF MarkGraphragIndexed, Graphing, Indexed
  <2> QED
    BY <1>1, <2>1, <2>2
    DEF MarkGraphragIndexed, Guarantee, Content, Erased, Indexed, PurgeOps,
        blobVars
<1>5. ASSUME NEW e \in batch'[w] \ contended
      PROVE  Knowledge(w, e)'
  <2>1. e \in batch[w] /\ e \in Doc /\ Graphing(w, e)
    BY <1>2 DEF CoreInv, Knowledge, Going, Ending, Processes
  <2>2. ingest_state'[e] = "indexed_graph" /\ rows'[e] = rows[e]
    BY <1>1, <2>1 DEF MarkGraphragIndexed, Graphing, Indexed
  <2>3. Going(w, "finalize") /\ held'[w] = held[w]
    BY <1>2 DEF Ending
  <2> QED
    BY <1>1, <2>1, <2>2, <2>3
    DEF Knowledge, Compensating, Purging, Ingesting, Graphing, Going, Indexed,
        IngestOps, PurgeOps
<1> QED BY <1>2, <1>3, <1>4, <1>5 DEF Sound, Labels, GraphLabels

\* A call that fails, or a pod that dies, leaves what was written so far.
LEMMA CrashSound ==
  ASSUME CoreInv, NEW w \in Worker, Crash(w)
  PROVE  Sound(w)
<1>1. Processes /\ Stores /\ EndAttempt(w) /\ PartialEffect(w)
  BY TypeParts DEF CoreInv, Crash
<1>2. /\ Processes' /\ Bystanders(w)
      /\ \/ Ending(w)
         \/ Going(w, "load") /\ op[w] \in IngestOps /\ held'[w] = NoChunks
  BY <1>1, EndAttemptEnds
<1>3. /\ vertices' \in [Doc -> SUBSET Chunk]
      /\ \A e \in Doc \ batch[w] : vertices'[e] = vertices[e]
      /\ \A e \in batch[w] : \/ vertices'[e] \subseteq vertices[e]
                             \/ /\ pc[w] = "mention"
                                /\ vertices'[e]
                                     \subseteq vertices[e] \cup held[w][e]
  <2>1. CASE UNCHANGED vertices
    BY <1>1, <2>1 DEF Stores
  <2>2. CASE /\ pc[w] = "unlink"
             /\ \E d \in batch[w] : \E S \in SUBSET held[w][d] :
                  vertices' = [vertices EXCEPT ![d] = @ \ S]
    BY <1>1, <2>2 DEF Processes, Stores
  <2>3. CASE /\ pc[w] = "mention"
             /\ \E d \in batch[w] : \E S \in SUBSET held[w][d] :
                  vertices' = [vertices EXCEPT ![d] = @ \cup (S \cap Linked)]
    BY <1>1, <2>3 DEF Processes, Stores
  <2> QED BY <1>1, <2>1, <2>2, <2>3 DEF PartialEffect
<1>4. /\ Stores' /\ contended' = contended
      /\ \A e \in Doc \ batch[w] : Untouched(e)
  <2>1. crashes' \in 0..MaxCrashes
    BY <1>1, ConstantsAssumption DEF Crash, Stores
  <2> QED BY <1>1, <1>3, <2>1 DEF Crash, Stores, Untouched, pgVars, blobVars
<1>5. ASSUME NEW e \in batch[w] \ contended
      PROVE  Guarantee(op[w], e) /\ Content(e)'
  <2>1. e \in Doc /\ Content(e) /\ Graphing(w, e)
    BY <1>1 DEF CoreInv, Knowledge, Processes
  <2>2. pc[w] = "mention" => op[w] = "graphrag"
    BY OpAt DEF CoreInv, GraphLabels
  <2>3. vertices'[e] \subseteq vertices[e] \/ (op[w] = "graphrag"
          /\ vertices'[e] \subseteq vertices[e] \cup held[w][e])
    BY <1>3, <2>2
  <2>4. Guarantee(op[w], e)
    BY <2>3 DEF Crash, Guarantee, PurgeOps, pgVars, blobVars
  <2>5. Content(e)'
    BY <2>1, <2>3 DEF Crash, Content, Erased, Graphing, pgVars, blobVars
  <2> QED BY <2>4, <2>5
<1>6. ASSUME NEW e \in batch'[w] \ contended
      PROVE  Knowledge(w, e)'
  <2>1. /\ Going(w, "load") /\ op[w] \in IngestOps /\ held'[w] = NoChunks
        /\ e \in Doc /\ e \in batch[w]
    BY <1>2 DEF Ending, Going, Processes
  <2>2. /\ Content(e) /\ Content(e)'
    BY <1>5, <2>1 DEF CoreInv
  <2> QED
    BY <2>1
    DEF Going, Knowledge, Compensating, Purging, Ingesting, Graphing,
        IngestOps, PurgeOps, Inserted
<1> QED BY <1>2, <1>4, <1>5, <1>6 DEF Sound, Labels, IngestLabels

\* An operation that starts knows nothing yet, and is counted as contending if
\* an operation unlike it already has the document.
LEMMA StartKeeps ==
  ASSUME CoreInv, NEW w \in Worker, NEW o \in Ops, NEW B \in SUBSET Doc,
         Start(w, o, B)
  PROVE  CoreInv'
<1>1. /\ Processes /\ Stores /\ pc[w] = "idle"
      /\ o \in AllOps /\ op[w] = "none" /\ held[w] = NoChunks
  <2>1. Processes /\ Stores /\ pc[w] = "idle" /\ o \in AllOps
    BY TypeParts, ConstantsAssumption DEF CoreInv, Start
  <2>2. op[w] = "none"
    <3>1. "idle" \in LabelsOf(op[w]) /\ op[w] \in AllOps \cup {"none"}
      BY <2>1 DEF CoreInv, Control, Processes
    <3> QED
      BY <3>1, LabelsOfOp
      DEF AllOps, IngestLabels, PurgeLabels, GraphLabels, CompensationLabels
  <2> QED BY <2>1, <2>2 DEF CoreInv, Control
<1>2. /\ FirstLabel(o) \in LabelsOf(o)
      /\ FirstLabel(o) \in {"load", "lookup", "aggregate"}
      /\ FirstLabel(o) = "aggregate" <=> o = "graphrag"
      /\ FirstLabel(o) = "load" <=> o \in IngestOps
  <2>1. CASE o \in IngestOps
    <3>1. FirstLabel(o) = "load" /\ o # "graphrag"
      BY <2>1 DEF FirstLabel, IngestOps
    <3> QED BY <1>1, <2>1, <3>1, LabelsOfOp DEF IngestLabels
  <2>2. CASE o = "graphrag"
    BY <1>1, <2>2, LabelsOfOp DEF FirstLabel, GraphLabels
  <2>3. CASE o \notin IngestOps /\ o # "graphrag"
    <3>1. FirstLabel(o) = "lookup"
      BY <2>3 DEF FirstLabel
    <3>2. "lookup" \in LabelsOf(o)
      BY <1>1, <2>3, LabelsOfOp DEF AllOps
    <3> QED BY <2>3, <3>1, <3>2
  <2> QED BY <2>1, <2>2, <2>3
<1>3. /\ pc' = [pc EXCEPT ![w] = FirstLabel(o)]
      /\ op' = [op EXCEPT ![w] = o]
      /\ batch' = [batch EXCEPT ![w] = B]
      /\ contended' = contended \cup {d \in B : Meets(o, d)}
      /\ UNCHANGED <<held, tries, outcomes, crashes, vertices>>
      /\ UNCHANGED <<ingest_state, tombstones, rows, embedded, stale>>
      /\ UNCHANGED <<raw, parsed, pages, artifact, letters>>
  BY DEF Start, pgVars, blobVars
<1>4. TypeOK'
  <2>1. FirstLabel(o) \in Labels
    BY <1>1, <1>2, LabelsOfLabels
  <2> QED BY <1>1, <1>3, <2>1 DEF TypeOK, Processes, Stores
<1>5. Control'
  BY <1>1, <1>2, <1>3 DEF CoreInv, Control, Processes, AllOps, IngestOps, PurgeOps
<1>6. Exclusion'
  <2>1. ASSUME NEW v \in Worker \ {w}, NEW d \in Doc \ contended',
               d \in B, d \in batch[v]
        PROVE  Alike(o, op[v]) /\ Alike(op[v], o)
    BY <1>3, <2>1 DEF Meets, Alike
  <2> QED BY <1>1, <1>3, <2>1 DEF CoreInv, Exclusion, Processes
<1>7. \A e \in Doc \ contended' : Content(e)'
  BY <1>3 DEF CoreInv, Content, Erased
<1>8. ASSUME NEW v \in Worker, NEW e \in batch'[v] \ contended'
      PROVE  Knowledge(v, e)'
  <2>1. CASE v = w
    <3>1. e \in Doc /\ pc'[v] = FirstLabel(o) /\ op'[v] = o /\ held'[v][e] = {}
      BY <1>1, <1>3, <2>1 DEF Processes, NoChunks
    <3> QED
      BY <1>2, <3>1
      DEF Knowledge, Compensating, Purging, Ingesting, Graphing, Inserted,
          Unlinked, Unparsed, Unchunked, Unlettered, Rowless, IngestOps,
          PurgeOps
  <2>2. CASE v # w
    <3>1. /\ e \in batch[v] \ contended /\ pc'[v] = pc[v] /\ op'[v] = op[v]
          /\ batch'[v] = batch[v] /\ held'[v] = held[v]
      BY <1>3, <2>2
    <3>2. Knowledge(v, e)
      BY <3>1 DEF CoreInv
    <3> QED
      BY <1>3, <3>1, <3>2
      DEF Knowledge, Compensating, Purging, Ingesting, Graphing
  <2> QED BY <2>1, <2>2
<1> QED BY <1>4, <1>5, <1>6, <1>7, <1>8 DEF CoreInv

\* No document, no worker and no store starts out of the invariant.
LEMMA InitCore == Init => CoreInv
<1> SUFFICES ASSUME Init PROVE CoreInv
  OBVIOUS
<1>1. TypeOK
  <2>1. NoChunks \in [Doc -> SUBSET Chunk]
    BY DEF NoChunks
  <2>2. ingest_state \in [Doc -> States]
    BY DEF Init, States
  <2>3. 0 \in 0..RetryLimit /\ 0 \in 0..MaxCrashes
    BY ConstantsAssumption
  <2> QED BY <2>1, <2>2, <2>3 DEF Init, TypeOK, Labels
<1>2. Control
  BY LabelsOfOp DEF Init, Control
<1>3. Exclusion
  BY DEF Init, Exclusion
<1>4. ASSUME NEW d \in Doc
      PROVE  Content(d)
  BY DEF Init, Content, Indexed, NoChunks
<1>5. \A w \in Worker : batch[w] = {}
  BY DEF Init
<1> QED BY <1>1, <1>2, <1>3, <1>4, <1>5 DEF CoreInv

\* Every step of a running operation is a sound one.
LEMMA StepSound ==
  ASSUME CoreInv, NEW w \in Worker, Step(w) \/ Crash(w)
  PROVE  Sound(w)
<1>1. ASSUME NEW d \in Doc, GetDocument(w, d) \/ Compensate(w, d)
      PROVE  Sound(w)
  BY <1>1, GetDocumentSound, ListChunksSound, ClearEmbeddingsSound,
     DeleteVerticesSound
  DEF Compensate
<1>2. ASSUME NEW d \in Doc, Ingest(w, d)
      PROVE  Sound(w)
  BY <1>2, LoadRawSound, CheckTombstoneSound, RecheckPurgedSound,
     InsertDocumentSound, RunOcrSound, ParseFailsSound, PersistParsedSound,
     ChunksEmptySound, WriteChunksSound, RecordDeadLetterSound,
     ReadChunksSound, UpsertChunksSound, MarkRagIndexedSound
  DEF Ingest
<1>3. ASSUME NEW d \in Doc, Purge(w, d)
      PROVE  Sound(w)
  BY <1>3, BeginPurgeSound, DeleteParsedSound, DeleteArtifactSound,
     DeleteDeadLetterSound, DeleteRawSound, DeleteRowsSound,
     InsertTombstoneSound, MarkPurgedSound, ListStaleSound, MarkStaleSound
  DEF Purge
<1>4. ASSUME NEW d \in Doc, ClearTombstone(w, d) \/ Revive(w, d)
      PROVE  Sound(w)
  BY <1>4, ClearTombstoneSound, ReviveSound
<1>5. ASSUME GraphRag(w) PROVE  Sound(w)
  BY <1>5, CheckEligibleSound, AggregateDocumentSound, UpsertMentionsSound,
     MarkGraphragIndexedSound
  DEF GraphRag
<1> QED BY <1>1, <1>2, <1>3, <1>4, <1>5, CrashSound DEF Step

\* Every step of every worker preserves the core of the inductive invariant.
LEMMA NextCore == CoreInv /\ [Next]_vars => CoreInv'
<1> SUFFICES ASSUME CoreInv, [Next]_vars PROVE CoreInv'
  OBVIOUS
<1>1. CASE UNCHANGED vars
  <2> USE <1>1 DEF vars, pgVars, blobVars, procVars, envVars
  <2>1. TypeOK' /\ Control' /\ Exclusion'
    BY DEF CoreInv, TypeOK, Control, Exclusion
  <2>2. \A d \in Doc \ contended' : Content(d)'
    BY DEF CoreInv, Content, Erased
  <2>3. \A w \in Worker : \A d \in batch'[w] \ contended' : Knowledge(w, d)'
    BY DEF CoreInv, Knowledge, Compensating, Purging, Ingesting, Graphing
  <2> QED BY <2>1, <2>2, <2>3 DEF CoreInv
<1>2. ASSUME NEW w \in Worker, NEW o \in Ops, NEW B \in SUBSET Doc,
             Start(w, o, B)
      PROVE  CoreInv'
  BY <1>2, StartKeeps
<1>3. ASSUME NEW w \in Worker, Step(w) \/ Crash(w)
      PROVE  CoreInv'
  BY <1>3, StepSound, Composing
<1> QED BY <1>1, <1>2, <1>3 DEF Next

\* How a step of w may change the state of document e, whoever else is on it.
StateMoves(w, e) ==
  \/ ingest_state'[e] = ingest_state[e]
  \/ /\ e \in batch[w]
     /\ \/ /\ op[w] \in IngestOps /\ pc[w] \in {"insert", "dead", "mark"}
           /\ ingest_state'[e] \in {"pending", "dead_letter", "indexed_rag"}
        \/ /\ op[w] \in PurgeOps /\ pc[w] = "begin"
           /\ ingest_state'[e] = "purging"
        \/ /\ op[w] \in PurgeOps /\ pc[w] = "mark_purged"
           /\ Going(w, "flag") /\ ingest_state'[e] = "purged"
        \/ /\ op[w] \in {"restore", "reingest"} /\ pc[w] = "revive"
           /\ ingest_state'[e] = "pending"
        \/ /\ op[w] = "graphrag" /\ pc[w] \in {"apply", "finalize"}
           /\ ingest_state'[e] = "indexed_graph"

\* One step changes the marks of a document, or its rows, or its vertices.
Marked(e) ==
  \/ ingest_state'[e] # ingest_state[e]
  \/ ~((e \in tombstones') <=> (e \in tombstones))

Moves(w, e) ==
  /\ StateMoves(w, e)
  /\ ((e \in tombstones') <=> (e \in tombstones)) \/ pc[w] \in {"bury", "unbury"}
  /\ rows'[e] = rows[e] \/ pc[w] \in {"store", "del_rows"}
  /\ Marked(e) => rows' = rows /\ vertices' = vertices

\* Most steps leave the marks and the rows of every document alone.
LEMMA UnmarkedMoves ==
  ASSUME NEW w \in Worker, NEW e \in Doc,
         UNCHANGED <<ingest_state, tombstones, rows>>
  PROVE  Moves(w, e)
  BY DEF Moves, StateMoves, Marked

\* The others are few.
LEMMA StepMoves ==
  ASSUME CoreInv, NEW w \in Worker, Step(w) \/ Crash(w), NEW e \in Doc
  PROVE  Moves(w, e)
<1>1. TypeOK /\ Control
  BY DEF CoreInv
<1>2. ASSUME NEW d \in Doc, GetDocument(w, d) \/ Compensate(w, d)
      PROVE  Moves(w, e)
  BY <1>2, UnmarkedMoves
  DEF GetDocument, Compensate, ListChunks, ClearEmbeddings, DeleteVertices,
      pgVars
<1>3. ASSUME NEW d \in Doc, Ingest(w, d)
      PROVE  Moves(w, e)
  <2>1. CASE InsertDocument(w, d) \/ RecordDeadLetter(w, d) \/ MarkRagIndexed(w, d)
    <3>1. op[w] \in IngestOps /\ pc[w] \in {"insert", "dead", "mark"}
      BY <1>1, <2>1, OpAt
      DEF InsertDocument, RecordDeadLetter, MarkRagIndexed, At, IngestLabels
    <3>2. /\ UNCHANGED <<tombstones, rows, vertices>>
          /\ \/ ingest_state'[e] = ingest_state[e]
             \/ /\ e \in batch[w]
                /\ ingest_state'[e]
                     \in {"pending", "dead_letter", "indexed_rag"}
      BY <1>1, <2>1
      DEF InsertDocument, RecordDeadLetter, MarkRagIndexed, SetState, At, TypeOK
    <3> QED BY <3>1, <3>2 DEF Moves, StateMoves, Marked
  <2>2. CASE UpsertChunks(w, d)
    BY <2>2 DEF UpsertChunks, At, Moves, StateMoves, Marked
  <2>3. CASE \/ LoadRaw(w, d) \/ CheckTombstone(w, d) \/ RecheckPurged(w, d)
             \/ RunOcr(w, d) \/ ParseFails(w, d) \/ PersistParsed(w, d)
             \/ ChunksEmpty(w, d) \/ WriteChunks(w, d) \/ ReadChunks(w, d)
    BY <2>3, UnmarkedMoves
    DEF LoadRaw, CheckTombstone, RecheckPurged, RunOcr, ParseFails,
        PersistParsed, ChunksEmpty, WriteChunks, ReadChunks, pgVars
  <2> QED BY <1>3, <2>1, <2>2, <2>3 DEF Ingest
<1>4. ASSUME NEW d \in Doc, Purge(w, d)
      PROVE  Moves(w, e)
  <2>1. CASE BeginPurge(w, d)
    <3>1. op[w] \in PurgeOps /\ pc[w] = "begin"
      BY <1>1, <2>1, OpAt DEF BeginPurge, At, PurgeLabels
    <3>2. /\ UNCHANGED <<tombstones, rows, vertices>>
          /\ \/ ingest_state'[e] = ingest_state[e]
             \/ e \in batch[w] /\ ingest_state'[e] = "purging"
      BY <1>1, <2>1 DEF BeginPurge, SetState, At, TypeOK
    <3> QED BY <3>1, <3>2 DEF Moves, StateMoves, Marked
  <2>2. CASE MarkPurged(w, d)
    <3>1. /\ op[w] \in PurgeOps /\ op[w] \in AllOps /\ pc[w] = "mark_purged"
      BY <1>1, <2>2, OpAt DEF MarkPurged, At, PurgeLabels, AllOps
    <3>2. /\ UNCHANGED <<tombstones, rows, vertices>>
          /\ \/ ingest_state'[e] = ingest_state[e]
             \/ e \in batch[w] /\ ingest_state'[e] = "purged"
      BY <1>1, <2>2 DEF MarkPurged, SetState, At, TypeOK
    <3>3. Going(w, "flag")
      <4>1. "flag" \in LabelsOf(op[w])
        BY <3>1, LabelsOfOp DEF PurgeLabels
      <4> QED BY <1>1, <2>2, <3>1, <4>1 DEF MarkPurged, Goto, Going, TypeOK
    <3> QED BY <3>1, <3>2, <3>3 DEF Moves, StateMoves, Marked
  <2>3. CASE InsertTombstone(w, d)
    BY <2>3 DEF InsertTombstone, At, Moves, StateMoves, Marked
  <2>4. CASE DeleteRows(w, d)
    BY <2>4 DEF DeleteRows, At, Moves, StateMoves, Marked
  <2>5. CASE \/ DeleteParsed(w, d) \/ DeleteArtifact(w, d)
             \/ DeleteDeadLetter(w, d) \/ DeleteRaw(w, d) \/ ListStale(w, d)
             \/ MarkStale(w, d)
    BY <2>5, UnmarkedMoves
    DEF DeleteParsed, DeleteArtifact, DeleteDeadLetter, DeleteRaw, ListStale,
        MarkStale, pgVars
  <2> QED BY <1>4, <2>1, <2>2, <2>3, <2>4, <2>5 DEF Purge
<1>5. ASSUME NEW d \in Doc, ClearTombstone(w, d)
      PROVE  Moves(w, e)
  BY <1>5 DEF ClearTombstone, At, Moves, StateMoves, Marked
<1>6. ASSUME NEW d \in Doc, Revive(w, d)
      PROVE  Moves(w, e)
  <2>1. op[w] \in {"restore", "reingest"} /\ pc[w] = "revive"
    BY <1>1, <1>6, OpAt DEF Revive, At
  <2>2. /\ UNCHANGED <<tombstones, rows, vertices>>
        /\ \/ ingest_state'[e] = ingest_state[e]
           \/ e \in batch[w] /\ ingest_state'[e] = "pending"
    BY <1>1, <1>6 DEF Revive, SetState, At, TypeOK
  <2> QED BY <2>1, <2>2 DEF Moves, StateMoves, Marked
<1>7. CASE MarkGraphragIndexed(w)
  <2>1. op[w] = "graphrag" /\ pc[w] \in {"apply", "finalize"}
    BY <1>1, <1>7, OpAt DEF MarkGraphragIndexed, GraphLabels
  <2>2. /\ UNCHANGED <<tombstones, rows, vertices>>
        /\ \/ ingest_state'[e] = ingest_state[e]
           \/ e \in batch[w] /\ ingest_state'[e] = "indexed_graph"
    BY <1>7 DEF MarkGraphragIndexed
  <2> QED BY <2>1, <2>2 DEF Moves, StateMoves, Marked
<1>8. ASSUME NEW d \in Doc, \/ CheckEligible(w, d) \/ AggregateDocument(w, d)
                            \/ UpsertMentions(w, d)
      PROVE  Moves(w, e)
  BY <1>8, UnmarkedMoves
  DEF CheckEligible, AggregateDocument, UpsertMentions, pgVars
<1>9. CASE Crash(w)
  BY <1>9, UnmarkedMoves DEF Crash, pgVars
<1> QED
  BY <1>2, <1>3, <1>4, <1>5, <1>6, <1>7, <1>8, <1>9 DEF Step, GraphRag

\* A step that begins an operation writes nothing.
LEMMA StartWritesNothing ==
  ASSUME CoreInv, NEW w \in Worker, NEW o \in Ops, NEW B \in SUBSET Doc,
         Start(w, o, B)
  PROVE  /\ UNCHANGED <<ingest_state, tombstones, stale, rows, vertices, crashes>>
         /\ contended \subseteq contended'
         /\ pc[w] = "idle"
         /\ pc'[w] \in {"load", "lookup", "aggregate"}
         /\ op'[w] = "reingest" => pc'[w] = "lookup"
         /\ \A v \in Worker \ {w} : /\ pc'[v] = pc[v] /\ op'[v] = op[v]
                                    /\ batch'[v] = batch[v]
<1>1. /\ FirstLabel(o) \in {"load", "lookup", "aggregate"}
      /\ o = "reingest" => FirstLabel(o) = "lookup"
  BY DEF FirstLabel, IngestOps
<1> QED
  BY <1>1 DEF CoreInv, TypeOK, Start, pgVars, blobVars

\* Nothing but a purge marks a document purged, and a purge and a reingest of
\* one document are a conflict.
LEMMA WakingKept ==
  ASSUME IInv, NEW w \in Worker, Step(w) \/ Crash(w)
  PROVE  Waking'
<1> SUFFICES ASSUME NEW v \in Worker, NEW e \in batch'[v] \ contended',
                    op'[v] = "reingest", pc'[v] # "lookup"
             PROVE  ingest_state'[e] # "purged"
  BY DEF Waking
<1>1. /\ CoreInv /\ Sound(w)
      /\ \A d \in batch[v] \ contended :
           op[v] = "reingest" /\ pc[v] # "lookup" => ingest_state[d] # "purged"
  BY StepSound DEF IInv, Waking
<1>2. e \in batch[v] /\ e \in Doc /\ e \notin contended /\ op[v] = "reingest"
  <2>1. CASE v = w
    BY <1>1, <2>1 DEF Sound, Going, Ending, CoreInv, TypeOK
  <2>2. CASE v # w
    BY <1>1, <2>2 DEF Sound, Bystanders, CoreInv, TypeOK
  <2> QED BY <2>1, <2>2
<1>3. Moves(w, e)
  BY <1>1, <1>2, StepMoves
<1>4. CASE ingest_state'[e] = "purged" /\ ingest_state[e] # "purged"
  <2>1. op[w] \in PurgeOps /\ w # v
    BY <1>2, <1>3, <1>4 DEF Moves, StateMoves, PurgeOps
  <2>2. CASE e \in batch[w]
    <3>1. Alike(op[v], op[w])
      BY <1>1, <1>2, <2>1, <2>2 DEF CoreInv, Exclusion
    <3> QED BY <1>2, <2>1, <3>1 DEF Alike, PurgeOps
  <2>3. CASE e \notin batch[w]
    BY <1>1, <1>2, <1>4, <2>3 DEF Sound, Untouched
  <2> QED BY <2>2, <2>3
<1>5. CASE ingest_state[e] = "purged"
  <2>1. pc[v] = "lookup"
    BY <1>1, <1>2, <1>5
  <2>2. v = w
    BY <1>1, <2>1 DEF Sound, Bystanders
  <2>3. GetDocument(w, e) \/ Crash(w)
    BY <1>2, <2>1, <2>2
    DEF Step, GetDocument, Compensate, Ingest, Purge, GraphRag, At,
        ListChunks, ClearEmbeddings, DeleteVertices, LoadRaw, CheckTombstone,
        RecheckPurged, InsertDocument, RunOcr, ParseFails, PersistParsed,
        ParsedAt, ChunksEmpty, WriteChunks, RecordDeadLetter, ReadChunks,
        UpsertChunks, MarkRagIndexed, BeginPurge, DeleteParsed,
        DeleteArtifact, DeleteDeadLetter, DeleteRaw, DeleteRows,
        InsertTombstone, MarkPurged, ListStale, MarkStale, ClearTombstone,
        Revive, CheckEligible, AggregateDocument, UpsertMentions,
        MarkGraphragIndexed
  <2>4. Ending(w)
    <3>1. Processes
      BY <1>1, TypeParts DEF CoreInv
    <3>2. CASE GetDocument(w, e)
      <4>1. AfterLookup(op[w], ingest_state[e]) = "idle"
        BY <1>2, <1>5, <2>2 DEF AfterLookup, IngestOps, PurgeOps
      <4> QED BY <3>1, <3>2, <4>1, FinishEnds DEF GetDocument
    <3>3. CASE Crash(w)
      BY <1>2, <2>2, <3>1, <3>3, EndAttemptEnds DEF Crash, IngestOps
    <3> QED BY <2>3, <3>2, <3>3
  <2> QED BY <2>2, <2>4 DEF Ending
<1> QED BY <1>4, <1>5

\* A flag stays, and failures are counted.
LEMMA StaleGrows ==
  ASSUME CoreInv, NEW w \in Worker, Step(w) \/ Crash(w)
  PROVE  /\ stale \subseteq stale' /\ outcomes' = outcomes
         /\ Step(w) => crashes' = crashes
         /\ ~Step(w) => crashes' # 0
<1>1. ASSUME NEW d \in Doc, GetDocument(w, d) \/ Compensate(w, d)
      PROVE  UNCHANGED <<stale, crashes, outcomes>>
  BY <1>1
  DEF GetDocument, Compensate, ListChunks, ClearEmbeddings, DeleteVertices,
      pgVars, envVars
<1>2. ASSUME NEW d \in Doc, Ingest(w, d)
      PROVE  UNCHANGED <<stale, crashes, outcomes>>
  BY <1>2
  DEF Ingest, LoadRaw, CheckTombstone, RecheckPurged, InsertDocument, RunOcr,
      ParseFails, PersistParsed, ChunksEmpty, WriteChunks, RecordDeadLetter,
      ReadChunks, UpsertChunks, MarkRagIndexed, pgVars, envVars
<1>3. ASSUME NEW d \in Doc, Purge(w, d)
      PROVE  stale \subseteq stale' /\ UNCHANGED <<crashes, outcomes>>
  BY <1>3
  DEF Purge, BeginPurge, DeleteParsed, DeleteArtifact, DeleteDeadLetter,
      DeleteRaw, DeleteRows, InsertTombstone, MarkPurged, ListStale, MarkStale,
      pgVars, envVars
<1>4. ASSUME NEW d \in Doc, ClearTombstone(w, d) \/ Revive(w, d)
      PROVE  UNCHANGED <<stale, crashes, outcomes>>
  BY <1>4 DEF ClearTombstone, Revive, envVars
<1>5. ASSUME GraphRag(w)
      PROVE  UNCHANGED <<stale, crashes, outcomes>>
  <2>1. ASSUME NEW d \in Doc, \/ CheckEligible(w, d) \/ AggregateDocument(w, d)
                              \/ UpsertMentions(w, d)
        PROVE  UNCHANGED <<stale, crashes, outcomes>>
    BY <2>1
    DEF CheckEligible, AggregateDocument, UpsertMentions, pgVars, envVars
  <2>2. CASE MarkGraphragIndexed(w)
    BY <2>2 DEF MarkGraphragIndexed, envVars
  <2> QED BY <1>5, <2>1, <2>2 DEF GraphRag
<1>6. ASSUME Crash(w)
      PROVE  UNCHANGED <<stale, outcomes>> /\ crashes' # 0
  BY <1>6, ConstantsAssumption DEF Crash, CoreInv, TypeOK, pgVars
<1>7. CASE Step(w)
  BY <1>1, <1>2, <1>3, <1>4, <1>5, <1>7 DEF Step
<1> QED BY <1>6, <1>7

\* Every purge that marked a document purged goes on to the flag: it finds one,
\* or sets it.
LEMMA FlaggingKept ==
  ASSUME IInv, NEW w \in Worker, Step(w) \/ Crash(w)
  PROVE  Flagging'
<1> SUFFICES ASSUME crashes' = 0, stale' = {}, NEW e \in Doc,
                    ingest_state'[e] = "purged"
             PROVE  \E v \in Worker : AboutToFlag(v, e)'
  BY DEF Flagging
<1>1. /\ CoreInv /\ Sound(w) /\ Processes /\ Step(w)
      /\ crashes = 0 /\ stale = {}
  BY StepSound, StaleGrows, TypeParts DEF IInv, CoreInv
<1>2. CASE ingest_state[e] # "purged"
  <2>1. Moves(w, e)
    BY <1>1, StepMoves
  <2>2. e \in batch[w] /\ op[w] \in PurgeOps /\ Going(w, "flag")
    BY <1>2, <2>1 DEF Moves, StateMoves
  <2> QED BY <2>2 DEF AboutToFlag, Going
<1>3. CASE ingest_state[e] = "purged"
  <2>1. PICK v \in Worker : AboutToFlag(v, e)
    BY <1>1, <1>3 DEF IInv, Flagging
  <2>2. CASE v # w
    BY <1>1, <2>1, <2>2 DEF Sound, Bystanders, AboutToFlag
  <2>3. CASE v = w
    <3>1. \E d \in Doc : ListStale(w, d) \/ MarkStale(w, d)
      BY <1>1, <2>1, <2>3
      DEF AboutToFlag, Step, GetDocument, Compensate, Ingest, Purge, GraphRag,
          At, ListChunks, ClearEmbeddings, DeleteVertices, LoadRaw,
          CheckTombstone, RecheckPurged, InsertDocument, RunOcr, ParseFails,
          PersistParsed, ParsedAt, ChunksEmpty, WriteChunks, RecordDeadLetter,
          ReadChunks, UpsertChunks, MarkRagIndexed, BeginPurge, DeleteParsed,
          DeleteArtifact, DeleteDeadLetter, DeleteRaw, DeleteRows,
          InsertTombstone, MarkPurged, ClearTombstone, Revive,
          CheckEligible, AggregateDocument, UpsertMentions, MarkGraphragIndexed
    <3>2. \E d \in Doc : ListStale(w, d)
      BY <3>1 DEF MarkStale
    <3>3. Goto(w, "mark_stale")
      BY <1>1, <3>2 DEF ListStale
    <3> QED BY <1>1, <2>1, <2>3, <3>3 DEF Goto, Processes, AboutToFlag
  <2> QED BY <2>2, <2>3
<1> QED BY <1>2, <1>3

\* Nothing is purged, and nothing runs, in an initial state.
LEMMA InitIInv == Init => IInv
<1> SUFFICES ASSUME Init PROVE IInv
  OBVIOUS
<1>1. CoreInv
  BY InitCore
<1>2. Waking
  BY DEF Init, Waking
<1>3. Flagging
  BY DEF Init, Flagging
<1> QED BY <1>1, <1>2, <1>3 DEF IInv

\* Every step of every worker preserves the inductive invariant.
LEMMA NextIInv == IInv /\ [Next]_vars => IInv'
<1> SUFFICES ASSUME IInv, [Next]_vars PROVE IInv'
  OBVIOUS
<1>1. CoreInv /\ CoreInv'
  BY NextCore DEF IInv
<1>2. Waking' /\ Flagging'
  <2>1. CASE UNCHANGED vars
    BY <2>1 DEF IInv, Waking, Flagging, AboutToFlag, vars, pgVars, procVars,
       envVars
  <2>2. ASSUME NEW w \in Worker, NEW o \in Ops, NEW B \in SUBSET Doc,
               Start(w, o, B)
        PROVE  Waking' /\ Flagging'
    <3>1. /\ UNCHANGED <<ingest_state, stale, crashes>>
          /\ contended \subseteq contended'
          /\ pc[w] = "idle"
          /\ op'[w] = "reingest" => pc'[w] = "lookup"
          /\ \A v \in Worker \ {w} : /\ pc'[v] = pc[v] /\ op'[v] = op[v]
                                     /\ batch'[v] = batch[v]
      BY <1>1, <2>2, StartWritesNothing
    <3>2. Waking'
      BY <3>1 DEF IInv, Waking
    <3>3. Flagging'
      BY <3>1 DEF IInv, Flagging, AboutToFlag
    <3> QED BY <3>2, <3>3
  <2>3. ASSUME NEW w \in Worker, Step(w) \/ Crash(w)
        PROVE  Waking' /\ Flagging'
    BY <2>3, WakingKept, FlaggingKept
  <2> QED BY <2>1, <2>2, <2>3 DEF Next
<1> QED BY <1>1, <1>2 DEF IInv

\* The inductive invariant holds in every reachable state.
THEOREM Invariance == Spec => []IInv
  BY InitIInv, NextIInv, PTL DEF Spec

\* Every variable keeps to its type: a document has one of the known states, a
\* worker is at a label of the program and never fails more often than Argo
\* lets it.
THEOREM TypeCorrect == Spec => []TypeOK
<1>1. IInv => TypeOK
  BY DEF IInv, CoreInv
<1> QED BY <1>1, Invariance, PTL

\* A buried or purged document has no chunk rows, embeddings, vertices, parsed
\* text, chunks.jsonl or dead letter left, however many pods ran, failed and
\* were retried before, as long as no conflicting operations met on it.
THEOREM PurgeComplete == Spec => []PurgeLeavesNothing
<1>1. IInv => PurgeLeavesNothing
  BY DEF IInv, CoreInv, TypeOK, Content, PurgeLeavesNothing, Sequential
<1> QED BY <1>1, Invariance, PTL

\* The graph holds no chunk the database does not hold.
THEOREM GraphCovered == Spec => []VerticesCovered
<1>1. IInv => VerticesCovered
  BY DEF IInv, CoreInv, Content, VerticesCovered, Sequential
<1> QED BY <1>1, Invariance, PTL

\* An indexed document has its chunks.jsonl and the rows of those chunks, with
\* all of their embeddings or none.
THEOREM IndexBacked == Spec => []IndexedIsBacked
<1>1. IInv => IndexedIsBacked
  BY DEF IInv, CoreInv, Content, IndexedIsBacked, Sequential
<1> QED BY <1>1, Invariance, PTL

\* A document in state dead_letter has the error.json that says why.
THEOREM DeadLettersExplained == Spec => []DeadLetterExplained
<1>1. IInv => DeadLetterExplained
  BY DEF IInv, CoreInv, Content, DeadLetterExplained, Sequential
<1> QED BY <1>1, Invariance, PTL

\* A project that lost a document to a purge that met no failure is flagged for
\* new communities and wiki pages as soon as the purge is over.
THEOREM WikiFlagged == Spec => []StaleFlagged
<1>1. IInv => StaleFlagged
  BY DEF IInv, Flagging, AboutToFlag, StaleFlagged
<1> QED BY <1>1, Invariance, PTL

\* What a sound step does to the marks of a document nobody contends for: an
\* erased document only stays erased or is opened by a restore, a reingest or a
\* second purge, and no indexed document is erased in one step.
LEMMA MarksMove ==
  ASSUME IInv, NEW w \in Worker, Step(w) \/ Crash(w), NEW e \in Doc \ contended,
         Marked(e)
  PROVE  /\ e \in batch[w] /\ rows'[e] = rows[e] /\ vertices'[e] = vertices[e]
         /\ \/ ~Erased(e) /\ ~Erased(e)'
            \/ ingest_state[e] \notin Indexed /\ ingest_state'[e] \notin Indexed
         /\ ingest_state[e] = "purged" /\ ingest_state'[e] # "purged" =>
              \/ op[w] = "restore"
              \/ op[w] \in PurgeOps /\ ingest_state'[e] = "purging"
<1>1. /\ CoreInv /\ Control /\ Sound(w) /\ Moves(w, e) /\ Content(e)
      /\ Content(e)' /\ TypeOK /\ e \in batch[w]
  <2>1. CoreInv /\ Sound(w) /\ Moves(w, e) /\ Content(e) /\ TypeOK /\ Control
    BY StepSound, StepMoves DEF IInv, CoreInv
  <2>2. e \in batch[w]
    BY <2>1 DEF Sound, Untouched, Marked
  <2> QED BY <2>1, <2>2 DEF Sound
<1> SUFFICES /\ \/ ~Erased(e) /\ ~Erased(e)'
                \/ /\ ingest_state[e] \notin Indexed
                   /\ ingest_state'[e] \notin Indexed
             /\ ingest_state[e] = "purged" /\ ingest_state'[e] # "purged" =>
                  \/ op[w] = "restore"
                  \/ op[w] \in PurgeOps /\ ingest_state'[e] = "purging"
  BY <1>1 DEF Moves
<1>3. Knowledge(w, e)
  BY <1>1 DEF CoreInv
<1>4. op[w] = "reingest" /\ pc[w] # "lookup" => ingest_state[e] # "purged"
  BY <1>1 DEF IInv, Waking
<1>5. CASE ingest_state'[e] = ingest_state[e]
  <2>1. pc[w] \in {"bury", "unbury"}
    BY <1>1, <1>5 DEF Moves, Marked
  <2>2. CASE pc[w] = "bury"
    BY <1>1, <1>3, <1>5, <2>2, OpAt
    DEF Knowledge, Purging, PurgeLabels, Indexed
  <2>3. CASE pc[w] = "unbury"
    <3>1. CASE ingest_state[e] \in Indexed
      BY <1>1, <1>5, <3>1 DEF Content, Erased, Indexed
    <3> QED BY <1>5, <3>1
  <2> QED BY <1>1, <1>5, <2>1, <2>2, <2>3
<1>6. CASE ingest_state'[e] # ingest_state[e]
  <2>0. \/ (e \in tombstones') <=> (e \in tombstones)
        \/ pc[w] \in {"bury", "unbury"}
    BY <1>1 DEF Moves
  <2>1. CASE op[w] \in IngestOps /\ pc[w] \in {"insert", "dead", "mark"}
             /\ ingest_state'[e] \in {"pending", "dead_letter", "indexed_rag"}
    <3>1. e \notin tombstones /\ ingest_state[e] # "purged"
      BY <1>3, <2>1 DEF Knowledge, Ingesting, Inserted
    <3> QED BY <2>0, <2>1, <3>1 DEF Erased
  <2>2. CASE op[w] \in PurgeOps /\ pc[w] = "begin"
             /\ ingest_state'[e] = "purging"
    <3>1. CASE ingest_state[e] \in Indexed
      BY <1>1, <2>0, <2>2, <3>1 DEF Content, Erased, Indexed
    <3> QED BY <2>2, <3>1 DEF Indexed
  <2>3. CASE op[w] \in PurgeOps /\ pc[w] = "mark_purged"
             /\ ingest_state'[e] = "purged"
    BY <1>3, <2>3 DEF Knowledge, Purging, Indexed
  <2>4. CASE op[w] \in {"restore", "reingest"} /\ pc[w] = "revive"
             /\ ingest_state'[e] = "pending"
    <3>1. CASE ingest_state[e] \in Indexed
      BY <1>1, <2>0, <2>4, <3>1 DEF Content, Erased, Indexed
    <3> QED BY <1>4, <2>4, <3>1 DEF Indexed
  <2>5. CASE op[w] = "graphrag" /\ pc[w] \in {"apply", "finalize"}
             /\ ingest_state'[e] = "indexed_graph"
    <3>1. ingest_state[e] \in Indexed
      BY <1>3, <2>5 DEF Knowledge, Graphing
    <3> QED BY <1>1, <2>0, <2>5, <3>1 DEF Content, Erased, Indexed
  <2> QED
    BY <1>1, <1>6, <2>1, <2>2, <2>3, <2>4, <2>5 DEF Moves, StateMoves
<1> QED BY <1>5, <1>6

\* Only a restore, or a purge asked for again, takes a document nobody contends
\* for out of the state "purged": no ingest, retry, reingest or GraphRAG run.
THEOREM StaysErased == Spec => ErasedUntilRestored
<1>1. IInv /\ [Next]_vars =>
        [\A d \in Doc :
           /\ ingest_state[d] = "purged" /\ ingest_state'[d] # "purged"
           /\ d \notin contended'
           => \E w \in Worker :
                /\ d \in batch[w]
                /\ \/ op[w] = "restore"
                   \/ op[w] \in PurgeOps /\ ingest_state'[d] = "purging"]_vars
  <2> SUFFICES ASSUME IInv, Next, NEW d \in Doc, d \notin contended',
                      ingest_state[d] = "purged", ingest_state'[d] # "purged"
               PROVE  \E w \in Worker :
                        /\ d \in batch[w]
                        /\ \/ op[w] = "restore"
                           \/ op[w] \in PurgeOps /\ ingest_state'[d] = "purging"
    OBVIOUS
  <2>1. CoreInv
    BY DEF IInv
  <2>2. PICK w \in Worker : Step(w) \/ Crash(w)
    BY <2>1, StartWritesNothing DEF Next
  <2>3. d \notin contended
    BY <2>1, <2>2, StepSound DEF Sound
  <2> QED BY <2>2, <2>3, MarksMove DEF Marked
<1> QED BY <1>1, Invariance, PTL DEF Spec, ErasedUntilRestored

\* What a step may do to a document nobody contends for is in the contract.
LEMMA MovesCovered ==
  ASSUME IInv, NEW w \in Worker, Step(w) \/ Crash(w), NEW e \in Doc \ contended
  PROVE  Contract!Covered(e)
<1>1. /\ CoreInv /\ Sound(w) /\ Moves(w, e) /\ Content(e) /\ Content(e)'
      /\ Stores /\ Stores'
  <2>1. CoreInv /\ Sound(w) /\ Moves(w, e) /\ Content(e) /\ Stores
    BY StepSound, StepMoves, TypeParts DEF IInv, CoreInv
  <2>2. e \in Doc \ (batch[w] \cup contended) => Untouched(e)
    BY <2>1 DEF Sound
  <2>3. e \in batch[w] => Content(e)'
    BY <2>1 DEF Sound
  <2> QED BY <2>1, <2>2, <2>3, Untouching DEF Sound
<1>2. CASE Marked(e)
  <2>1. /\ rows'[e] = rows[e] /\ vertices'[e] = vertices[e]
        /\ \/ ~Erased(e) /\ ~Erased(e)'
           \/ ingest_state[e] \notin Indexed /\ ingest_state'[e] \notin Indexed
    BY <1>2, MarksMove
  <2> QED
    BY <1>1, <2>1
    DEF Contract!Covered, Contract!Work, Contract!Index, Contract!Link,
        Contract!Reopen, Contract!Erase, Contract!Restore, Contract!Rests,
        Contract!KeepsContent, Content, Stores, Erased
<1>3. CASE ~Marked(e)
  <2>1. ingest_state[e] \in Indexed => rows'[e] = rows[e]
    <3> SUFFICES ASSUME ingest_state[e] \in Indexed, rows'[e] # rows[e]
                 PROVE  FALSE
      OBVIOUS
    <3>1. pc[w] \in {"store", "del_rows"} /\ e \in batch[w]
      BY <1>1 DEF Moves, Sound, Untouched
    <3>2. Knowledge(w, e)
      BY <1>1, <3>1 DEF CoreInv
    <3>3. /\ pc[w] = "store" => op[w] \in IngestOps
          /\ pc[w] = "del_rows" => op[w] \in PurgeOps
      BY <1>1, OpAt DEF CoreInv, IngestLabels, PurgeLabels
    <3>4. CASE pc[w] = "store"
      BY <3>2, <3>3, <3>4 DEF Knowledge, Ingesting, Inserted, Indexed
    <3>5. CASE pc[w] = "del_rows"
      BY <3>2, <3>3, <3>5 DEF Knowledge, Purging, Indexed
    <3> QED BY <3>1, <3>4, <3>5
  <2> QED
    BY <1>1, <1>3, <2>1
    DEF Contract!Covered, Contract!Work, Contract!Index, Contract!Link,
        Contract!Reopen, Contract!Erase, Contract!Restore, Contract!Rests,
        Contract!KeepsContent, Content, Stores, Erased, Marked
<1> QED BY <1>2, <1>3

\* The pipeline implements the contract: the graph never runs ahead of the
\* database, an indexed text stays, and an erased document is empty and stays so.
THEOREM ImplementsContract == Spec => KeepsContract
<1>1. Init => Contract!Init
  BY DEF Init, Contract!Init, NoChunks, Erased, Indexed
<1>2. IInv /\ [Next]_vars => [Contract!Next]_(Contract!vars)
  <2> SUFFICES ASSUME IInv, [Next]_vars PROVE [Contract!Next]_(Contract!vars)
    OBVIOUS
  <2>1. CASE UNCHANGED vars
    BY <2>1 DEF Contract!vars, vars, pgVars, envVars, Erased
  <2>2. ASSUME NEW w \in Worker, NEW o \in Ops, NEW B \in SUBSET Doc,
               Start(w, o, B)
        PROVE  Contract!Next
    <3>1. /\ UNCHANGED <<ingest_state, tombstones, rows, vertices>>
          /\ contended \subseteq contended'
      BY <2>2, StartWritesNothing DEF IInv
    <3> QED
      BY <3>1
      DEF Contract!Next, Contract!Covered, Contract!Rests,
          Contract!KeepsContent, Erased
  <2>3. ASSUME NEW w \in Worker, Step(w) \/ Crash(w)
        PROVE  Contract!Next
    <3>1. contended' = contended
      BY <2>3, StepSound DEF IInv, Sound
    <3> QED BY <2>3, <3>1, MovesCovered DEF Contract!Next
  <2> QED BY <2>1, <2>2, <2>3 DEF Next
<1> QED
  BY <1>1, <1>2, Invariance, PTL DEF Spec, KeepsContract, Contract!Spec

-----------------------------------------------------------------------------
(* While documents are only ingested and put in the graph, and no call     *)
(* failed, their embeddings are those of their chunks.jsonl.               *)

\* No other operation comes from anywhere.
LEMMA OnlyIndexingKept ==
  ASSUME Ops \subseteq {"ingest", "graphrag"}, CoreInv, OnlyIndexing,
         [Next]_vars
  PROVE  OnlyIndexing'
<1>1. CASE UNCHANGED vars
  BY <1>1 DEF OnlyIndexing, vars, pgVars, procVars
<1>2. ASSUME NEW w \in Worker, NEW o \in Ops, NEW B \in SUBSET Doc,
             Start(w, o, B)
      PROVE  OnlyIndexing'
  BY <1>2 DEF OnlyIndexing, Start, CoreInv, TypeOK, pgVars
<1>3. ASSUME NEW w \in Worker, Step(w) \/ Crash(w)
      PROVE  OnlyIndexing'
  <2>1. Sound(w) /\ TypeOK /\ Control /\ Stores'
    BY <1>3, StepSound DEF CoreInv, Sound
  <2>2. op[w] \in {"none", "ingest", "graphrag"}
    BY DEF OnlyIndexing
  <2>3. pc[w] \notin {"bury", "unbury"}
    BY <2>1, <2>2, OpAt DEF PurgeLabels, PurgeOps
  <2>4. ASSUME NEW e \in Doc
        PROVE  /\ e \notin tombstones'
               /\ ingest_state'[e] \notin {"purging", "purged"}
    <3>1. Moves(w, e) /\ e \notin tombstones
          /\ ingest_state[e] \notin {"purging", "purged"}
      BY <1>3, StepMoves DEF OnlyIndexing
    <3> QED BY <2>2, <2>3, <3>1 DEF Moves, StateMoves, PurgeOps
  <2>5. \A v \in Worker : op'[v] \in {"none", "ingest", "graphrag"}
    BY <2>1, <2>2 DEF Sound, Bystanders, Going, Ending, OnlyIndexing
  <2> QED BY <2>1, <2>4, <2>5 DEF OnlyIndexing, Stores
<1> QED BY <1>1, <1>2, <1>3 DEF Next

\* Where a step of w is taken that keeps Mirrored(e).
Indexing(w, e) ==
  /\ CoreInv /\ OnlyIndexing /\ Processes'
  /\ Bystanders(w) /\ contended' = contended /\ outcomes' = outcomes
  /\ Sequential(e) \/ ParsedAlike(e)
  /\ Mirrors(e) /\ \A v \in Worker : e \in batch[v] => Carrying(v, e)

\* A step that leaves the index of e and the state of e alone, and its worker,
\* if it is at work on e, on its side of the new embeddings.
LEMMA IndexRests ==
  ASSUME NEW w \in Worker, NEW e \in Doc, Indexing(w, e),
         artifact'[e] = artifact[e], embedded'[e] = embedded[e],
         ingest_state'[e] = ingest_state[e],
         e \in batch[w] =>
           /\ pc[w] # "mark"
           /\ pc[w] \in Reindexing => e \in batch'[w] /\ pc'[w] \in Reindexing,
         e \in batch'[w] => Carrying(w, e)'
  PROVE  Mirrored(e)'
<1>1. ASSUME NEW L, Working(e, L),
             e \in batch[w] /\ pc[w] \in L => e \in batch'[w] /\ pc'[w] \in L
      PROVE  Working(e, L)'
  BY <1>1 DEF Working, Indexing, Bystanders
<1>2. Mirrors(e)'
  BY <1>1 DEF Mirrors, Indexing, Sequential
<1>3. ASSUME NEW v \in Worker \ {w}, e \in batch'[v] PROVE Carrying(v, e)'
  BY <1>3 DEF Carrying, Indexing, Bystanders, Sequential
<1> QED BY <1>2, <1>3 DEF Mirrored

\* A step on another document.
LEMMA IndexElsewhere ==
  ASSUME NEW w \in Worker, NEW e \in Doc, Indexing(w, e), e \notin batch[w],
         e \notin batch'[w], artifact'[e] = artifact[e],
         embedded'[e] = embedded[e], ingest_state'[e] = ingest_state[e]
  PROVE  Mirrored(e)'
  BY IndexRests

\* An ingest that nobody was ever in conflict with is alone on its document.
LEMMA IngestAlone ==
  ASSUME CoreInv, NEW w \in Worker, NEW v \in Worker \ {w}, NEW e \in Doc,
         op[w] \in IngestOps, e \in batch[w], e \in batch[v], Sequential(e)
  PROVE  FALSE
  BY DEF CoreInv, Exclusion, Alike, Sequential, IngestOps, PurgeOps

\* What is not indexed has no embeddings yet.
LEMMA NotYetEmbedded ==
  ASSUME NEW w \in Worker, NEW e \in Doc, Indexing(w, e), op[w] = "ingest",
         e \in batch[w], pc[w] # "mark", Sequential(e),
         ingest_state[e] \notin Indexed
  PROVE  embedded[e] = {}
<1>1. CoreInv /\ op[w] \in IngestOps
  BY DEF Indexing, IngestOps
<1>2. ~Working(e, {"mark"})
  BY <1>1, IngestAlone DEF Working
<1> QED BY <1>2 DEF Indexing, Mirrors

\* Where only the ingest can be, and GraphRAG.
LEMMA IndexingAt ==
  ASSUME NEW w \in Worker, NEW e \in Doc, Indexing(w, e)
  PROVE  /\ Processes /\ Stores /\ TypeOK /\ Control
         /\ pc[w] \in IngestLabels \cup CompensationLabels \cup {"lookup"}
              => op[w] = "ingest" /\ op[w] \in IngestOps
         /\ pc[w] \notin PurgeLabels \cup {"unbury", "revive"}
<1>1. TypeOK /\ Control
  BY DEF Indexing, CoreInv
<1>2. op[w] \in {"none", "ingest", "graphrag"}
  BY DEF Indexing, OnlyIndexing
<1>3. pc[w] \in IngestLabels \cup CompensationLabels \cup {"lookup"}
        => op[w] \in AllOps \ {"graphrag"}
  BY <1>1, OpAt DEF IngestOps, PurgeOps, AllOps
<1> QED
  BY <1>1, <1>2, <1>3, OpAt, TypeParts DEF IngestOps, PurgeOps, AllOps

LEMMA IndexGetDocument ==
  ASSUME NEW w \in Worker, NEW e \in Doc, Indexing(w, e), NEW d \in Doc,
         GetDocument(w, d)
  PROVE  Mirrored(e)'
<1>1. /\ UNCHANGED <<artifact, embedded, ingest_state>>
      /\ pc[w] = "lookup" /\ batch[w] = {d} /\ op[w] = "ingest"
  BY IndexingAt DEF GetDocument, At, pgVars, blobVars
<1>2. IF ingest_state[d] \in Indexed THEN Goto(w, "list")
                                   ELSE Goto(w, "upsert")
  <2>1. /\ ingest_state[d] \in States
        /\ op[w] \in IngestOps /\ op[w] \in AllOps
    BY <1>1, IndexingAt DEF Stores, IngestOps, AllOps
  <2>2. AfterLookup(op[w], ingest_state[d]) =
          IF ingest_state[d] \in Indexed THEN "list" ELSE "upsert"
    BY <2>1, AfterLookupOf
  <2> QED BY <2>2 DEF GetDocument
<1>3. /\ batch'[w] = batch[w]
      /\ pc'[w] = IF ingest_state[d] \in Indexed THEN "list" ELSE "upsert"
  BY <1>2, IndexingAt DEF Goto, Processes
<1>4. CASE d # e
  BY <1>1, <1>3, <1>4, IndexElsewhere
<1>5. CASE d = e
  <2>1. Carrying(w, e)'
    BY <1>1, <1>3, <1>5, NotYetEmbedded
    DEF Carrying, Reindexing, Indexing, Sequential
  <2> QED BY <1>1, <1>3, <1>5, <2>1, IndexRests DEF Reindexing
<1> QED BY <1>4, <1>5

LEMMA IndexListChunks ==
  ASSUME NEW w \in Worker, NEW e \in Doc, Indexing(w, e), NEW d \in Doc,
         ListChunks(w, d)
  PROVE  Mirrored(e)'
<1>1. /\ UNCHANGED <<artifact, embedded, ingest_state>>
      /\ pc[w] = "list" /\ batch[w] = {d}
      /\ batch'[w] = batch[w] /\ pc'[w] = "clear"
  BY IndexingAt DEF ListChunks, At, Goto, Processes, pgVars, blobVars
<1>2. Carrying(w, e)'
  BY <1>1 DEF Carrying, Reindexing
<1> QED BY <1>1, <1>2, IndexRests DEF Reindexing

\* The embeddings go: their worker is about to store new ones.
LEMMA IndexClearEmbeddings ==
  ASSUME NEW w \in Worker, NEW e \in Doc, Indexing(w, e), NEW d \in Doc,
         ClearEmbeddings(w, d)
  PROVE  Mirrored(e)'
<1>1. /\ UNCHANGED <<artifact, ingest_state>>
      /\ embedded' = [embedded EXCEPT ![d] = {}]
      /\ pc[w] = "clear" /\ batch[w] = {d} /\ op[w] \in IngestOps
      /\ batch'[w] = batch[w] /\ pc'[w] \in {"unlink", "upsert"}
  BY IndexingAt, AfterCompensationOf
  DEF ClearEmbeddings, At, Goto, Processes, blobVars, CompensationLabels
<1>2. CASE d # e
  BY <1>1, <1>2, IndexElsewhere
<1>3. CASE d = e
  <2>1. embedded'[e] = {} /\ artifact'[e] = artifact[e]
    BY <1>1, <1>3, IndexingAt DEF Stores
  <2>2. Working(e, Reindexing)'
    BY <1>1, <1>3 DEF Working, Reindexing
  <2>3. Mirrors(e)'
    BY <1>1, <2>1, <2>2 DEF Mirrors, Indexing
  <2>4. Carrying(w, e)'
    BY <1>1, <2>1 DEF Carrying
  <2>5. ASSUME NEW v \in Worker \ {w}, e \in batch'[v] PROVE Carrying(v, e)'
    <3>1. ~Sequential(e)
      BY <1>1, <1>3, <2>5, IngestAlone DEF Indexing, Bystanders
    <3> QED
      BY <2>1, <2>5, <3>1 DEF Carrying, Indexing, Bystanders, Sequential
  <2> QED BY <2>3, <2>4, <2>5 DEF Mirrored
<1> QED BY <1>2, <1>3

\* Going on to the next label of Reindexing, with nothing written that counts.
LEMMA IndexGoesOn ==
  ASSUME NEW w \in Worker, NEW e \in Doc, Indexing(w, e), NEW d \in Doc,
         UNCHANGED <<artifact, embedded, ingest_state>>,
         batch[w] = {d}, batch'[w] = batch[w],
         pc[w] \in Reindexing \ {"read", "store"},
         pc'[w] \in Reindexing \ {"chunk", "read", "store"}
  PROVE  Mirrored(e)'
<1>1. CASE d # e
  BY <1>1, IndexElsewhere
<1>2. CASE d = e
  <2>1. Carrying(w, e)'
    BY <1>2 DEF Carrying, Reindexing, Indexing, Sequential
  <2> QED BY <1>2, <2>1, IndexRests DEF Reindexing
<1> QED BY <1>1, <1>2

LEMMA IndexDeleteVertices ==
  ASSUME NEW w \in Worker, NEW e \in Doc, Indexing(w, e), NEW d \in Doc,
         DeleteVertices(w, d)
  PROVE  Mirrored(e)'
<1>1. /\ UNCHANGED <<artifact, embedded, ingest_state>>
      /\ pc[w] = "unlink" /\ batch[w] = {d} /\ op[w] \in IngestOps
      /\ batch'[w] = batch[w] /\ pc'[w] = "upsert"
  BY IndexingAt, AfterCompensationOf
  DEF DeleteVertices, At, Goto, Processes, pgVars, blobVars,
      CompensationLabels
<1> QED BY <1>1, IndexGoesOn DEF Reindexing

LEMMA IndexLoadRaw ==
  ASSUME NEW w \in Worker, NEW e \in Doc, Indexing(w, e), NEW d \in Doc,
         LoadRaw(w, d)
  PROVE  Mirrored(e)'
<1>1. /\ UNCHANGED <<artifact, embedded, ingest_state>>
      /\ pc[w] = "load" /\ batch[w] = {d}
      /\ \/ batch'[w] = {d} /\ pc'[w] \in {"load", "gate"}
         \/ batch'[w] = {}
  BY IndexingAt, EndAttemptEnds
  DEF LoadRaw, At, Goto, Processes, pgVars, blobVars, Going, Ending
<1>2. e \in batch'[w] => Carrying(w, e)'
  BY <1>1 DEF Carrying, Reindexing
<1> QED BY <1>1, <1>2, IndexRests DEF Reindexing

LEMMA IndexCheckTombstone ==
  ASSUME NEW w \in Worker, NEW e \in Doc, Indexing(w, e), NEW d \in Doc,
         CheckTombstone(w, d)
  PROVE  Mirrored(e)'
<1>1. /\ UNCHANGED <<artifact, embedded, ingest_state>>
      /\ d \notin tombstones /\ batch[w] = {d}
      /\ \/ pc[w] = "gate" /\ Goto(w, "lookup")
         \/ pc[w] = "upsert" /\ Goto(w, "recheck")
  BY DEF CheckTombstone, At, pgVars, blobVars, Indexing, OnlyIndexing
<1>2. /\ batch'[w] = batch[w]
      /\ \/ pc[w] = "gate" /\ pc'[w] = "lookup"
         \/ pc[w] = "upsert" /\ pc'[w] = "recheck"
  BY <1>1, IndexingAt DEF Goto, Processes
<1>3. CASE pc[w] = "gate"
  <2>1. Carrying(w, e)'
    BY <1>2, <1>3 DEF Carrying, Reindexing
  <2> QED BY <1>1, <1>2, <1>3, <2>1, IndexRests DEF Reindexing
<1>4. CASE pc[w] = "upsert"
  BY <1>1, <1>2, <1>4, IndexGoesOn DEF Reindexing
<1> QED BY <1>2, <1>3, <1>4

LEMMA IndexRecheckPurged ==
  ASSUME NEW w \in Worker, NEW e \in Doc, Indexing(w, e), NEW d \in Doc,
         RecheckPurged(w, d)
  PROVE  Mirrored(e)'
<1>1. /\ UNCHANGED <<artifact, embedded, ingest_state>>
      /\ pc[w] = "recheck" /\ batch[w] = {d} /\ Goto(w, "insert")
  BY DEF RecheckPurged, At, pgVars, blobVars, Indexing, OnlyIndexing
<1>2. batch'[w] = batch[w] /\ pc'[w] = "insert"
  BY <1>1, IndexingAt DEF Goto, Processes
<1> QED BY <1>1, <1>2, IndexGoesOn DEF Reindexing

LEMMA IndexRunOcr ==
  ASSUME NEW w \in Worker, NEW e \in Doc, Indexing(w, e), NEW d \in Doc,
         RunOcr(w, d)
  PROVE  Mirrored(e)'
<1>1. /\ UNCHANGED <<artifact, embedded, ingest_state>>
      /\ pc[w] = "parse" /\ batch[w] = {d}
      /\ batch'[w] = batch[w] /\ pc'[w] = "paged"
  BY IndexingAt DEF RunOcr, At, Goto, Processes, pgVars
<1> QED BY <1>1, IndexGoesOn DEF Reindexing

LEMMA IndexPersistParsed ==
  ASSUME NEW w \in Worker, NEW e \in Doc, Indexing(w, e), NEW d \in Doc,
         PersistParsed(w, d)
  PROVE  Mirrored(e)'
<1>1. /\ UNCHANGED <<artifact, embedded, ingest_state>>
      /\ pc[w] \in {"parse", "paged"} /\ batch[w] = {d}
      /\ batch'[w] = batch[w] /\ pc'[w] = "chunk"
      /\ held'[w][d] \in outcomes[d]
  BY IndexingAt
  DEF PersistParsed, ParsedAt, At, Goto, Processes, pgVars
<1>2. CASE d # e
  BY <1>1, <1>2, IndexElsewhere
<1>3. CASE d = e
  <2>1. Carrying(w, e)'
    BY <1>1, <1>3 DEF Carrying, Reindexing, Indexing, Sequential
  <2> QED BY <1>1, <1>3, <2>1, IndexRests DEF Reindexing
<1> QED BY <1>2, <1>3

\* The state falls back to pending, with the embeddings cleared before.
LEMMA IndexInsertDocument ==
  ASSUME NEW w \in Worker, NEW e \in Doc, Indexing(w, e), NEW d \in Doc,
         InsertDocument(w, d)
  PROVE  Mirrored(e)'
<1>1. /\ UNCHANGED <<artifact, embedded>>
      /\ ingest_state' = [ingest_state EXCEPT ![d] = "pending"]
      /\ pc[w] = "insert" /\ batch[w] = {d}
      /\ batch'[w] = batch[w] /\ pc'[w] = "parse"
  BY IndexingAt DEF InsertDocument, At, Goto, Processes, blobVars
<1>2. CASE d # e
  BY <1>1, <1>2, IndexElsewhere
<1>3. CASE d = e
  <2>1. Working(e, Reindexing)'
    BY <1>1, <1>3 DEF Working, Reindexing
  <2>2. Sequential(e) => embedded[e] = {}
    BY <1>1, <1>3 DEF Indexing, Carrying, Reindexing
  <2>3. Mirrors(e)'
    BY <1>1, <2>1, <2>2 DEF Mirrors, Indexing, Sequential
  <2>4. Carrying(w, e)'
    BY <1>1, <2>2 DEF Carrying, Indexing, Sequential
  <2>5. ASSUME NEW v \in Worker \ {w}, e \in batch'[v] PROVE Carrying(v, e)'
    BY <1>1, <2>5 DEF Carrying, Indexing, Bystanders, Sequential
  <2> QED BY <2>3, <2>4, <2>5 DEF Mirrored
<1> QED BY <1>2, <1>3

\* Parsing failed: a document that is always parsed alike has no text at all,
\* any other was set to pending by this very ingest.
LEMMA IndexFails ==
  ASSUME NEW w \in Worker, NEW e \in Doc, Indexing(w, e), NEW d \in Doc,
         UNCHANGED <<artifact, embedded, ingest_state>>,
         op[w] \in IngestOps, batch[w] = {d}, batch'[w] = batch[w],
         pc[w] \in {"parse", "paged", "chunk"}, pc'[w] = "dead",
         {} \in outcomes[d]
  PROVE  Mirrored(e)'
<1>1. CASE d # e
  BY <1>1, IndexElsewhere
<1>2. CASE d = e
  <2>1. artifact[e] \in outcomes[e] \cup {{}} /\ embedded[e] \in {{}, artifact[e]}
    BY DEF Indexing, Mirrors
  <2>2. CASE Sequential(e)
    <3>1. ingest_state[e] = "pending" /\ embedded[e] = {}
      BY <1>2, <2>2
      DEF Indexing, CoreInv, Knowledge, Ingesting, Inserted, Sequential,
          Carrying, Reindexing
    <3>2. Mirrors(e)'
      BY <1>2, <2>1, <3>1 DEF Mirrors, Indexing, Indexed
    <3>3. Carrying(w, e)'
      BY <3>1 DEF Carrying
    <3>4. ASSUME NEW v \in Worker \ {w}, e \in batch'[v] PROVE Carrying(v, e)'
      BY <3>4 DEF Carrying, Indexing, Bystanders, Sequential
    <3> QED BY <3>2, <3>3, <3>4 DEF Mirrored
  <2>3. CASE ~Sequential(e)
    <3>1. artifact[e] = {} /\ embedded[e] = {}
      BY <1>2, <2>1, <2>3 DEF Indexing, ParsedAlike
    <3>2. Mirrors(e)'
      BY <2>1, <3>1 DEF Mirrors, Indexing
    <3>3. Carrying(w, e)'
      BY <3>1 DEF Carrying
    <3>4. ASSUME NEW v \in Worker \ {w}, e \in batch'[v] PROVE Carrying(v, e)'
      BY <3>4 DEF Carrying, Indexing, Bystanders, Sequential
    <3> QED BY <3>2, <3>3, <3>4 DEF Mirrored
  <2> QED BY <2>2, <2>3
<1> QED BY <1>1, <1>2

LEMMA IndexParseFails ==
  ASSUME NEW w \in Worker, NEW e \in Doc, Indexing(w, e), NEW d \in Doc,
         ParseFails(w, d)
  PROVE  Mirrored(e)'
<1>1. /\ UNCHANGED <<artifact, embedded, ingest_state>>
      /\ pc[w] \in {"parse", "paged"} /\ batch[w] = {d}
      /\ op[w] \in IngestOps
      /\ batch'[w] = batch[w] /\ pc'[w] = "dead" /\ {} \in outcomes[d]
  BY IndexingAt
  DEF ParseFails, At, Goto, Processes, pgVars, IngestLabels
<1> QED BY <1>1, IndexFails

LEMMA IndexChunksEmpty ==
  ASSUME NEW w \in Worker, NEW e \in Doc, Indexing(w, e), NEW d \in Doc,
         ChunksEmpty(w, d)
  PROVE  Mirrored(e)'
<1>1. /\ UNCHANGED <<artifact, embedded, ingest_state>>
      /\ pc[w] = "chunk" /\ held[w][d] = {} /\ batch[w] = {d}
      /\ op[w] \in IngestOps
      /\ batch'[w] = batch[w] /\ pc'[w] = "dead"
  BY IndexingAt
  DEF ChunksEmpty, At, Goto, Processes, pgVars, IngestLabels
<1>2. CASE d # e
  BY <1>1, <1>2, IndexElsewhere
<1>3. CASE d = e
  <2>1. {} \in outcomes[d]
    BY <1>1, <1>3 DEF Indexing, Carrying
  <2> QED BY <1>1, <2>1, IndexFails
<1> QED BY <1>2, <1>3

\* chunks.jsonl is written while there is no embedding, or written again as it
\* was.
LEMMA IndexWriteChunks ==
  ASSUME NEW w \in Worker, NEW e \in Doc, Indexing(w, e), NEW d \in Doc,
         WriteChunks(w, d)
  PROVE  Mirrored(e)'
<1>1. op[w] = "ingest" /\ op[w] \in IngestOps
  BY IndexingAt DEF WriteChunks, At, IngestLabels
<1>2. /\ UNCHANGED <<embedded, ingest_state, held>>
      /\ artifact' = [artifact EXCEPT ![d] = held[w][d]]
      /\ pc[w] = "chunk" /\ held[w][d] # {} /\ batch[w] = {d}
      /\ batch'[w] = batch[w] /\ pc'[w] = "read"
  BY <1>1, IndexingAt DEF WriteChunks, At, Goto, Processes, pgVars
<1>3. CASE d # e
  BY <1>2, <1>3, IndexElsewhere
<1>4. CASE d = e
  <2>1. /\ artifact'[e] = held[w][e] /\ artifact'[e] # {}
        /\ artifact'[e] \in outcomes[e]
    BY <1>2, <1>4, IndexingAt DEF Stores, Indexing, Carrying
  <2>2. Sequential(e) => embedded[e] = {}
    BY <1>2, <1>4 DEF Indexing, Carrying, Reindexing
  <2>3. ~Sequential(e) => artifact[e] \in {{}, artifact'[e]}
    BY <2>1 DEF Indexing, ParsedAlike, Mirrors
  <2>4. Working(e, Reindexing)'
    BY <1>2, <1>4 DEF Working, Reindexing
  <2>5. Mirrors(e)'
    BY <1>2, <2>1, <2>2, <2>3, <2>4 DEF Mirrors, Indexing, Sequential
  <2>6. Carrying(w, e)'
    BY <1>2, <2>1, <2>2 DEF Carrying, Indexing, Sequential
  <2>7. ASSUME NEW v \in Worker \ {w}, e \in batch'[v] PROVE Carrying(v, e)'
    <3>1. ~Sequential(e)
      BY <1>1, <1>2, <1>4, <2>7, IngestAlone DEF Indexing, Bystanders
    <3> QED
      BY <1>2, <2>1, <2>3, <2>7, <3>1
      DEF Carrying, Indexing, Bystanders, Sequential
  <2> QED BY <2>5, <2>6, <2>7 DEF Mirrored
<1> QED BY <1>3, <1>4

\* A dead letter: there is nothing embedded, or nobody could ever parse it.
LEMMA IndexRecordDeadLetter ==
  ASSUME NEW w \in Worker, NEW e \in Doc, Indexing(w, e), NEW d \in Doc,
         RecordDeadLetter(w, d)
  PROVE  Mirrored(e)'
<1>1. /\ UNCHANGED <<artifact, embedded>>
      /\ pc[w] = "dead" /\ batch[w] = {d} /\ op[w] \in IngestOps
      /\ \/ batch'[w] = {d} /\ pc'[w] = "load"
         \/ batch'[w] = {}
      /\ \A c \in Doc \ {d} : ingest_state'[c] = ingest_state[c]
      /\ ingest_state'[d] \in {"none", "dead_letter"}
  BY IndexingAt, EndAttemptEnds
  DEF RecordDeadLetter, SetState, At, Going, Ending, blobVars, IngestLabels,
      Stores
<1>2. CASE d # e
  BY <1>1, <1>2, IndexElsewhere
<1>3. CASE d = e
  <2>1. Sequential(e) => embedded[e] = {}
    BY <1>1, <1>3 DEF Indexing, Carrying
  <2>2. Mirrors(e)'
    <3>1. Working(e, Reindexing) => Working(e, Reindexing)'
      BY <1>1 DEF Working, Reindexing, Indexing, Bystanders
    <3> QED
      BY <1>1, <1>3, <2>1, <3>1 DEF Mirrors, Indexing, Sequential, Indexed
  <2>3. e \in batch'[w] => Carrying(w, e)'
    BY <1>1 DEF Carrying, Reindexing
  <2>4. ASSUME NEW v \in Worker \ {w}, e \in batch'[v] PROVE Carrying(v, e)'
    BY <1>1, <2>4 DEF Carrying, Indexing, Bystanders, Sequential
  <2> QED BY <2>2, <2>3, <2>4 DEF Mirrored
<1> QED BY <1>2, <1>3

LEMMA IndexReadChunks ==
  ASSUME NEW w \in Worker, NEW e \in Doc, Indexing(w, e), NEW d \in Doc,
         ReadChunks(w, d)
  PROVE  Mirrored(e)'
<1>1. /\ UNCHANGED <<artifact, embedded, ingest_state>>
      /\ pc[w] = "read" /\ batch[w] = {d}
      /\ batch'[w] = {d} \/ batch'[w] = {}
  BY IndexingAt, EndAttemptEnds
  DEF ReadChunks, At, Goto, Processes, pgVars, blobVars, Going, Ending
<1>2. CASE d # e
  BY <1>1, <1>2, IndexElsewhere
<1>3. CASE d = e
  <2>1. artifact[d] # {}
    BY <1>1, <1>3 DEF Indexing, Carrying
  <2>2. /\ batch'[w] = batch[w] /\ pc'[w] = "store"
        /\ held'[w][d] = artifact[d]
    BY <1>1, <2>1, IndexingAt DEF ReadChunks, Goto, Processes, Stores
  <2>3. Carrying(w, e)'
    BY <1>1, <1>3, <2>1, <2>2
    DEF Carrying, Reindexing, Indexing, Sequential
  <2> QED BY <1>1, <1>3, <2>2, <2>3, IndexRests DEF Reindexing
<1> QED BY <1>2, <1>3

\* The new embeddings are those of chunks.jsonl.
LEMMA IndexUpsertChunks ==
  ASSUME NEW w \in Worker, NEW e \in Doc, Indexing(w, e), NEW d \in Doc,
         UpsertChunks(w, d)
  PROVE  Mirrored(e)'
<1>1. /\ UNCHANGED <<artifact, ingest_state>>
      /\ embedded' = [embedded EXCEPT ![d] = @ \cup held[w][d]]
      /\ pc[w] = "store" /\ batch[w] = {d} /\ op[w] \in IngestOps
      /\ batch'[w] = batch[w] /\ pc'[w] = "mark"
  BY IndexingAt
  DEF UpsertChunks, At, Goto, Processes, blobVars, IngestLabels
<1>2. CASE d # e
  BY <1>1, <1>2, IndexElsewhere
<1>3. CASE d = e
  <2>1. embedded'[e] = artifact[e]
    <3>1. held[w][e] = artifact[e] /\ embedded[e] \in {{}, artifact[e]}
      BY <1>1, <1>3 DEF Indexing, Carrying, Mirrors
    <3> QED BY <1>1, <1>3, <3>1, IndexingAt DEF Stores
  <2>2. Working(e, {"mark"})'
    BY <1>1, <1>3 DEF Working
  <2>3. Mirrors(e)'
    BY <1>1, <2>1, <2>2 DEF Mirrors, Indexing, Sequential
  <2>4. Carrying(w, e)'
    BY <1>1, <2>1 DEF Carrying, Reindexing
  <2>5. ASSUME NEW v \in Worker \ {w}, e \in batch'[v] PROVE Carrying(v, e)'
    <3>1. ~Sequential(e)
      BY <1>1, <1>3, <2>5, IngestAlone DEF Indexing, Bystanders
    <3> QED
      BY <1>1, <2>5, <3>1 DEF Carrying, Indexing, Bystanders, Sequential
  <2> QED BY <2>3, <2>4, <2>5 DEF Mirrored
<1> QED BY <1>2, <1>3

\* Indexed, with the embeddings in place or another ingest about to store them.
LEMMA IndexMarkRagIndexed ==
  ASSUME NEW w \in Worker, NEW e \in Doc, Indexing(w, e), NEW d \in Doc,
         MarkRagIndexed(w, d)
  PROVE  Mirrored(e)'
<1>1. /\ UNCHANGED <<artifact, embedded>>
      /\ pc[w] = "mark" /\ batch[w] = {d} /\ op[w] \in IngestOps
      /\ batch'[w] = {}
      /\ ingest_state' = [ingest_state EXCEPT ![d] =
                            IF @ = "none" THEN @ ELSE "indexed_rag"]
  BY IndexingAt, FinishEnds
  DEF MarkRagIndexed, SetState, At, Ending, blobVars, IngestLabels
<1>2. CASE d # e
  BY <1>1, <1>2, IndexElsewhere
<1>3. CASE d = e
  <2>1. \A v \in Worker \ {w} : pc'[v] = pc[v] /\ batch'[v] = batch[v]
                                /\ held'[v] = held[v]
    BY DEF Indexing, Bystanders
  <2>2. Working(e, Reindexing) => Working(e, Reindexing)'
    BY <1>1, <2>1 DEF Working, Reindexing
  <2>3. Mirrors(e)'
    <3>1. CASE Sequential(e)
      <4>1. embedded[e] = artifact[e]
        BY <1>1, <1>3, <3>1 DEF Indexing, Carrying
      <4>2. ingest_state[e] = "pending"
        BY <1>1, <1>3, <3>1
        DEF Indexing, CoreInv, Knowledge, Ingesting, Inserted, Sequential
      <4>3. ingest_state'[e] \in Indexed
        BY <1>1, <1>3, <4>2, IndexingAt DEF Stores, Indexed
      <4> QED BY <1>1, <4>1, <4>3 DEF Mirrors, Indexing
    <3>2. CASE ~Sequential(e)
      <4>1. embedded[e] = artifact[e] \/ Working(e, Reindexing)
        BY <3>2 DEF Indexing, Mirrors, ParsedAlike
      <4> QED BY <1>1, <2>2, <3>2, <4>1 DEF Mirrors, Indexing, Sequential
    <3> QED BY <3>1, <3>2
  <2>4. ASSUME NEW v \in Worker, e \in batch'[v] PROVE Carrying(v, e)'
    BY <1>1, <2>1, <2>4 DEF Carrying, Indexing, Sequential
  <2> QED BY <2>3, <2>4 DEF Mirrored
<1> QED BY <1>2, <1>3

LEMMA IndexCheckEligible ==
  ASSUME NEW w \in Worker, NEW e \in Doc, Indexing(w, e), NEW d \in Doc,
         CheckEligible(w, d)
  PROVE  Mirrored(e)'
<1>1. /\ UNCHANGED <<artifact, embedded, ingest_state>>
      /\ pc[w] = "aggregate"
      /\ \/ batch'[w] = batch[w] /\ pc'[w] = "merge"
         \/ batch'[w] = {}
  BY IndexingAt, FinishEnds
  DEF CheckEligible, Goto, Processes, pgVars, blobVars, Ending
<1>2. e \in batch'[w] => Carrying(w, e)'
  BY <1>1 DEF Carrying, Reindexing
<1> QED BY <1>1, <1>2, IndexRests DEF Reindexing

LEMMA IndexAggregateDocument ==
  ASSUME NEW w \in Worker, NEW e \in Doc, Indexing(w, e), NEW d \in Doc,
         AggregateDocument(w, d)
  PROVE  Mirrored(e)'
<1>1. /\ UNCHANGED <<artifact, embedded, ingest_state>>
      /\ pc[w] = "merge"
      /\ \/ batch'[w] = batch[w] /\ pc'[w] \in {"aggregate", "mention"}
         \/ batch'[w] = {}
  BY IndexingAt, FinishEnds
  DEF AggregateDocument, Goto, Processes, pgVars, blobVars, Ending
<1>2. e \in batch'[w] => Carrying(w, e)'
  BY <1>1 DEF Carrying, Reindexing
<1> QED BY <1>1, <1>2, IndexRests DEF Reindexing

LEMMA IndexUpsertMentions ==
  ASSUME NEW w \in Worker, NEW e \in Doc, Indexing(w, e), NEW d \in Doc,
         UpsertMentions(w, d)
  PROVE  Mirrored(e)'
<1>1. /\ UNCHANGED <<artifact, embedded, ingest_state>>
      /\ pc[w] = "mention" /\ batch'[w] = batch[w]
      /\ pc'[w] \in {"mention", "apply"}
  BY IndexingAt
  DEF UpsertMentions, Goto, Processes, pgVars, blobVars
<1>2. Carrying(w, e)'
  BY <1>1 DEF Carrying, Reindexing
<1> QED BY <1>1, <1>2, IndexRests DEF Reindexing

\* A GraphRAG run marks what it found indexed, though an ingest may be at it
\* again: that ingest has the embeddings to store.
LEMMA IndexMarkGraphragIndexed ==
  ASSUME NEW w \in Worker, NEW e \in Doc, Indexing(w, e),
         MarkGraphragIndexed(w)
  PROVE  Mirrored(e)'
<1>1. /\ UNCHANGED <<artifact, embedded>>
      /\ pc[w] \in {"apply", "finalize"}
      /\ \/ batch'[w] = batch[w] /\ pc'[w] = "finalize"
         \/ batch'[w] = {}
      /\ \/ ingest_state'[e] = ingest_state[e]
         \/ e \in batch[w] /\ ingest_state'[e] \in Indexed
  BY IndexingAt, FinishEnds
  DEF MarkGraphragIndexed, Goto, Processes, blobVars, Ending, Indexed
<1>2. e \in batch'[w] => Carrying(w, e)'
  BY <1>1 DEF Carrying, Reindexing
<1>3. CASE ingest_state'[e] = ingest_state[e]
  BY <1>1, <1>2, <1>3, IndexRests DEF Reindexing
<1>4. CASE e \in batch[w] /\ ingest_state'[e] \in Indexed
  <2>1. \A L \in {Reindexing, {"mark"}} : Working(e, L) => Working(e, L)'
    BY <1>1 DEF Working, Reindexing, Indexing, Bystanders
  <2>2. embedded[e] = artifact[e] \/ Working(e, Reindexing)
    <3>1. CASE Sequential(e)
      <4>1. op[w] = "graphrag"
        BY <1>1, IndexingAt, OpAt DEF GraphLabels
      <4>2. ingest_state[e] \in Indexed
        BY <1>1, <1>4, <3>1, <4>1
        DEF Indexing, CoreInv, Knowledge, Graphing, Sequential
      <4> QED BY <4>2 DEF Indexing, Mirrors
    <3>2. CASE ~Sequential(e)
      BY <3>2 DEF Indexing, Mirrors, ParsedAlike
    <3> QED BY <3>1, <3>2
  <2>3. Mirrors(e)'
    BY <1>1, <1>4, <2>1, <2>2 DEF Mirrors, Indexing
  <2>4. ASSUME NEW v \in Worker \ {w}, e \in batch'[v] PROVE Carrying(v, e)'
    BY <1>1, <2>4 DEF Carrying, Indexing, Bystanders, Sequential
  <2> QED BY <1>2, <2>3, <2>4 DEF Mirrored
<1> QED BY <1>1, <1>3, <1>4

\* Every step of an ingest or a GraphRAG run keeps the index and its mirror.
LEMMA MirrorKept ==
  ASSUME Ops \subseteq {"ingest", "graphrag"}, CoreInv, MirrorInv,
         [Next]_vars
  PROVE  MirrorInv'
<1>1. OnlyIndexing'
  BY OnlyIndexingKept DEF MirrorInv
<1> SUFFICES ASSUME crashes' = 0, NEW e \in Doc PROVE Mirrored(e)'
  BY <1>1 DEF MirrorInv
<1>2. CASE UNCHANGED vars
  <2>1. Mirrored(e)
    BY <1>2 DEF MirrorInv, vars, envVars
  <2> QED
    BY <1>2, <2>1
    DEF Mirrored, Mirrors, Carrying, Working, Sequential, ParsedAlike, vars,
        pgVars, blobVars, procVars, envVars
<1>3. ASSUME NEW w \in Worker, NEW o \in Ops, NEW B \in SUBSET Doc,
             Start(w, o, B)
      PROVE  Mirrored(e)'
  <2>1. /\ UNCHANGED <<artifact, embedded, ingest_state, outcomes, crashes, held>>
        /\ contended \subseteq contended' /\ pc[w] = "idle" /\ batch[w] = {}
        /\ pc'[w] \in {"load", "lookup", "aggregate"}
        /\ \A v \in Worker \ {w} : pc'[v] = pc[v] /\ batch'[v] = batch[v]
    <3>1. batch[w] = {}
      BY <1>3 DEF Start, CoreInv, Control, TypeOK, LabelsOf, AllOps, IngestOps,
         PurgeOps, IngestLabels, PurgeLabels, CompensationLabels, GraphLabels
    <3> QED
      BY <1>3, <3>1, StartWritesNothing DEF Start, pgVars, blobVars
  <2>2. Mirrored(e)
    BY <2>1 DEF MirrorInv
  <2>3. \A L \in {Reindexing, {"mark"}} : Working(e, L) => Working(e, L)'
    BY <2>1 DEF Working
  <2>4. \A v \in Worker : (e \in batch[v] => Carrying(v, e))
                          => (e \in batch'[v] => Carrying(v, e)')
    BY <2>1 DEF Carrying, Sequential, Reindexing
  <2>5. Mirrors(e) => Mirrors(e)'
    BY <2>1, <2>3 DEF Mirrors, Sequential
  <2> QED
    BY <2>1, <2>2, <2>4, <2>5 DEF Mirrored, Sequential, ParsedAlike
<1>4. ASSUME NEW w \in Worker, Step(w) \/ Crash(w)
      PROVE  Mirrored(e)'
  <2>1. Step(w) /\ crashes = 0
    BY <1>4, StaleGrows
  <2>2. Sound(w) /\ outcomes' = outcomes
    BY <1>4, StepSound, StaleGrows
  <2>3. CASE ~(Sequential(e) \/ ParsedAlike(e))
    BY <2>2, <2>3 DEF Mirrored, Sequential, ParsedAlike, Sound
  <2>4. CASE Sequential(e) \/ ParsedAlike(e)
    <3>1. Indexing(w, e)
      BY <2>1, <2>2, <2>4 DEF Indexing, MirrorInv, Mirrored, Sound
    <3>2. pc[w] \notin PurgeLabels \cup {"unbury", "revive"}
      BY <3>1, IndexingAt
    <3>3. ASSUME NEW d \in Doc, GetDocument(w, d) \/ Compensate(w, d)
          PROVE  Mirrored(e)'
      BY <3>1, <3>3, IndexGetDocument, IndexListChunks, IndexClearEmbeddings,
         IndexDeleteVertices
      DEF Compensate
    <3>4. ASSUME NEW d \in Doc, Ingest(w, d)
          PROVE  Mirrored(e)'
      BY <3>1, <3>4, IndexLoadRaw, IndexCheckTombstone, IndexRecheckPurged,
         IndexInsertDocument, IndexRunOcr, IndexParseFails,
         IndexPersistParsed, IndexChunksEmpty, IndexWriteChunks,
         IndexRecordDeadLetter, IndexReadChunks, IndexUpsertChunks,
         IndexMarkRagIndexed
      DEF Ingest
    <3>5. ASSUME NEW d \in Doc,
                 Purge(w, d) \/ ClearTombstone(w, d) \/ Revive(w, d)
          PROVE  FALSE
      BY <3>2, <3>5
      DEF Purge, BeginPurge, DeleteParsed, DeleteArtifact, DeleteDeadLetter,
          DeleteRaw, DeleteRows, InsertTombstone, MarkPurged, ListStale,
          MarkStale, ClearTombstone, Revive, At, PurgeLabels
    <3>6. CASE GraphRag(w)
      BY <3>1, <3>6, IndexCheckEligible, IndexAggregateDocument,
         IndexUpsertMentions, IndexMarkGraphragIndexed
      DEF GraphRag
    <3> QED BY <2>1, <3>3, <3>4, <3>5, <3>6 DEF Step
  <2> QED BY <2>3, <2>4
<1> QED BY <1>2, <1>3, <1>4 DEF Next

LEMMA MirrorStart ==
  ASSUME Ops \subseteq {"ingest", "graphrag"}, Init
  PROVE  MirrorInv
<1>1. OnlyIndexing
  BY DEF Init, OnlyIndexing
<1>2. ASSUME NEW d \in Doc PROVE Mirrored(d)
  BY DEF Init, Mirrored, Mirrors, NoChunks
<1> QED BY <1>1, <1>2 DEF MirrorInv

\* Where documents are only ingested and put in the graph, the mirror holds:
\* wherever an attempt has come to, what it will write next and what it has
\* written already are the rows of the one chunks.jsonl there is (MirrorInv).
THEOREM MirrorInvariance ==
  ASSUME Ops \subseteq {"ingest", "graphrag"}
  PROVE  Spec => []MirrorInv
<1>1. Init => MirrorInv
  BY MirrorStart
<1>2. IInv /\ MirrorInv /\ [Next]_vars => MirrorInv'
  BY MirrorKept DEF IInv
<1> QED BY <1>1, <1>2, Invariance, PTL DEF Spec

\* The vectors of an indexed document are those of its chunks.jsonl, nothing
\* less and nothing left over, once nobody is at it and no call failed, as long
\* as documents are only ingested and put in the graph (IndexMirrorsArtifact).
THEOREM IndexMirrors ==
  ASSUME Ops \subseteq {"ingest", "graphrag"}
  PROVE  Spec => []IndexMirrorsArtifact
<1>1. MirrorInv => IndexMirrorsArtifact
  <2> SUFFICES ASSUME MirrorInv, NEW d \in Doc, crashes = 0, ~InFlight(d),
                      ingest_state[d] \in Indexed,
                      Sequential(d) \/ ParsedAlike(d)
               PROVE  embedded[d] = artifact[d]
    BY DEF IndexMirrorsArtifact
  <2>1. Mirrors(d) /\ ~Working(d, Reindexing)
    BY DEF MirrorInv, Mirrored, InFlight, Working
  <2> QED BY <2>1 DEF Mirrors
<1> QED BY <1>1, MirrorInvariance, PTL
=============================================================================
