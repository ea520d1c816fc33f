----------------------- MODULE ProjectLifecycleProofs -----------------------
(***************************************************************************)
(* The theorems about ProjectLifecycle, for any number of documents and    *)
(* requests and any mix of operations.                                     *)
(*                                                                         *)
(* A step moves one request, or touches one document.  Of the documents it *)
(* does not touch it only takes something away (Fades), so what a purge or *)
(* a deletion has done about them stays done; and the requests it does not *)
(* move keep what they have.  Settled says so of a step, and is shown for  *)
(* every action in turn; Ordered does the same for the control.            *)
(***************************************************************************)
EXTENDS ProjectInvariant, TLAPS

\* The labels, by name.
LEMMA LabelSets ==
  /\ Labels = {"idle", "release", "over", "check_run", "mark", "submit",
               "project", "list_ids", "again", "list", "purge", "finish",
               "wiki", "raw", "clear", "drop", "settle", "prefixes", "data",
               "succeeded", "failed"}
  /\ Requesting = {"check_run", "mark", "submit"}
  /\ Podding = {"project", "list_ids", "again", "list", "purge", "finish",
                "wiki", "raw", "clear", "drop", "settle", "prefixes", "data"}
  /\ Emptying = {"wiki", "raw", "clear", "drop", "settle", "prefixes", "data"}
  BY DEF Labels, Requesting, Podding, Ended, Emptying, Unwikied, Unrawed,
     Uncached, Unspaced, Unprefixed

\* Every label an operation goes to after its documents is one.
LEMMA AfterDocumentsOf ==
  \A k : /\ k \in Lifecycle => AfterDocuments(k) = "wiki"
         /\ k \notin Lifecycle => AfterDocuments(k) = "over"
  BY DEF AfterDocuments

\* A step that moves request r to label l and leaves what it holds alone.
LEMMA GotoTypes ==
  ASSUME TypeOK, NEW r \in Run, NEW l \in Labels \ {"finish"},
         pc[r] # "finish", Goto(r, l)
  PROVE  /\ pc' \in [Run -> Labels]
         /\ kind' \in [Run -> AllKinds \cup {"none"}]
         /\ doc' \in [Run -> SUBSET Doc] /\ doc_ids' \in [Run -> SUBSET Doc]
         /\ \A q \in Run : IF pc'[q] = "finish"
                           THEN \E d \in Doc : doc'[q] = {d}
                           ELSE doc'[q] = {}
<1>1. /\ pc' = [pc EXCEPT ![r] = l] /\ kind' = kind /\ doc' = doc
      /\ doc_ids' = doc_ids
  BY DEF Goto
<1>2. pc'[r] = l /\ \A q \in Run \ {r} : pc'[q] = pc[q]
  BY <1>1 DEF TypeOK
<1> QED BY <1>1, <1>2 DEF TypeOK

\* A subset of the stores is emptied of documents D.
LEMMA WithoutTypes ==
  ASSUME TypeOK, NEW S, NEW D
  PROVE  /\ Without(S, D) \in [Store -> SUBSET Doc]
         /\ \A s \in Store : Without(S, D)[s] \subseteq left[s]
         /\ \A s \in S \cap Store : Without(S, D)[s] \cap D = {}
  BY DEF Without, TypeOK

\* The requests and the reconciler.
LEMMA RequestTypes ==
  ASSUME TypeOK, NEW r \in Run,
         \/ \E k \in AllKinds : Request(r, k)
         \/ CheckRun(r) \/ MarkStarted(r) \/ Submit(r) \/ ClearOnFailure(r)
         \/ Finalize(r)
  PROVE  TypeOK'
<1>1. ASSUME NEW k \in AllKinds, Request(r, k)
      PROVE  TypeOK'
  <2>1. PICK l \in {"over", "check_run"} : pc' = [pc EXCEPT ![r] = l]
    BY <1>1 DEF Request
  <2>2. /\ pc' \in [Run -> Labels] /\ pc[r] = "idle" /\ pc'[r] # "finish"
        /\ \A q \in Run \ {r} : pc'[q] = pc[q]
    BY <1>1, <2>1, LabelSets DEF Request, TypeOK
  <2>3. overlapped' \in BOOLEAN
    BY <1>1 DEF Request
  <2> QED
    BY <1>1, <2>2, <2>3 DEF Request, TypeOK, projectVars, docVars, lateVars
<1>2. ASSUME \/ CheckRun(r) \/ MarkStarted(r) \/ Submit(r)
             \/ ClearOnFailure(r) \/ Finalize(r)
      PROVE  TypeOK'
  <2>1. PICK l \in Labels \ {"finish"} : Goto(r, l)
    BY <1>2, LabelSets DEF CheckRun, MarkStarted, Submit, ClearOnFailure,
       Finalize
  <2>2. pc[r] # "finish"
    BY <1>2 DEF CheckRun, MarkStarted, Submit, ClearOnFailure, Finalize, Ended
  <2>3. status' \in [Run -> {"none", "submitted", "Succeeded", "Failed"}]
    BY <1>2 DEF CheckRun, MarkStarted, Submit, ClearOnFailure, Finalize,
       TypeOK, projectVars
  <2>4. purge_state' \in {"none", "purging", "deleting", "purged"}
    BY <1>2 DEF CheckRun, MarkStarted, Submit, ClearOnFailure, Finalize,
       TypeOK, projectVars, SetPurgeState
  <2>5. UNCHANGED <<present, docVars, todo, lateVars, envVars>>
    BY <1>2 DEF CheckRun, MarkStarted, Submit, ClearOnFailure, Finalize,
       projectVars
  <2> QED
    BY <2>1, <2>2, <2>3, <2>4, <2>5, GotoTypes DEF TypeOK, docVars, lateVars,
       envVars
<1> QED BY <1>1, <1>2

\* The calls of a workflow that leave the documents alone.
LEMMA ListingTypes ==
  ASSUME TypeOK, NEW r \in Run, GetProject(r) \/ ListIds(r) \/ ListDocuments(r)
  PROVE  TypeOK'
<1>1. CASE GetProject(r)
  <2>1. PICK l \in Labels \ {"finish"} : Goto(r, l)
    BY <1>1, LabelSets DEF GetProject
  <2> QED
    BY <1>1, <2>1, GotoTypes DEF GetProject, TypeOK, projectVars, docVars,
       lateVars, envVars
<1>2. CASE ListIds(r)
  <2>1. /\ pc' = [pc EXCEPT ![r] = "again"] /\ pc[r] = "list_ids"
        /\ doc' = doc
    BY <1>2 DEF ListIds
  <2>2. /\ pc' \in [Run -> Labels] /\ pc'[r] # "finish"
        /\ \A q \in Run \ {r} : pc'[q] = pc[q]
    BY <2>1, LabelSets DEF TypeOK
  <2>3. PICK D \in SUBSET Doc : doc_ids' = [doc_ids EXCEPT ![r] = D]
    BY <1>2 DEF ListIds
  <2> QED
    BY <1>2, <2>1, <2>2, <2>3 DEF ListIds, TypeOK, projectVars, docVars, envVars
<1>3. CASE ListDocuments(r)
  <2>1. PICK l \in Labels \ {"finish"} : Goto(r, l)
    BY <1>3, LabelSets, AfterDocumentsOf DEF ListDocuments
  <2>2. PICK D \in SUBSET Doc : todo' = [todo EXCEPT ![r] = D]
    BY <1>3 DEF ListDocuments
  <2>3. late' \in [Run -> SUBSET Doc]
    BY <1>3 DEF ListDocuments, TypeOK
  <2> QED
    BY <1>3, <2>1, <2>2, <2>3, GotoTypes DEF ListDocuments, TypeOK,
       projectVars, docVars, envVars
<1> QED BY <1>1, <1>2, <1>3

\* The two steps of purge_document.
LEMMA DocumentTypes ==
  ASSUME TypeOK, NEW r \in Run,
         FinishDocument(r) \/ \E d \in Doc : BeginDocument(r, d)
  PROVE  TypeOK'
<1>1. ASSUME NEW d \in Doc, BeginDocument(r, d)
      PROVE  TypeOK'
  <2>1. /\ todo' = [todo EXCEPT ![r] = todo[r] \ {d}]
        /\ UNCHANGED <<projectVars, tombstones, left, lateVars, envVars>>
        /\ pc[r] = "purge"
    BY <1>1 DEF BeginDocument
  <2>2. CASE state[d] \in {"none", "purged"}
    <3>1. PICK l \in Labels \ {"finish"} : Goto(r, l) /\ state' = state
      BY <1>1, <2>2, LabelSets, AfterDocumentsOf DEF BeginDocument
    <3> QED
      BY <2>1, <3>1, GotoTypes DEF TypeOK, projectVars, lateVars, envVars
  <2>3. CASE state[d] \notin {"none", "purged"}
    <3>1. /\ pc' = [pc EXCEPT ![r] = "finish"]
          /\ doc' = [doc EXCEPT ![r] = {d}]
          /\ state' = [state EXCEPT ![d] = "purging"]
          /\ kind' = kind /\ doc_ids' = doc_ids
      BY <1>1, <2>3 DEF BeginDocument
    <3>2. pc'[r] = "finish" /\ doc'[r] = {d}
      BY <3>1 DEF TypeOK
    <3>3. \A q \in Run \ {r} : pc'[q] = pc[q] /\ doc'[q] = doc[q]
      BY <3>1 DEF TypeOK
    <3>4. "finish" \in Labels
      BY LabelSets
    <3> QED
      BY <2>1, <3>1, <3>2, <3>3, <3>4 DEF TypeOK, projectVars, lateVars,
         envVars
  <2> QED BY <2>2, <2>3
<1>2. CASE FinishDocument(r)
  <2>1. PICK l \in Labels \ {"finish"} : pc' = [pc EXCEPT ![r] = l]
    BY <1>2, LabelSets, AfterDocumentsOf DEF FinishDocument
  <2>2. /\ doc' = [doc EXCEPT ![r] = {}] /\ left' \in [Store -> SUBSET Doc]
        /\ tombstones' = tombstones \cup doc[r]
        /\ UNCHANGED <<projectVars, kind, todo, doc_ids, lateVars, envVars>>
    BY <1>2, WithoutTypes DEF FinishDocument
  <2>3. state' \in [Doc -> {"none", "open", "purging", "purged"}]
    BY <1>2 DEF FinishDocument, TypeOK
  <2>4. pc'[r] = l /\ doc'[r] = {}
    BY <2>1, <2>2 DEF TypeOK
  <2>5. \A q \in Run \ {r} : pc'[q] = pc[q] /\ doc'[q] = doc[q]
    BY <2>1, <2>2 DEF TypeOK
  <2> QED
    BY <2>1, <2>2, <2>3, <2>4, <2>5 DEF TypeOK, projectVars, lateVars, envVars
<1> QED BY <1>1, <1>2

\* The calls that empty a store, mark the project or delete its rows.
LEMMA EmptyingTypes ==
  ASSUME TypeOK, NEW r \in Run,
         \/ DeleteWiki(r) \/ DeleteRaw(r) \/ ClearEmbeddings(r) \/ DropSpace(r)
         \/ MarkPurged(r) \/ DeletePrefixes(r) \/ DeleteData(r)
  PROVE  TypeOK'
<1>1. PICK l \in Labels \ {"finish"} : Goto(r, l)
  BY LabelSets DEF DeleteWiki, DeleteRaw, ClearEmbeddings, DropSpace, Empty,
     MarkPurged, DeletePrefixes, DeleteData
<1>2. pc[r] # "finish"
  BY DEF DeleteWiki, DeleteRaw, ClearEmbeddings, DropSpace, Empty,
     MarkPurged, DeletePrefixes, DeleteData
<1>3. CASE DeleteWiki(r) \/ DeleteRaw(r) \/ ClearEmbeddings(r) \/ DropSpace(r)
  <2>1. PICK s : left' = [left EXCEPT ![s] = {}]
    BY <1>3 DEF DeleteWiki, DeleteRaw, ClearEmbeddings, DropSpace, Empty
  <2>2. UNCHANGED <<projectVars, state, tombstones, todo, lateVars, envVars>>
    BY <1>3 DEF DeleteWiki, DeleteRaw, ClearEmbeddings, DropSpace, Empty
  <2> QED
    BY <1>1, <1>2, <2>1, <2>2, GotoTypes DEF TypeOK, projectVars, lateVars,
       envVars
<1>4. CASE MarkPurged(r)
  BY <1>1, <1>2, <1>4, GotoTypes DEF MarkPurged, SetPurgeState, TypeOK,
     docVars, envVars
<1>5. CASE DeletePrefixes(r)
  <2>1. left' \in [Store -> SUBSET Doc]
    BY <1>5, WithoutTypes DEF DeletePrefixes
  <2> QED
    BY <1>1, <1>2, <1>5, <2>1, GotoTypes DEF DeletePrefixes, TypeOK,
       projectVars, lateVars, envVars
<1>6. CASE DeleteData(r)
  <2>1. left' \in [Store -> SUBSET Doc]
    BY <1>6, WithoutTypes DEF DeleteData
  <2> QED
    BY <1>1, <1>2, <1>6, <2>1, GotoTypes DEF DeleteData, TypeOK, envVars
<1> QED BY <1>3, <1>4, <1>5, <1>6

\* Where a request goes that fails.
LEMMA FailGoes ==
  ASSUME TypeOK, NEW r \in Run, Fail(r)
  PROVE  \E l \in {"over", "release", "failed"} : pc' = [pc EXCEPT ![r] = l]
<1>1. PICK l \in CASE pc[r] = "submit" -> {"over", "release"}
                   [] pc[r] \in Podding /\ kind[r] \in Lifecycle -> {"failed"}
                   [] OTHER -> {"over"} : pc' = [pc EXCEPT ![r] = l]
  BY DEF Fail
<1>2. l \in {"over", "release", "failed"}
  BY <1>1
<1> QED BY <1>1, <1>2

\* A failure.
LEMMA FailTypes ==
  ASSUME TypeOK, NEW r \in Run, Fail(r)
  PROVE  TypeOK'
<1>1. PICK l \in Labels \ {"finish"} : pc' = [pc EXCEPT ![r] = l]
  BY FailGoes, LabelSets
<1>2. /\ doc' = [doc EXCEPT ![r] = {}]
      /\ UNCHANGED <<projectVars, state, kind, todo, doc_ids, lateVars,
                     overlapped>>
      /\ lost' \in BOOLEAN
  BY DEF Fail
<1>3. left' \in [Store -> SUBSET Doc] /\ tombstones' \subseteq Doc
  <2>1. PICK S : /\ left' = Without(S, doc[r])
                 /\ tombstones' \in {tombstones, tombstones \cup doc[r]}
    BY DEF Fail
  <2> QED BY <2>1, WithoutTypes DEF TypeOK
<1>4. failures' \in 0..MaxFailures
  BY ConstantsAssumption DEF Fail, TypeOK
<1>5. /\ pc'[r] = l /\ doc'[r] = {}
      /\ \A q \in Run \ {r} : pc'[q] = pc[q] /\ doc'[q] = doc[q]
  BY <1>1, <1>2 DEF TypeOK
<1> QED
  BY <1>1, <1>2, <1>3, <1>4, <1>5 DEF TypeOK, projectVars, lateVars

\* The purges that are called without a request.
LEMMA CallTypes ==
  ASSUME TypeOK, NEW r \in Run,
         CallSource(r) \/ \E d \in Doc : CallDocument(r, d)
  PROVE  TypeOK'
<1>1. PICK l \in {"list", "purge"}, k \in {"source", "document"} :
        pc' = [pc EXCEPT ![r] = l] /\ kind' = [kind EXCEPT ![r] = k]
  BY DEF CallSource, CallDocument
<1>2. todo' \in [Run -> SUBSET Doc]
  BY DEF CallSource, CallDocument, TypeOK
<1>3. /\ pc' \in [Run -> Labels] /\ pc'[r] # "finish" /\ pc[r] # "finish"
      /\ \A q \in Run \ {r} : pc'[q] = pc[q]
  BY <1>1, LabelSets DEF TypeOK, CallSource, CallDocument
<1>4. kind' \in [Run -> AllKinds \cup {"none"}]
  BY <1>1 DEF TypeOK, AllKinds
<1>5. UNCHANGED <<projectVars, docVars, doc, doc_ids, lateVars, envVars>>
  BY DEF CallSource, CallDocument
<1> QED
  BY <1>2, <1>3, <1>4, <1>5 DEF TypeOK, projectVars, docVars, lateVars,
     envVars

\* The steps that touch a document.
Touching(d) == Upload(d) \/ Collect(d) \/ Ingest(d) \/ GraphRag(d) \/ Restore(d)

\* They are typed.
LEMMA TouchTypes ==
  ASSUME TypeOK, NEW d \in Doc, Touching(d)
  PROVE  TypeOK'
<1>1. Touch(d)
  BY DEF Touching, Upload, Collect, Ingest, GraphRag, Restore
<1>2. late' \in [Run -> SUBSET Doc] /\ since' \subseteq Doc
  BY <1>1 DEF Touch, TypeOK
<1>3. tombstones' \subseteq Doc
  BY DEF Touching, Upload, Collect, Ingest, GraphRag, Restore, TypeOK
<1>4. state' \in {state, [state EXCEPT ![d] = "open"]}
  BY DEF Touching, Upload, Collect, Ingest, GraphRag, Restore
<1>5. left' \in [Store -> SUBSET Doc]
  BY DEF Touching, Upload, Collect, Ingest, GraphRag, Restore, TypeOK
<1> QED
  BY <1>1, <1>2, <1>3, <1>4, <1>5 DEF Touch, TypeOK, projectVars, runVars,
     envVars

\* The type invariant is inductive.
LEMMA TypeNext == TypeOK /\ [Next]_vars => TypeOK'
<1>1. CASE UNCHANGED vars
  BY <1>1 DEF vars, projectVars, docVars, runVars, lateVars, envVars, TypeOK
<1>2. ASSUME TypeOK, Next
      PROVE  TypeOK'
  BY <1>2, RequestTypes, ListingTypes, DocumentTypes, EmptyingTypes, FailTypes,
     CallTypes, TouchTypes DEF Next, Manage, Pod, Touching
<1> QED BY <1>1, <1>2

-----------------------------------------------------------------------------
(* The control: one workflow of a kind.                                    *)

\* What a step of request r does to the control of the others.
Standing(r) ==
  /\ present' => present
  /\ overlapped => overlapped'
  /\ \A q \in Run \ {r} :
       /\ pc'[q] = pc[q] /\ kind'[q] = kind[q]
       /\ status'[q] = status[q] \/ (status'[q] = "none" /\ ~present')

\* And to its own: what lets r be made a request, be sure that no other run is
\* open, have an open run and be running.
Ordered(r) ==
  /\ Standing(r) /\ Controlled(r)'
  /\ pc'[r] \in Requesting =>
       \/ pc[r] \in Requesting
       \/ overlapped' \/ \A q \in Run : pc[q] \notin Requesting
  /\ pc'[r] \in {"mark", "submit"} =>
       \/ pc[r] \in {"mark", "submit"} /\ kind'[r] = kind[r]
                                       /\ status'[r] = status[r]
       \/ \A q \in Run : ~Active(q, kind[r])'  /\ kind'[r] = kind[r]
  /\ status'[r] = "submitted" =>
       kind'[r] = kind[r] /\ (status[r] = "submitted" \/ pc[r] = "submit")
  /\ status'[r] = "submitted" /\ status[r] # "submitted" =>
       pc'[r] \notin Requesting
  /\ Running(r)' =>
       kind'[r] = kind[r] /\ (Running(r) \/ pc[r] = "submit")

\* Such a step keeps what the others say of themselves,
LEMMA ControlledKept ==
  ASSUME IInv, NEW r \in Run, Standing(r), NEW q \in Run \ {r}
  PROVE  Controlled(q)'
  BY DEF IInv, Controlled, Standing, Running

\* the requests alone,
LEMMA AloneKept ==
  ASSUME IInv, NEW r \in Run, Ordered(r)
  PROVE  Alone'
<1> SUFFICES ASSUME ~overlapped'
             PROVE  /\ \A q, t \in Run : pc'[q] \in Requesting
                                         /\ pc'[t] \in Requesting => q = t
                    /\ \A q, t \in Run : pc'[t] \in {"mark", "submit"} =>
                                           ~Active(q, kind[t])'
  BY DEF Alone
<1>1. /\ ~overlapped
      /\ \A q, t \in Run : pc[q] \in Requesting /\ pc[t] \in Requesting => q = t
      /\ \A q, t \in Run : pc[t] \in {"mark", "submit"} => ~Active(q, kind[t])
  BY DEF Ordered, Standing, IInv, Alone
<1>2. \A q \in Run \ {r} : pc'[q] = pc[q] /\ kind'[q] = kind[q]
                           /\ (status'[q] = "submitted" => status[q] = "submitted")
  BY DEF Ordered, Standing
<1>3. \A q, t \in Run : pc'[q] \in Requesting /\ pc'[t] \in Requesting => q = t
  BY <1>1, <1>2 DEF Ordered
<1>4. ASSUME NEW q \in Run, NEW t \in Run, pc'[t] \in {"mark", "submit"},
             status'[q] = "submitted", kind'[q] = kind'[t]
      PROVE  FALSE
  <2>1. pc'[t] \in Requesting
    BY <1>4, LabelSets
  <2>2. CASE q = r /\ status[r] # "submitted"
    <3>1. pc[r] = "submit" /\ pc'[r] \notin Requesting
      BY <1>4, <2>2 DEF Ordered
    <3>2. t # r /\ pc[t] \in Requesting /\ pc[r] \in Requesting
      BY <1>2, <2>1, <3>1, LabelSets
    <3> QED BY <1>1, <3>2
  <2>3. CASE q # r \/ status[r] = "submitted"
    <3>1. status[q] = "submitted" /\ kind'[q] = kind[q]
      BY <1>2, <1>4, <2>3 DEF Ordered
    <3>2. CASE t # r
      BY <1>1, <1>2, <1>4, <3>1, <3>2 DEF Active
    <3>3. CASE t = r /\ pc[r] \in {"mark", "submit"} /\ kind'[r] = kind[r]
      BY <1>1, <1>4, <3>1, <3>3 DEF Active
    <3>4. CASE t = r /\ kind'[r] = kind[r]
               /\ \A u \in Run : ~Active(u, kind[r])'
      BY <1>4, <3>4 DEF Active
    <3> QED BY <1>4, <3>2, <3>3, <3>4 DEF Ordered
  <2> QED BY <2>2, <2>3
<1> QED BY <1>3, <1>4 DEF Active

\* and one workflow of a kind.
LEMMA OneOfAKindKept ==
  ASSUME IInv, NEW r \in Run, Ordered(r)
  PROVE  OneOfAKind'
<1> SUFFICES ASSUME present', ~overlapped', NEW q \in Run, NEW t \in Run,
                    Running(q)', Running(t)', kind'[q] = kind'[t], q # t
             PROVE  FALSE
  BY DEF OneOfAKind
<1>1. present /\ ~overlapped
  BY DEF Ordered, Standing
<1>2. ASSUME NEW u \in Run, Running(u)'
      PROVE  kind'[u] = kind[u] /\ (Running(u) \/ (u = r /\ pc[r] = "submit"))
  <2>1. CASE u = r
    BY <1>2, <2>1 DEF Ordered
  <2>2. CASE u # r
    BY <1>2, <2>2 DEF Ordered, Standing, Running
  <2> QED BY <2>1, <2>2
<1>3. kind[q] = kind[t] /\ ~(Running(q) /\ Running(t))
  BY <1>1, <1>2 DEF IInv, OneOfAKind
<1>4. ASSUME NEW u \in Run, Running(u), pc[r] = "submit", kind[u] = kind[r]
      PROVE  FALSE
  BY <1>1, <1>4 DEF IInv, Controlled, Alone, Active
<1> QED BY <1>2, <1>3, <1>4

\* A step that keeps its kind and its run, and moves to a label that asks for
\* nothing: most steps.
LEMMA PlainOrdered ==
  ASSUME IInv, NEW r \in Run, NEW l, pc' = [pc EXCEPT ![r] = l],
         present' => present, overlapped' = overlapped,
         kind' = kind,
         \/ status' = status
         \/ ~present' /\ status' = [q \in Run |-> "none"],
         pc[r] \in Podding \cup Ended \cup {"release"},
         l \in Podding => pc[r] \in Podding,
         l \in Podding \cup {"over", "release", "succeeded", "failed"},
         l \in Emptying => kind[r] \in Lifecycle,
         l \in {"list_ids", "again", "prefixes", "data"} => kind[r] = "delete"
  PROVE  Ordered(r)
<1>1. pc'[r] = l /\ \A q \in Run \ {r} : pc'[q] = pc[q]
  BY DEF IInv, TypeOK
<1>2. /\ l \notin Requesting /\ l # "idle"
      /\ l \notin {"mark", "submit"}
  BY LabelSets
<1>3. Standing(r)
  BY <1>1 DEF Standing
<1>4. Controlled(r)'
  BY <1>1, <1>2 DEF IInv, Controlled, Running
<1> QED BY <1>1, <1>2, <1>3, <1>4 DEF Ordered, Running

\* The steps of a workflow.
LEMMA PodOrdered ==
  ASSUME IInv, NEW r \in Run, Pod(r)
  PROVE  Ordered(r)
<1>1. Controlled(r)
  BY DEF IInv
<1> DEFINE Plain(l) ==
      /\ pc' = [pc EXCEPT ![r] = l] /\ present' = present
      /\ overlapped' = overlapped /\ kind' = kind /\ status' = status
      /\ pc[r] \in Podding
      /\ l \in Podding \cup {"over", "succeeded", "failed"}
      /\ l \in Emptying => kind[r] \in Lifecycle
      /\ l \in {"list_ids", "again", "prefixes", "data"} => kind[r] = "delete"
<1>2. ASSUME NEW l, Plain(l) PROVE Ordered(r)
  BY <1>2, PlainOrdered
<1> HIDE DEF Plain
<1>3. CASE GetProject(r)
  <2>1. PICK l \in {"failed", "list_ids", "list"} :
          Goto(r, l) /\ (l = "list_ids" => kind[r] = "delete")
    BY <1>3 DEF GetProject
  <2> QED
    BY <1>2, <1>3, <2>1, LabelSets DEF Plain, GetProject, Goto, projectVars,
       envVars
<1>4. CASE ListIds(r)
  BY <1>1, <1>2, <1>4, LabelSets DEF Plain, ListIds, Controlled, projectVars,
     envVars
<1>5. CASE \/ ListDocuments(r) \/ FinishDocument(r)
           \/ \E d \in Doc : BeginDocument(r, d)
  <2>1. PICK l \in {AfterDocuments(kind[r]), "purge", "finish"} :
          pc' = [pc EXCEPT ![r] = l]
    BY <1>5 DEF ListDocuments, FinishDocument, BeginDocument, Goto
  <2>2. /\ UNCHANGED <<projectVars, kind, envVars>>
        /\ pc[r] \in {"list", "purge", "finish"}
    BY <1>5 DEF ListDocuments, FinishDocument, BeginDocument, Goto
  <2> QED
    BY <1>2, <2>1, <2>2, LabelSets, AfterDocumentsOf
       DEF Plain, projectVars, envVars
<1>6. CASE \/ DeleteWiki(r) \/ DeleteRaw(r) \/ ClearEmbeddings(r)
           \/ DropSpace(r)
  <2>1. PICK l \in {"raw", "clear", "drop", "settle"} :
          /\ Goto(r, l) /\ pc[r] \in Emptying
          /\ UNCHANGED <<projectVars, envVars>>
    BY <1>6, LabelSets DEF DeleteWiki, DeleteRaw, ClearEmbeddings, DropSpace,
       Empty
  <2> QED
    BY <1>1, <1>2, <2>1, LabelSets DEF Plain, Goto, projectVars, envVars,
       Controlled
<1>7. CASE MarkPurged(r) \/ DeletePrefixes(r)
  <2>1. PICK l \in {"prefixes", "succeeded", "data"} :
          /\ Goto(r, l) /\ pc[r] \in {"settle", "prefixes"}
          /\ UNCHANGED <<present, status, envVars>>
          /\ l = "prefixes" => kind[r] = "delete"
          /\ l = "data" => pc[r] = "prefixes"
    BY <1>7 DEF MarkPurged, DeletePrefixes, projectVars
  <2>2. kind[r] \in Lifecycle
    BY <1>1, <2>1, LabelSets DEF Controlled
  <2> QED
    BY <1>1, <1>2, <2>1, <2>2, LabelSets DEF Plain, Goto, envVars, Controlled
<1>8. CASE DeleteData(r)
  <2>1. /\ pc' = [pc EXCEPT ![r] = "succeeded"] /\ kind' = kind
        /\ present' = FALSE /\ status' = [q \in Run |-> "none"]
        /\ overlapped' = overlapped /\ pc[r] \in Podding
    BY <1>8, LabelSets DEF DeleteData, Goto, envVars
  <2> QED BY <2>1, PlainOrdered, LabelSets
<1> QED BY <1>3, <1>4, <1>5, <1>6, <1>7, <1>8 DEF Pod

\* The request for an operation begins.
LEMMA RequestOrdered ==
  ASSUME IInv, NEW r \in Run, NEW k \in AllKinds, Request(r, k)
  PROVE  Ordered(r)
<1>1. PICK l \in {"over", "check_run"} : pc' = [pc EXCEPT ![r] = l]
  BY DEF Request
<1>2. /\ pc'[r] = l /\ kind'[r] = k
      /\ \A q \in Run \ {r} : pc'[q] = pc[q] /\ kind'[q] = kind[q]
      /\ present' = present /\ status' = status /\ pc[r] = "idle"
      /\ overlapped' <=> (overlapped \/ \E q \in Run : pc[q] \in Requesting)
  BY <1>1 DEF Request, IInv, TypeOK, projectVars
<1>3. Standing(r)
  BY <1>2 DEF Standing
<1>4. l \notin Podding /\ l \notin Emptying /\ status[r] = "none"
  BY <1>2, LabelSets DEF IInv, Controlled
<1>5. Controlled(r)'
  BY <1>2, <1>4 DEF Controlled, Running
<1> QED BY <1>2, <1>3, <1>4, <1>5 DEF Ordered, Running

\* The rest of it.
LEMMA ManageOrdered ==
  ASSUME IInv, NEW r \in Run, Manage(r)
  PROVE  Ordered(r)
<1>1. PICK l : Goto(r, l)
  BY DEF Manage, CheckRun, MarkStarted, Submit, ClearOnFailure, Finalize
<1>2. /\ kind' = kind /\ present' = present /\ overlapped' = overlapped
      /\ pc'[r] = l /\ \A q \in Run \ {r} : pc'[q] = pc[q]
  BY <1>1 DEF Goto, IInv, TypeOK, Manage, CheckRun, MarkStarted, Submit,
     ClearOnFailure, Finalize, projectVars, envVars
<1>3. CASE CheckRun(r)
  <2>1. status' = status /\ pc[r] = "check_run"
    BY <1>3 DEF CheckRun, projectVars
  <2>2. l \in {"over", "mark"} /\ (l = "mark" => \A q \in Run : ~Active(q, kind[r]))
    BY <1>1, <1>2, <1>3 DEF CheckRun, Goto, IInv, TypeOK
  <2>3. Standing(r) /\ Controlled(r)'
    BY <1>2, <2>1, <2>2, LabelSets DEF Standing, Controlled, Running
  <2> QED
    BY <1>2, <2>1, <2>2, <2>3, LabelSets DEF Ordered, Running, Active
<1>4. CASE MarkStarted(r)
  <2>1. status' = status /\ pc[r] = "mark" /\ l = "submit"
    BY <1>2, <1>4 DEF MarkStarted, Goto, IInv, TypeOK
  <2>2. Standing(r) /\ Controlled(r)'
    BY <1>2, <2>1, LabelSets DEF Standing, Controlled, Running
  <2> QED BY <1>2, <2>1, <2>2, LabelSets DEF Ordered, Running
<1>5. CASE Submit(r)
  <2>1. /\ status'[r] = "submitted" /\ pc[r] = "submit" /\ l = "project"
        /\ \A q \in Run \ {r} : status'[q] = status[q]
    BY <1>2, <1>5 DEF Submit, Goto, IInv, TypeOK
  <2>2. Standing(r) /\ Controlled(r)'
    BY <1>2, <2>1, LabelSets DEF Standing, Controlled, Running
  <2> QED BY <1>2, <2>1, <2>2, LabelSets DEF Ordered, Running
<1>6. CASE ClearOnFailure(r)
  <2>1. status' = status /\ pc[r] = "release" /\ l = "over"
    BY <1>2, <1>6 DEF ClearOnFailure, Goto, IInv, TypeOK
  <2>2. Standing(r) /\ Controlled(r)'
    BY <1>2, <2>1, LabelSets DEF Standing, Controlled, Running
  <2> QED BY <1>2, <2>1, <2>2, LabelSets DEF Ordered, Running
<1>7. CASE Finalize(r)
  <2>1. /\ status'[r] # "submitted" /\ pc[r] \in Ended
        /\ l \in {"release", "over"}
        /\ \A q \in Run \ {r} : status'[q] = status[q]
    BY <1>2, <1>7 DEF Finalize, Goto, IInv, TypeOK
  <2>2. Standing(r) /\ Controlled(r)'
    BY <1>2, <2>1, LabelSets DEF Standing, Controlled, Running
  <2> QED BY <1>2, <2>1, <2>2, LabelSets DEF Ordered, Running
<1> QED BY <1>3, <1>4, <1>5, <1>6, <1>7 DEF Manage

\* A failure, and a purge that needs no request.
LEMMA FailOrdered ==
  ASSUME IInv, NEW r \in Run, Fail(r)
  PROVE  Ordered(r)
<1>1. PICK l \in {"over", "release", "failed"} : pc' = [pc EXCEPT ![r] = l]
  BY FailGoes DEF IInv
<1>2. /\ kind' = kind /\ present' = present /\ overlapped' = overlapped
      /\ pc'[r] = l /\ \A q \in Run \ {r} : pc'[q] = pc[q]
      /\ status' = status
  BY <1>1 DEF Fail, IInv, TypeOK, projectVars
<1>3. Standing(r) /\ Controlled(r)'
  BY <1>2, LabelSets DEF Standing, Controlled, Running
<1> QED BY <1>2, <1>3, LabelSets DEF Ordered, Running

LEMMA CallOrdered ==
  ASSUME IInv, NEW r \in Run,
         CallSource(r) \/ \E d \in Doc : CallDocument(r, d)
  PROVE  Ordered(r)
<1>1. PICK l \in {"list", "purge"}, k \in {"source", "document"} :
        /\ pc' = [pc EXCEPT ![r] = l] /\ kind' = [kind EXCEPT ![r] = k]
        /\ pc[r] = "idle" /\ UNCHANGED <<projectVars, envVars>>
  BY DEF CallSource, CallDocument
<1>2. /\ pc'[r] = l /\ kind'[r] = k /\ k \notin Lifecycle
      /\ \A q \in Run \ {r} : pc'[q] = pc[q] /\ kind'[q] = kind[q]
      /\ present' = present /\ overlapped' = overlapped /\ status' = status
  BY <1>1 DEF IInv, TypeOK, projectVars, envVars, Lifecycle
<1>3. status[r] = "none"
  BY <1>1 DEF IInv, Controlled
<1>4. Standing(r) /\ Controlled(r)'
  BY <1>1, <1>2, LabelSets DEF Standing, Controlled, Running
<1> QED BY <1>1, <1>2, <1>3, <1>4, LabelSets DEF Ordered, Running

-----------------------------------------------------------------------------
(* The documents: what is left of them.                                    *)

\* A step that does not touch d takes things of it away, begins or ends its
\* purge, or deletes its row with the project.
Fades(d) ==
  /\ \A s \in Store : d \in left'[s] => d \in left[s]
  /\ \/ state'[d] = state[d]
     \/ state'[d] = "purging" /\ state[d] \notin {"none", "purged"}
     \/ state'[d] = "purged" /\ state[d] # "none"
                             /\ d \notin left'["rows"] \cup left'["parsed"]
     \/ state'[d] = "none" /\ ~present'

Touched(d) == d \in since' /\ Kept(d)' /\ \A r \in Run : d \in late'[r]

\* What q has left behind: of each document that is not late.
Left(q) ==
  kind[q] \in Lifecycle /\ present =>
    \A d \in Doc \ late[q] : Done(q, d) /\ (kind[q] = "delete" => Remembered(q, d))

\* What is left of a document does not come back by fading.
LEMMA FadesKept ==
  ASSUME IInv, NEW d \in Doc, Fades(d), present' => present
  PROVE  Kept(d)'
<1>1. Kept(d) /\ {"rows", "parsed"} \subseteq Store
  BY DEF IInv, Store
<1> QED BY <1>1 DEF Fades, Kept

\* Of a request that does not move, what it has done stays done.
LEMMA LeftKept ==
  ASSUME IInv, present' => present, \A d \in Doc : Fades(d) \/ Touched(d),
         NEW q \in Run, pc'[q] = pc[q], kind'[q] = kind[q], todo'[q] = todo[q],
         doc_ids'[q] = doc_ids[q], late[q] \subseteq late'[q]
  PROVE  Left(q)'
<1> SUFFICES ASSUME kind[q] \in Lifecycle, present', NEW d \in Doc \ late'[q]
             PROVE  Done(q, d)' /\ (kind[q] = "delete" => Remembered(q, d)')
  BY DEF Left
<1>1. Fades(d) /\ d \notin late[q] /\ present
  BY DEF Touched
<1>2. Done(q, d) /\ (kind[q] = "delete" => Remembered(q, d))
  BY <1>1 DEF IInv
<1>3. \A s \in Store : d \in left'[s] => d \in left[s]
  BY <1>1 DEF Fades
<1>4. state'[d] = "open" => state[d] = "open"
  BY <1>1 DEF Fades
<1>5. state'[d] # "none" => state[d] # "none"
  BY <1>1 DEF Fades
<1>6. Done(q, d)'
  BY <1>2, <1>3, <1>4 DEF Done, Store
<1>7. kind[q] = "delete" => Remembered(q, d)'
  BY <1>2, <1>5 DEF Remembered
<1> QED BY <1>6, <1>7

\* A step that is about documents, of request r if of any.
Settled(r) ==
  /\ present' => present
  /\ \A d \in Doc : Fades(d) \/ Touched(d)
  /\ \A q \in Run \ {r} :
       /\ pc'[q] = pc[q] /\ kind'[q] = kind[q] /\ todo'[q] = todo[q]
       /\ doc_ids'[q] = doc_ids[q] /\ late[q] \subseteq late'[q]
  /\ Left(r)'
  /\ \/ since \subseteq since' /\ (purge_state' = "purged" /\ present' =>
                                     purge_state = "purged")
     \/ PurgedLeavesOnlyLate'
  /\ present \/ since \subseteq since'
  /\ present => DeletedLeavesNothing'

\* A project that is purged stays so,
LEMMA PurgedKept ==
  ASSUME IInv, present' => present, \A d \in Doc : Fades(d) \/ Touched(d),
         since \subseteq since',
         purge_state' = "purged" /\ present' => purge_state = "purged"
  PROVE  PurgedLeavesOnlyLate'
<1> SUFFICES ASSUME present', purge_state' = "purged", NEW d \in Doc \ since'
             PROVE  /\ state'[d] # "open"
                    /\ \A s \in Store \ {"pages"} : d \in left'[s] =>
                         state'[d] = "purging" /\ s \in {"rows", "parsed"}
  BY DEF PurgedLeavesOnlyLate
<1>1. /\ state[d] # "open"
      /\ \A s \in Store \ {"pages"} : d \in left[s] =>
           state[d] = "purging" /\ s \in {"rows", "parsed"}
  BY DEF IInv, PurgedLeavesOnlyLate
<1>2. Fades(d)
  BY DEF Touched
<1>3. \A s \in Store : d \in left'[s] => d \in left[s]
  BY <1>2 DEF Fades
<1> QED BY <1>1, <1>2, <1>3 DEF Fades

\* one that is deleted stays so,
LEMMA DeletedKept ==
  ASSUME IInv, ~present, \A d \in Doc : Fades(d) \/ Touched(d),
         since \subseteq since'
  PROVE  DeletedLeavesNothing'
<1> SUFFICES ASSUME NEW d \in Doc \ since'
             PROVE  state'[d] = "none" /\ \A s \in Store : d \notin left'[s]
  BY DEF DeletedLeavesNothing
<1>1. Fades(d) /\ state[d] = "none" /\ \A s \in Store : d \notin left[s]
  BY DEF Touched, IInv, DeletedLeavesNothing
<1> QED BY <1>1 DEF Fades

\* and the invariant holds of the documents after a step.
LEMMA SettledKeeps ==
  ASSUME IInv, NEW r \in Run, Settled(r)
  PROVE  /\ \A d \in Doc : Kept(d)'
         /\ \A q \in Run : Left(q)'
         /\ PurgedLeavesOnlyLate' /\ DeletedLeavesNothing'
<1>1. \A d \in Doc : Kept(d)'
  BY FadesKept DEF Settled, Touched
<1>2. ASSUME NEW q \in Run PROVE Left(q)'
  <2>1. CASE q = r
    BY <2>1 DEF Settled
  <2>2. CASE q # r
    BY <2>2, LeftKept DEF Settled
  <2> QED BY <2>1, <2>2
<1>3. PurgedLeavesOnlyLate'
  BY PurgedKept DEF Settled
<1>4. DeletedLeavesNothing'
  BY DeletedKept DEF Settled
<1> QED BY <1>1, <1>2, <1>3, <1>4

\* Where nothing has been done yet, nothing has to stay so.
LEMMA NothingLeft ==
  ASSUME NEW r \in Run,
         pc'[r] \notin {"again", "list"} \cup Purging \cup Emptying
  PROVE  Left(r)'
  BY DEF Left, Done, Remembered, Emptying, Unwikied, Unrawed, Uncached,
     Unspaced, Unprefixed

\* The other requests, in a step of r.
Others(r) ==
  \A q \in Run \ {r} :
    /\ pc'[q] = pc[q] /\ kind'[q] = kind[q] /\ todo'[q] = todo[q]
    /\ doc_ids'[q] = doc_ids[q] /\ late[q] \subseteq late'[q]

\* A step that leaves the documents alone.
LEMMA QuietSettled ==
  ASSUME IInv, NEW r \in Run, Others(r), Left(r)', present' = present,
         purge_state' = "purged" => purge_state = "purged",
         UNCHANGED <<state, left, since>>
  PROVE  Settled(r)
<1>1. \A d \in Doc : Fades(d)
  BY DEF Fades
<1>2. present => DeletedLeavesNothing'
  BY DEF DeletedLeavesNothing
<1> QED BY <1>1, <1>2 DEF Settled, Others

\* A request, what the reconciler does, and a purge that is called.
LEMMA RequestSettled ==
  ASSUME IInv, NEW r \in Run,
         \/ \E k \in AllKinds : Request(r, k)
         \/ Manage(r) \/ CallSource(r) \/ \E d \in Doc : CallDocument(r, d)
  PROVE  Settled(r)
<1>1. CASE \/ \E k \in AllKinds : Request(r, k)
           \/ CallSource(r) \/ \E d \in Doc : CallDocument(r, d)
  <2>1. PICK l \in {"over", "check_run", "list", "purge"}, k \in AllKinds :
          /\ pc' = [pc EXCEPT ![r] = l] /\ kind' = [kind EXCEPT ![r] = k]
          /\ l \in {"list", "purge"} => k \notin Lifecycle
    BY <1>1 DEF Request, CallSource, CallDocument, Lifecycle, AllKinds
  <2>2. /\ pc'[r] = l /\ kind'[r] = k
        /\ \A q \in Run \ {r} : pc'[q] = pc[q] /\ kind'[q] = kind[q]
    BY <2>1 DEF IInv, TypeOK
  <2>3. \A q \in Run \ {r} : todo'[q] = todo[q]
    BY <1>1 DEF Request, CallSource, CallDocument, IInv, TypeOK
  <2>4. UNCHANGED <<projectVars, docVars, doc_ids, lateVars>>
    BY <1>1 DEF Request, CallSource, CallDocument
  <2>5. CASE l \in {"over", "check_run"}
    <3>1. l \notin {"again", "list"} \cup Purging \cup Emptying
      BY <2>5, LabelSets DEF Purging
    <3> QED
      BY <2>2, <2>3, <2>4, <3>1, NothingLeft, QuietSettled
         DEF Others, projectVars, docVars, lateVars
  <2>6. CASE l \in {"list", "purge"}
    <3>1. Left(r)'
      BY <2>1, <2>2, <2>6 DEF Left
    <3> QED
      BY <2>2, <2>3, <2>4, <3>1, QuietSettled
         DEF Others, projectVars, docVars, lateVars
  <2> QED BY <2>5, <2>6
<1>2. CASE Manage(r)
  <2>1. PICK l \in {"over", "mark", "submit", "project", "release"} : Goto(r, l)
    BY <1>2 DEF Manage, CheckRun, MarkStarted, Submit, ClearOnFailure,
       Finalize
  <2>2. /\ pc'[r] = l /\ kind' = kind /\ doc_ids' = doc_ids
        /\ \A q \in Run \ {r} : pc'[q] = pc[q]
    BY <2>1 DEF Goto, IInv, TypeOK
  <2>3. UNCHANGED <<present, docVars, todo, lateVars>>
    BY <1>2 DEF Manage, CheckRun, MarkStarted, Submit, ClearOnFailure,
       Finalize, projectVars
  <2>4. purge_state' = "purged" => purge_state = "purged"
    BY <1>2 DEF Manage, CheckRun, MarkStarted, Submit, ClearOnFailure,
       Finalize, projectVars, SetPurgeState
  <2>5. l \notin {"again", "list"} \cup Purging \cup Emptying
    BY LabelSets DEF Purging
  <2> QED
    BY <2>2, <2>3, <2>4, <2>5, NothingLeft, QuietSettled
       DEF Others, docVars, lateVars
<1> QED BY <1>1, <1>2

\* The listings.
LEMMA ListingSettled ==
  ASSUME IInv, NEW r \in Run, GetProject(r) \/ ListIds(r) \/ ListDocuments(r)
  PROVE  Settled(r)
<1>1. CASE GetProject(r)
  <2>1. PICK l \in {"failed", "list_ids", "list"} :
          /\ Goto(r, l)
          /\ l = "list" /\ kind[r] = "delete" => pc[r] = "again"
    BY <1>1 DEF GetProject
  <2>2. /\ pc'[r] = l /\ kind' = kind /\ doc_ids' = doc_ids
        /\ \A q \in Run \ {r} : pc'[q] = pc[q]
    BY <2>1 DEF Goto, IInv, TypeOK
  <2>3. UNCHANGED <<projectVars, docVars, todo, lateVars>>
    BY <1>1 DEF GetProject
  <2>4. Left(r)'
    <3>1. CASE l # "list"
      <4>1. l \notin {"again", "list"} \cup Purging \cup Emptying
        BY <3>1, LabelSets DEF Purging
      <4> QED BY <2>2, <4>1, NothingLeft
    <3>2. CASE l = "list"
      <4>1. l \notin Purging \cup Emptying
        BY <3>2, LabelSets DEF Purging
      <4>2. \A d \in Doc : Done(r, d)'
        BY <2>2, <4>1 DEF Done, Emptying, Unwikied, Unrawed, Uncached,
           Unspaced, Unprefixed
      <4> QED
        BY <2>1, <2>2, <2>3, <3>2, <4>2 DEF Left, IInv, Remembered,
           projectVars, docVars, lateVars
    <3> QED BY <3>1, <3>2
  <2> QED
    BY <2>2, <2>3, <2>4, QuietSettled DEF Others, projectVars, docVars,
       lateVars
<1>2. CASE ListIds(r)
  <2>1. /\ pc'[r] = "again" /\ kind' = kind /\ todo' = todo
        /\ doc_ids'[r] = {d \in Doc : state[d] # "none"}
        /\ \A q \in Run \ {r} : /\ pc'[q] = pc[q] /\ doc_ids'[q] = doc_ids[q]
                                /\ late'[q] = late[q]
        /\ UNCHANGED <<projectVars, docVars, since>>
    BY <1>2 DEF ListIds, IInv, TypeOK
  <2>2. "again" \notin Purging \cup Emptying
    BY LabelSets DEF Purging
  <2>3. \A d \in Doc : Done(r, d)' /\ Remembered(r, d)'
    BY <2>1, <2>2 DEF Done, Remembered, Emptying, Unwikied, Unrawed,
       Uncached, Unspaced, Unprefixed, docVars
  <2>4. Left(r)'
    BY <2>3 DEF Left
  <2> QED
    BY <2>1, <2>4, QuietSettled DEF Others, projectVars, docVars
<1>3. CASE ListDocuments(r)
  <2>1. PICK D : /\ D = {d \in Doc : state[d] = "open"
                                     /\ (kind[r] = "source" => d \in Sourced)}
                 /\ todo' = [todo EXCEPT ![r] = D]
    BY <1>3 DEF ListDocuments
  <2>2. /\ todo'[r] = D
        /\ Goto(r, IF D = {} THEN AfterDocuments(kind[r]) ELSE "purge")
        /\ UNCHANGED <<projectVars, docVars, since>> /\ pc[r] = "list"
    BY <1>3, <2>1 DEF ListDocuments, IInv, TypeOK
  <2>3. PICK l : l = IF D = {} THEN AfterDocuments(kind[r]) ELSE "purge"
    OBVIOUS
  <2>4. /\ pc'[r] = l /\ kind' = kind /\ doc_ids' = doc_ids
        /\ \A q \in Run \ {r} : pc'[q] = pc[q] /\ todo'[q] = todo[q]
    BY <2>1, <2>2, <2>3 DEF Goto, IInv, TypeOK
  <2>5. /\ \A q \in Run \ {r} : late'[q] = late[q]
        /\ kind[r] = "delete" => late' = late
    BY <1>3 DEF ListDocuments, IInv, TypeOK
  <2>6. Left(r)'
    <3> SUFFICES ASSUME kind[r] \in Lifecycle, present, NEW d \in Doc \ late'[r]
                 PROVE  Done(r, d)' /\ (kind[r] = "delete" => Remembered(r, d)')
      BY <2>2, <2>4 DEF Left, projectVars
    <3>1. D = {e \in Doc : state[e] = "open"} /\ l \in {"wiki", "purge"}
      BY <2>1, <2>3, AfterDocumentsOf DEF Lifecycle
    <3>2. l = "wiki" => D = {}
      BY <2>3
    <3>3. /\ l \notin Unwikied /\ l \notin Unrawed /\ l \notin Uncached
          /\ l \notin Unspaced /\ l \notin Unprefixed
      BY <3>1 DEF Unwikied, Unrawed, Uncached, Unspaced, Unprefixed
    <3>4. Done(r, d)'
      BY <2>2, <2>4, <3>1, <3>2, <3>3, LabelSets DEF Done, docVars, Purging
    <3>5. kind[r] = "delete" => Remembered(r, d)'
      BY <2>2, <2>4, <2>5 DEF IInv, Remembered, docVars
    <3> QED BY <3>4, <3>5
  <2> QED
    BY <2>2, <2>4, <2>5, <2>6, QuietSettled DEF Others, projectVars, docVars
<1> QED BY <1>1, <1>2, <1>3

\* The stores that a purge of a document deletes it from are stores.
LEMMA PurgedStores ==
  \A k : {"rows", "parsed"} \subseteq Purged(k) /\ Purged(k) \subseteq Store
  BY DEF Purged, Store

\* purge_document begins and ends.
LEMMA DocumentSettled ==
  ASSUME IInv, NEW r \in Run,
         FinishDocument(r) \/ \E d \in Doc : BeginDocument(r, d)
  PROVE  Settled(r)
<1>1. TypeOK /\ TypeOK'
  BY DocumentTypes DEF IInv
<1>2. /\ present' = present /\ purge_state' = purge_state
      /\ kind' = kind /\ doc_ids' = doc_ids /\ late' = late /\ since' = since
      /\ \A q \in Run \ {r} : pc'[q] = pc[q] /\ todo'[q] = todo[q]
  BY <1>1 DEF FinishDocument, BeginDocument, Goto, TypeOK, projectVars,
     lateVars
<1>3. \A d \in Doc : Fades(d)
  <2>1. ASSUME NEW e \in Doc, BeginDocument(r, e)
        PROVE  \A d \in Doc : Fades(d)
    <3>1. left' = left
      BY <2>1 DEF BeginDocument
    <3>2. /\ state'[e] \in {state[e], "purging"}
          /\ state'[e] # state[e] => state[e] \notin {"none", "purged"}
          /\ \A d \in Doc \ {e} : state'[d] = state[d]
      BY <1>1, <2>1 DEF BeginDocument, TypeOK
    <3> QED BY <3>1, <3>2 DEF Fades
  <2>2. CASE FinishDocument(r)
    <3>1. /\ left' = Without(Purged(kind[r]), doc[r]) /\ pc[r] = "finish"
          /\ \A d \in Doc : state'[d] = IF d \in doc[r] /\ state[d] # "none"
                                        THEN "purged" ELSE state[d]
      BY <2>2 DEF FinishDocument
    <3>2. \A s \in Store : left'[s] \subseteq left[s]
      BY <1>1, <3>1, WithoutTypes
    <3>3. (left'["rows"] \cup left'["parsed"]) \cap doc[r] = {}
      BY <1>1, <3>1, WithoutTypes, PurgedStores
    <3> QED BY <3>1, <3>2, <3>3 DEF Fades
  <2> QED BY <2>1, <2>2
<1>4. /\ pc'[r] \in {AfterDocuments(kind[r]), "purge", "finish"}
      /\ pc'[r] = AfterDocuments(kind[r]) => todo'[r] = {}
      /\ pc[r] \in Purging
      /\ \A d \in todo[r] \ todo'[r] : state'[d] # "open"
  <2>1. ASSUME NEW e \in Doc, BeginDocument(r, e)
        PROVE  /\ pc'[r] \in {AfterDocuments(kind[r]), "purge", "finish"}
               /\ pc'[r] = AfterDocuments(kind[r]) => todo'[r] = {}
               /\ pc[r] \in Purging
               /\ \A d \in todo[r] \ todo'[r] : state'[d] # "open"
    <3>1. /\ todo'[r] = todo[r] \ {e} /\ pc[r] = "purge" /\ e \in todo[r]
          /\ state'[e] # "open"
      BY <1>1, <2>1 DEF BeginDocument, TypeOK
    <3>2. \/ pc'[r] \in {"purge", "finish"}
          \/ pc'[r] = AfterDocuments(kind[r]) /\ todo[r] = {e}
      BY <1>1, <2>1 DEF BeginDocument, Goto, TypeOK
    <3>3. AfterDocuments(kind[r]) \notin {"purge", "finish"}
      BY AfterDocumentsOf
    <3> QED BY <3>1, <3>2, <3>3 DEF Purging
  <2>2. CASE FinishDocument(r)
    <3>1. /\ todo' = todo /\ pc[r] = "finish"
          /\ \/ pc'[r] = "purge"
             \/ pc'[r] = AfterDocuments(kind[r]) /\ todo[r] = {}
      BY <1>1, <2>2 DEF FinishDocument, TypeOK
    <3>2. AfterDocuments(kind[r]) # "purge"
      BY AfterDocumentsOf
    <3> QED BY <3>1, <3>2 DEF Purging
  <2> QED BY <2>1, <2>2
<1>5. Left(r)'
  <2> SUFFICES ASSUME kind[r] \in Lifecycle, present, NEW d \in Doc \ late[r]
               PROVE  Done(r, d)' /\ (kind[r] = "delete" => Remembered(r, d)')
    BY <1>2 DEF Left
  <2>1. /\ Done(r, d) /\ Fades(d)
        /\ kind[r] = "delete" => Remembered(r, d)
    BY <1>3 DEF IInv
  <2>2. /\ pc'[r] \in {"wiki", "purge", "finish"}
        /\ pc'[r] = "wiki" => todo'[r] = {}
    BY <1>4, AfterDocumentsOf
  <2>3. state'[d] = "open" => state[d] = "open" /\ d \in todo'[r]
    BY <1>4, <2>1 DEF Fades, Done
  <2>4. Done(r, d)'
    BY <2>2, <2>3, LabelSets DEF Done, Unwikied, Unrawed, Uncached, Unspaced,
       Unprefixed
  <2>5. state'[d] # "none" => state[d] # "none"
    BY <2>1 DEF Fades
  <2>6. kind[r] = "delete" => Remembered(r, d)'
    BY <1>2, <1>4, <2>1, <2>5 DEF Remembered
  <2> QED BY <2>4, <2>6
<1>6. present => DeletedLeavesNothing'
  BY <1>2 DEF DeletedLeavesNothing
<1> QED BY <1>2, <1>3, <1>5, <1>6 DEF Settled

\* The calls that empty a store of the project.
LEMMA EmptySettled ==
  ASSUME IInv, NEW r \in Run,
         \/ DeleteWiki(r) \/ DeleteRaw(r) \/ ClearEmbeddings(r) \/ DropSpace(r)
         \/ DeletePrefixes(r)
  PROVE  Settled(r)
<1>1. TypeOK /\ TypeOK'
  BY EmptyingTypes DEF IInv
<1>2. /\ present' = present /\ purge_state' = purge_state /\ state' = state
      /\ kind' = kind /\ doc_ids' = doc_ids /\ late' = late /\ since' = since
      /\ todo' = todo
      /\ \A q \in Run \ {r} : pc'[q] = pc[q]
  BY <1>1 DEF DeleteWiki, DeleteRaw, ClearEmbeddings, DropSpace, Empty,
     DeletePrefixes, Goto, TypeOK, projectVars, lateVars
<1>3. \A s \in Store : left'[s] \subseteq left[s]
  BY <1>1, WithoutTypes DEF DeleteWiki, DeleteRaw, ClearEmbeddings, DropSpace,
     Empty, DeletePrefixes, TypeOK
<1>4. \/ pc[r] = "wiki" /\ pc'[r] = "raw" /\ left'["wiki"] = {}
      \/ pc[r] = "raw" /\ pc'[r] = "clear" /\ left'["raw"] = {}
      \/ pc[r] = "clear" /\ pc'[r] = "drop" /\ left'["vectors"] = {}
      \/ pc[r] = "drop" /\ pc'[r] = "settle" /\ left'["space"] = {}
      \/ pc[r] = "prefixes" /\ pc'[r] = "data"
         /\ (left'["parsed"] \cup left'["pages"]) \cap doc_ids[r] = {}
  <2>1. CASE \/ DeleteWiki(r) \/ DeleteRaw(r) \/ ClearEmbeddings(r)
             \/ DropSpace(r)
    BY <1>1, <2>1 DEF DeleteWiki, DeleteRaw, ClearEmbeddings, DropSpace,
       Empty, Goto, TypeOK, Store
  <2>2. CASE DeletePrefixes(r)
    <3>1. {"parsed", "pages"} \cap Store = {"parsed", "pages"}
      BY DEF Store
    <3>2. left' = Without({"parsed", "pages"}, doc_ids[r])
      BY <2>2 DEF DeletePrefixes
    <3>3. left'["parsed"] \cap doc_ids[r] = {} /\ left'["pages"] \cap doc_ids[r] = {}
      BY <1>1, <3>1, <3>2, WithoutTypes
    <3> QED
      BY <1>1, <2>2, <3>3 DEF DeletePrefixes, Goto, TypeOK
  <2> QED BY <2>1, <2>2
<1>5. \A d \in Doc : Fades(d)
  BY <1>2, <1>3 DEF Fades
<1>6. Left(r)'
  <2> SUFFICES ASSUME kind[r] \in Lifecycle, present, NEW d \in Doc \ late[r]
               PROVE  Done(r, d)' /\ (kind[r] = "delete" => Remembered(r, d)')
    BY <1>2 DEF Left
  <2>1. /\ Done(r, d) /\ Kept(d) /\ Controlled(r)
        /\ kind[r] = "delete" => Remembered(r, d)
    BY DEF IInv
  <2>2. pc[r] \in Emptying
    BY <1>4, LabelSets
  <2>3. pc'[r] = "data" => d \notin left'["parsed"] \cup left'["pages"]
    <3>1. d \in left["parsed"] \cup left["pages"] => state[d] # "none"
      BY <2>1 DEF Kept, Store
    <3>2. pc[r] = "prefixes" => (state[d] # "none" => d \in doc_ids[r])
      BY <2>1, <2>2 DEF Remembered, Controlled
    <3>3. left'["parsed"] \subseteq left["parsed"] /\ left'["pages"] \subseteq left["pages"]
      BY <1>3 DEF Store
    <3> QED BY <1>4, <3>1, <3>2, <3>3
  <2>4. Done(r, d)'
    <3>1. \A s \in Store : d \in left'[s] => d \in left[s]
      BY <1>3
    <3>2. state'[d] # "open" /\ pc'[r] \notin Purging
      BY <1>2, <1>4, <2>1, <2>2 DEF Done, Purging
    <3> QED
      BY <1>4, <2>1, <2>3, <3>1, <3>2 DEF Done, Unwikied, Unrawed, Uncached,
         Unspaced, Unprefixed, Store
  <2>5. kind[r] = "delete" => Remembered(r, d)'
    BY <1>2, <2>1, <2>2 DEF Remembered
  <2> QED BY <2>4, <2>5
<1>7. present => DeletedLeavesNothing'
  BY <1>2 DEF DeletedLeavesNothing
<1> QED BY <1>2, <1>5, <1>6, <1>7 DEF Settled

\* The project is marked purged: nothing is left but of what is late.
LEMMA MarkPurgedSettled ==
  ASSUME IInv, NEW r \in Run, MarkPurged(r)
  PROVE  Settled(r)
<1>1. /\ TypeOK /\ Controlled(r)
      /\ pc[r] = "settle" /\ present' = present /\ kind' = kind
      /\ doc_ids' = doc_ids /\ late' = late /\ todo' = todo
      /\ state' = state /\ left' = left
      /\ pc'[r] = IF kind[r] = "delete" THEN "prefixes" ELSE "succeeded"
      /\ \A q \in Run \ {r} : pc'[q] = pc[q]
  BY DEF IInv, MarkPurged, Goto, TypeOK, docVars
<1>2. kind[r] \in Lifecycle
  BY <1>1, LabelSets DEF Controlled
<1>3. \A d \in Doc : Fades(d)
  BY <1>1 DEF Fades
<1>4. Left(r)'
  <2>1. CASE kind[r] # "delete"
    <3>1. "succeeded" \notin {"again", "list"} \cup Purging \cup Emptying
      BY LabelSets DEF Purging
    <3> QED BY <1>1, <2>1, <3>1, NothingLeft
  <2>2. CASE kind[r] = "delete"
    <3> SUFFICES ASSUME present, NEW d \in Doc \ late[r]
                 PROVE  Done(r, d)' /\ Remembered(r, d)'
      BY <1>1, <2>2 DEF Left
    <3>1. Done(r, d) /\ Remembered(r, d)
      BY <1>2, <2>2 DEF IInv
    <3> QED
      BY <1>1, <2>2, <3>1, LabelSets DEF Done, Remembered, Purging, Unwikied,
         Unrawed, Uncached, Unspaced, Unprefixed
  <2> QED BY <2>1, <2>2
<1>5. present => since' = late[r] /\ PurgedLeavesOnlyLate'
  <2> SUFFICES ASSUME present, NEW d \in Doc \ late[r]
               PROVE  /\ state[d] # "open"
                      /\ \A s \in Store \ {"pages"} : d \in left[s] =>
                           state[d] = "purging" /\ s \in {"rows", "parsed"}
    BY <1>1 DEF MarkPurged, PurgedLeavesOnlyLate
  <2>1. /\ Done(r, d) /\ Kept(d)
        /\ state[d] \in {"none", "open", "purging", "purged"}
    BY <1>2 DEF IInv, TypeOK
  <2>2. /\ state[d] # "open" /\ d \notin left["wiki"] /\ d \notin left["raw"]
        /\ d \notin left["vectors"] /\ d \notin left["space"]
    BY <1>1, <2>1, LabelSets DEF Done, Unwikied, Unrawed, Uncached, Unspaced
  <2> QED BY <2>1, <2>2 DEF Kept, Store
<1>6. ~present => since' = since /\ purge_state' = purge_state
  BY DEF MarkPurged, SetPurgeState
<1>7. present => DeletedLeavesNothing'
  BY <1>1 DEF DeletedLeavesNothing
<1> QED BY <1>1, <1>3, <1>4, <1>5, <1>6, <1>7 DEF Settled

\* The rows of the project are deleted: nothing is left but of what is late.
LEMMA DeleteDataSettled ==
  ASSUME IInv, NEW r \in Run, DeleteData(r)
  PROVE  Settled(r)
<1>1. /\ TypeOK /\ Controlled(r)
      /\ pc[r] = "data" /\ present' = FALSE /\ kind' = kind
      /\ doc_ids' = doc_ids /\ late' = late /\ todo' = todo
      /\ state' = [d \in Doc |-> "none"]
      /\ since' = IF present THEN late[r] ELSE since
      /\ \A q \in Run \ {r} : pc'[q] = pc[q]
  BY DEF IInv, DeleteData, Goto, TypeOK
<1>2. kind[r] \in Lifecycle
  BY <1>1, LabelSets DEF Controlled
<1>3. \A s \in Store : left'[s] \subseteq left[s]
  BY <1>1, WithoutTypes DEF DeleteData
<1>4. left'["rows"] \cap Doc = {} /\ left'["vectors"] \cap Doc = {}
  BY <1>1 DEF DeleteData, Without, Store
<1>5. \A d \in Doc : Fades(d)
  BY <1>1, <1>3 DEF Fades
<1>6. Left(r)' /\ PurgedLeavesOnlyLate'
  BY <1>1 DEF Left, PurgedLeavesOnlyLate
<1>7. present => DeletedLeavesNothing'
  <2> SUFFICES ASSUME present, NEW d \in Doc \ late[r], NEW s \in Store
               PROVE  d \notin left'[s]
    BY <1>1 DEF DeletedLeavesNothing
  <2>1. Done(r, d)
    BY <1>2 DEF IInv
  <2>2. s \in {"rows", "vectors"} \/ d \notin left[s]
    BY <1>1, <2>1 DEF Done, Unwikied, Unrawed, Uncached, Unspaced, Unprefixed,
       Store
  <2> QED BY <1>3, <1>4, <2>2
<1> QED BY <1>1, <1>5, <1>6, <1>7 DEF Settled

\* A failure may have deleted some of what the step deletes.
LEMMA FailSettled ==
  ASSUME IInv, NEW r \in Run, Fail(r)
  PROVE  Settled(r)
<1>1. PICK l \in {"over", "release", "failed"} : pc' = [pc EXCEPT ![r] = l]
  BY FailGoes DEF IInv
<1>2. /\ pc'[r] = l /\ \A q \in Run \ {r} : pc'[q] = pc[q]
      /\ UNCHANGED <<present, purge_state, state, kind, todo, doc_ids, late,
                     since>>
  BY <1>1 DEF Fail, IInv, TypeOK, projectVars, lateVars
<1>3. PICK S : left' = Without(S, doc[r])
  BY DEF Fail
<1>4. \A s \in Store : left'[s] \subseteq left[s]
  BY <1>3, WithoutTypes DEF IInv
<1>5. \A d \in Doc : Fades(d)
  BY <1>2, <1>4 DEF Fades
<1>6. Left(r)'
  <2>1. l \notin {"again", "list"} \cup Purging \cup Emptying
    BY LabelSets DEF Purging
  <2> QED BY <1>2, <2>1, NothingLeft
<1>7. present => DeletedLeavesNothing'
  BY <1>2 DEF DeletedLeavesNothing
<1> QED BY <1>2, <1>5, <1>6, <1>7 DEF Settled

\* A step that touches a document leaves every other one alone.
LEMMA TouchFades ==
  ASSUME IInv, NEW d \in Doc, Touching(d)
  PROVE  /\ \A e \in Doc : Fades(e) \/ Touched(e)
         /\ since \subseteq since' /\ \A r \in Run : late[r] \subseteq late'[r]
         /\ UNCHANGED <<projectVars, runVars, envVars>>
<1>1. /\ Touch(d) /\ TypeOK
  BY DEF Touching, Upload, Collect, Ingest, GraphRag, Restore, IInv
<1>2. /\ d \in since' /\ since \subseteq since'
      /\ \A r \in Run : late'[r] = late[r] \cup {d}
      /\ UNCHANGED <<projectVars, runVars, envVars>>
  BY <1>1 DEF Touch
<1>3. /\ state' \in {state, [state EXCEPT ![d] = "open"]}
      /\ \A s \in Store : left'[s] \subseteq left[s] \cup {d}
  BY <1>1 DEF Touching, Upload, Collect, Ingest, GraphRag, Restore, TypeOK
<1>4. \A e \in Doc \ {d} : Fades(e)
  BY <1>1, <1>3 DEF Fades, TypeOK
<1>5. Kept(d)'
  <2>1. CASE state'[d] = "open"
    BY <2>1 DEF Kept
  <2>2. CASE state'[d] # "open"
    <3>1. Collect(d) \/ GraphRag(d)
      BY <1>1, <2>2 DEF Touching, Upload, Ingest, Restore, TypeOK
    <3>2. state' = state /\ present' = present
      BY <1>2, <3>1 DEF Collect, GraphRag, projectVars
    <3>3. CASE Collect(d)
      <4>1. \A s \in Store \ {"raw"} : left'[s] = left[s]
        BY <1>1, <3>3 DEF Collect, TypeOK
      <4> QED BY <3>2, <4>1 DEF Kept, IInv, Store
    <3>4. CASE GraphRag(d)
      BY <2>2, <3>2, <3>4 DEF GraphRag
    <3> QED BY <3>1, <3>3, <3>4
  <2> QED BY <2>1, <2>2
<1> QED BY <1>2, <1>4, <1>5 DEF Touched

-----------------------------------------------------------------------------
(* The theorems.                                                           *)

\* IInv holds of a project that has just been made.
LEMMA InitIInv == Init => IInv
<1> SUFFICES ASSUME Init PROVE IInv
  OBVIOUS
<1>1. TypeOK
  <2>1. failures \in 0..MaxFailures
    BY ConstantsAssumption DEF Init
  <2>2. pc \in [Run -> Labels]
    BY LabelSets DEF Init
  <2>3. \A r \in Run : IF pc[r] = "finish" THEN \E d \in Doc : doc[r] = {d}
                                           ELSE doc[r] = {}
    BY DEF Init
  <2>4. /\ left \in [Store -> SUBSET Doc] /\ todo \in [Run -> SUBSET Doc]
        /\ doc \in [Run -> SUBSET Doc] /\ doc_ids \in [Run -> SUBSET Doc]
        /\ late \in [Run -> SUBSET Doc]
    BY DEF Init
  <2> QED BY <2>1, <2>2, <2>3, <2>4 DEF Init, TypeOK
<1>2. \A r \in Run : pc[r] = "idle" /\ kind[r] = "none" /\ status[r] = "none"
  BY DEF Init
<1>3. \A r \in Run : Controlled(r) /\ ~Running(r) /\ kind[r] \notin Lifecycle
  BY <1>2, LabelSets DEF Controlled, Running, Lifecycle
<1>4. Alone /\ OneOfAKind
  BY <1>2, <1>3, LabelSets DEF Alone, OneOfAKind, Active
<1>5. \A d \in Doc : Kept(d)
  BY DEF Init, Kept, Store
<1>6. PurgedLeavesOnlyLate /\ DeletedLeavesNothing
  BY DEF Init, PurgedLeavesOnlyLate, DeletedLeavesNothing
<1> QED BY <1>1, <1>3, <1>4, <1>5, <1>6 DEF IInv

\* A step of a request that is ordered and settled preserves it,
LEMMA StepKeeps ==
  ASSUME IInv, [Next]_vars, NEW r \in Run, Ordered(r), Settled(r)
  PROVE  IInv'
<1>1. TypeOK'
  BY TypeNext DEF IInv
<1>2. \A q \in Run : Controlled(q)'
  BY ControlledKept DEF Ordered
<1>3. Alone' /\ OneOfAKind'
  BY AloneKept, OneOfAKindKept
<1> QED BY <1>1, <1>2, <1>3, SettledKeeps DEF IInv, Left

\* and so does one that touches a document.
LEMMA TouchKeeps ==
  ASSUME IInv, [Next]_vars, NEW d \in Doc, Touching(d)
  PROVE  IInv'
<1>1. TypeOK'
  BY TypeNext DEF IInv
<1>2. /\ pc' = pc /\ kind' = kind /\ todo' = todo /\ doc_ids' = doc_ids
      /\ present' = present /\ status' = status /\ overlapped' = overlapped
      /\ purge_state' = purge_state
  BY TouchFades DEF projectVars, runVars, envVars
<1>3. (\A r \in Run : Controlled(r)') /\ Alone' /\ OneOfAKind'
  BY <1>2 DEF IInv, Controlled, Alone, OneOfAKind, Running, Active
<1>4. \A r \in Run : Left(r)'
  BY <1>2, TouchFades, LeftKept
<1>5. \A e \in Doc : Kept(e)'
  BY <1>2, TouchFades, FadesKept DEF Touched
<1>6. PurgedLeavesOnlyLate'
  BY <1>2, TouchFades, PurgedKept
<1>7. DeletedLeavesNothing'
  <2>1. CASE present
    BY <1>2, <2>1 DEF DeletedLeavesNothing
  <2>2. CASE ~present
    BY <2>2, TouchFades, DeletedKept
  <2> QED BY <2>1, <2>2
<1> QED BY <1>1, <1>3, <1>4, <1>5, <1>6, <1>7 DEF IInv, Left

\* IInv is inductive.
LEMMA NextIInv == IInv /\ [Next]_vars => IInv'
<1> SUFFICES ASSUME IInv, [Next]_vars PROVE IInv'
  OBVIOUS
<1>1. CASE UNCHANGED vars
  <2> USE <1>1 DEF vars, projectVars, docVars, runVars, lateVars, envVars
  <2>1. TypeOK'
    BY TypeNext DEF IInv
  <2>2. (\A r \in Run : Controlled(r)') /\ Alone' /\ OneOfAKind'
    BY DEF IInv, Controlled, Alone, OneOfAKind, Running, Active
  <2>3. (\A d \in Doc : Kept(d)') /\ PurgedLeavesOnlyLate'
        /\ DeletedLeavesNothing'
    BY DEF IInv, Kept, PurgedLeavesOnlyLate, DeletedLeavesNothing
  <2>4. \A r \in Run : Left(r)'
    BY DEF IInv, Left, Done, Remembered
  <2> QED BY <2>1, <2>2, <2>3, <2>4 DEF IInv, Left
<1>2. ASSUME NEW r \in Run,
             \/ \E k \in AllKinds : Request(r, k)
             \/ CallSource(r) \/ \E d \in Doc : CallDocument(r, d)
             \/ Manage(r) \/ Pod(r) \/ Fail(r)
      PROVE  IInv'
  <2>1. Ordered(r)
    BY <1>2, RequestOrdered, CallOrdered, ManageOrdered, PodOrdered,
       FailOrdered
  <2>2. Settled(r)
    BY <1>2, RequestSettled, ListingSettled, DocumentSettled, EmptySettled,
       MarkPurgedSettled, DeleteDataSettled, FailSettled DEF Pod
  <2> QED BY <2>1, <2>2, StepKeeps
<1>3. ASSUME NEW d \in Doc, Touching(d)
      PROVE  IInv'
  BY <1>3, TouchKeeps
<1> QED BY <1>1, <1>2, <1>3 DEF Next, Touching

\* What the requests, the workflows and the reconciler of a project rely on
\* holds of every reachable state.
THEOREM Invariance == Spec => []IInv
  BY InitIInv, NextIInv, PTL DEF Spec

\* The variables of the model have their types.
THEOREM TypeCorrect == Spec => []TypeOK
<1>1. IInv => TypeOK
  BY DEF IInv
<1> QED BY <1>1, Invariance, PTL

\* A project marked purged has nothing left but of documents touched since
\* they were listed, and of those whose purge had died (PurgedLeavesOnlyLate).
THEOREM PurgeLeavesOnlyLate == Spec => []PurgedLeavesOnlyLate
<1>1. IInv => PurgedLeavesOnlyLate
  BY DEF IInv
<1> QED BY <1>1, Invariance, PTL

\* A project that is deleted has nothing left but of documents touched since
\* they were listed (DeletedLeavesNothing).
THEOREM DeletionLeavesNothing == Spec => []DeletedLeavesNothing
<1>1. IInv => DeletedLeavesNothing
  BY DEF IInv
<1> QED BY <1>1, Invariance, PTL

\* While requests do not overlap, no two workflows of one kind run
\* (OneOfAKind).
THEOREM OneWorkflowOfAKind == Spec => []OneOfAKind
<1>1. IInv => OneOfAKind
  BY DEF IInv
<1> QED BY <1>1, Invariance, PTL
=============================================================================
