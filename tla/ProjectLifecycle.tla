-------------------------- MODULE ProjectLifecycle --------------------------
(***************************************************************************)
(* The purge and the deletion of a project: the console's request, which   *)
(* asks whether another one is under way and then says that its own is,    *)
(* the workflow, and the reconciler that closes the workflow's run.  Next  *)
(* to them the purge of a source or of one document, and what goes on in a *)
(* project in the meantime, since nothing else looks at purge_state.       *)
(*                                                                         *)
(* purge_document is two steps here, its first write and all the rest;     *)
(* DocumentLifecycle has every call of it.                                 *)
(***************************************************************************)
EXTENDS Naturals, FiniteSets

CONSTANTS
  Doc,         \* documents by content hash
  Sourced,     \* those of the source that may be purged
  Run,         \* requests, in any order, numbered like the ids of their runs
  Kinds,       \* what they may ask for in this instance
  ListLimit,   \* open runs the reconciler lists at a time, 200 in the code
  MaxFailures  \* bound: how many workflows, calls or consoles die

Lifecycle == {"purge", "delete"}               \* of the project, by a workflow
AllKinds  == Lifecycle \cup {"source", "document"}

ASSUME ConstantsAssumption ==
  /\ Sourced \subseteq Doc
  /\ Run \subseteq Nat /\ IsFiniteSet(Run)
  /\ Kinds \subseteq AllKinds
  /\ ListLimit \in Nat \ {0} /\ MaxFailures \in Nat

\* Where something of a document may be left: its chunk rows and their
\* embeddings, its parsed files, the pages OCR stored beside them, its raw
\* file, the graph, the wiki.
Store == {"rows", "vectors", "parsed", "pages", "raw", "space", "wiki"}

VARIABLES
  present,     \* whether the row of the project is there
  purge_state, \* projects.purge_state, "none" for NULL
  status,      \* pipeline_runs.status, "none" for no row
  state,       \* documents.ingest_state; "open" is all but purging and purged
  tombstones,  \* documents whose content hash is buried
  left,        \* by store, the documents something is left of
  pc, kind,    \* where a request and its workflow are, and what they do
  todo,        \* the documents it listed and has not purged
  doc,         \* the one it is purging
  doc_ids,     \* the documents delete_project listed at its start
  failures,    \* what failed so far
  late,        \* history: documents that were touched since a run's listing
  since,       \* history: ... since the one of the run that last emptied all
  overlapped,  \* history: a request was made while another was being made
  lost         \* history: a console died with purge_state in its hands

projectVars == <<present, purge_state, status>>
docVars     == <<state, tombstones, left>>
runVars     == <<pc, kind, todo, doc, doc_ids>>
lateVars    == <<late, since>>
envVars     == <<failures, overlapped, lost>>
vars        == <<projectVars, docVars, runVars, lateVars, envVars>>

Requesting == {"check_run", "mark", "submit"}
Podding    == {"project", "list_ids", "again", "list", "purge", "finish",
               "wiki", "raw", "clear", "drop", "settle", "prefixes", "data"}
Ended      == {"succeeded", "failed"}
Labels     == {"idle", "release", "over"}
              \cup Requesting \cup Podding \cup Ended

TypeOK ==
  /\ present \in BOOLEAN
  /\ purge_state \in {"none", "purging", "deleting", "purged"}
  /\ status \in [Run -> {"none", "submitted", "Succeeded", "Failed"}]
  /\ state \in [Doc -> {"none", "open", "purging", "purged"}]
  /\ tombstones \subseteq Doc
  /\ left \in [Store -> SUBSET Doc]
  /\ pc \in [Run -> Labels]
  /\ kind \in [Run -> AllKinds \cup {"none"}]
  /\ todo \in [Run -> SUBSET Doc]
  /\ doc \in [Run -> SUBSET Doc]
  /\ \A r \in Run : IF pc[r] = "finish" THEN \E d \in Doc : doc[r] = {d}
                                        ELSE doc[r] = {}
  /\ doc_ids \in [Run -> SUBSET Doc]
  /\ failures \in 0..MaxFailures
  /\ late \in [Run -> SUBSET Doc] /\ since \subseteq Doc
  /\ overlapped \in BOOLEAN /\ lost \in BOOLEAN

Init ==
  /\ present = TRUE /\ purge_state = "none"
  /\ status = [r \in Run |-> "none"]
  /\ state = [d \in Doc |-> "none"] /\ tombstones = {}
  /\ left = [s \in Store |-> {}]
  /\ pc = [r \in Run |-> "idle"] /\ kind = [r \in Run |-> "none"]
  /\ todo = [r \in Run |-> {}] /\ doc = [r \in Run |-> {}]
  /\ doc_ids = [r \in Run |-> {}]
  /\ failures = 0
  /\ late = [r \in Run |-> {}] /\ since = {}
  /\ overlapped = FALSE /\ lost = FALSE

-----------------------------------------------------------------------------
(* The request.  Variants of a definition, each with a mistake the checks  *)
(* must notice, stand before it.                                           *)

Goto(r, l) == pc' = [pc EXCEPT ![r] = l] /\ UNCHANGED <<kind, doc, doc_ids>>

\* An UPDATE of projects; there may be no row left to update.
SetPurgeState(s) == purge_state' = IF present THEN s ELSE purge_state

\* The request for a lifecycle operation begins: get_purge_state, the first
\* check of assert_project_lifecycle_idle.
Request(r, k) ==
  /\ pc[r] = "idle" /\ k \in Kinds \cap Lifecycle /\ present
  /\ kind' = [kind EXCEPT ![r] = k]
  /\ pc' = [pc EXCEPT ![r] = IF purge_state \in {"purging", "deleting"}
                             THEN "over" ELSE "check_run"]
  /\ overlapped' = (overlapped \/ \E q \in Run : pc[q] \in Requesting)
  /\ UNCHANGED <<projectVars, docVars, todo, doc, doc_ids, lateVars, failures,
                 lost>>

Active(r, k) == kind[r] = k /\ status[r] = "submitted"

CheckNoRun(r) ==
  /\ pc[r] = "check_run"
  /\ Goto(r, "mark")
  /\ UNCHANGED <<projectVars, docVars, todo, lateVars, envVars>>

\* has_active_lifecycle_run, the second check: a run of the same kind.
CheckRun(r) ==
  /\ pc[r] = "check_run"
  /\ Goto(r, IF \E q \in Run : Active(q, kind[r]) THEN "over" ELSE "mark")
  /\ UNCHANGED <<projectVars, docVars, todo, lateVars, envVars>>

MarkStartedAsKind(r) ==
  /\ pc[r] = "mark"
  /\ SetPurgeState(kind[r])
  /\ Goto(r, "submit")
  /\ UNCHANGED <<present, status, docVars, todo, lateVars, envVars>>

\* mark_project_lifecycle_started.
MarkStarted(r) ==
  /\ pc[r] = "mark"
  /\ SetPurgeState(IF kind[r] = "purge" THEN "purging" ELSE "deleting")
  /\ Goto(r, "submit")
  /\ UNCHANGED <<present, status, docVars, todo, lateVars, envVars>>

\* The workflow is submitted, and its run inserted.
Submit(r) ==
  /\ pc[r] = "submit"
  /\ status' = [status EXCEPT ![r] = "submitted"]
  /\ Goto(r, "project")
  /\ UNCHANGED <<present, purge_state, docVars, todo, lateVars, envVars>>

ClearPurging(r) ==
  /\ pc[r] = "release"
  /\ SetPurgeState(IF purge_state = "purging" THEN "none" ELSE purge_state)
  /\ Goto(r, "over")
  /\ UNCHANGED <<present, status, docVars, todo, lateVars, envVars>>

\* clear_project_lifecycle_on_failure: whoever's operation is in progress.
ClearOnFailure(r) ==
  /\ pc[r] = "release"
  /\ SetPurgeState(IF purge_state \in {"purging", "deleting"}
                   THEN "none" ELSE purge_state)
  /\ Goto(r, "over")
  /\ UNCHANGED <<present, status, docVars, todo, lateVars, envVars>>

-----------------------------------------------------------------------------
(* The reconciler.                                                         *)

Open(r) == status[r] = "submitted"

ListedOfAll(r) ==
  Open(r) /\ Cardinality({q \in Run : q > r /\ status[q] # "none"}) < ListLimit

\* list_non_finalized_pipeline_runs: the first of ORDER BY id DESC.
Listed(r) == Open(r) /\ Cardinality({q \in Run : q > r /\ Open(q)}) < ListLimit

\* finalize_pipeline_run, when the workflow of a listed run has ended.
Finalize(r) ==
  /\ Listed(r) /\ pc[r] \in Ended
  /\ status' = [status EXCEPT ![r] = IF pc[r] = "failed" THEN "Failed"
                                                         ELSE "Succeeded"]
  /\ Goto(r, IF pc[r] = "failed" THEN "release" ELSE "over")
  /\ UNCHANGED <<present, purge_state, docVars, todo, lateVars, envVars>>

-----------------------------------------------------------------------------
(* purge_project, delete_project, purge_source and purge_document.         *)

\* get_project, of delete_project and of the purge_project it calls.
GetProject(r) ==
  /\ pc[r] \in {"project", "again"}
  /\ Goto(r, IF ~present THEN "failed"
             ELSE IF pc[r] = "project" /\ kind[r] = "delete" THEN "list_ids"
             ELSE "list")
  /\ UNCHANGED <<projectVars, docVars, todo, lateVars, envVars>>

\* The ids whose parsed prefix delete_project will delete.
ListIds(r) ==
  /\ pc[r] = "list_ids"
  /\ doc_ids' = [doc_ids EXCEPT ![r] = {d \in Doc : state[d] # "none"}]
  /\ pc' = [pc EXCEPT ![r] = "again"]
  /\ late' = [late EXCEPT ![r] = {}]
  /\ UNCHANGED <<projectVars, docVars, kind, todo, doc, since, envVars>>

AfterDocuments(k) == IF k \in Lifecycle THEN "wiki" ELSE "over"

ListFiled(r) ==
  /\ pc[r] = "list"
  /\ todo' = [todo EXCEPT ![r] =
       {d \in Doc : /\ state[d] = "open" /\ d \in left["parsed"]
                    /\ kind[r] = "source" => d \in Sourced}]
  /\ Goto(r, IF todo'[r] = {} THEN AfterDocuments(kind[r]) ELSE "purge")
  /\ late' = IF kind[r] = "delete" THEN late ELSE [late EXCEPT ![r] = {}]
  /\ UNCHANGED <<projectVars, docVars, since, envVars>>

\* list_documents_for_project: those that are purged or purging are skipped.
\* For delete_project the clock of late started with its own listing.
ListDocuments(r) ==
  /\ pc[r] = "list"
  /\ todo' = [todo EXCEPT ![r] =
       {d \in Doc : /\ state[d] = "open"
                    /\ kind[r] = "source" => d \in Sourced}]
  /\ Goto(r, IF todo'[r] = {} THEN AfterDocuments(kind[r]) ELSE "purge")
  /\ late' = IF kind[r] = "delete" THEN late ELSE [late EXCEPT ![r] = {}]
  /\ UNCHANGED <<projectVars, docVars, since, envVars>>

\* purge_document begins: get_document, which may have changed since the
\* listing, and set_document_ingest_state.
BeginDocument(r, d) ==
  /\ pc[r] = "purge" /\ d \in todo[r]
  /\ todo' = [todo EXCEPT ![r] = @ \ {d}]
  /\ IF state[d] \in {"none", "purged"}
     THEN /\ Goto(r, IF todo[r] = {d} THEN AfterDocuments(kind[r])
                                      ELSE "purge")
          /\ UNCHANGED state
     ELSE /\ pc' = [pc EXCEPT ![r] = "finish"]
          /\ doc' = [doc EXCEPT ![r] = {d}]
          /\ state' = [state EXCEPT ![d] = "purging"]
          /\ UNCHANGED <<kind, doc_ids>>
  /\ UNCHANGED <<projectVars, tombstones, left, lateVars, envVars>>

\* The stores purge_document deletes a document from.
Purged(k) == {"rows", "vectors", "parsed", "space"}
             \cup (IF k \in Lifecycle THEN {"raw"} ELSE {})

Without(S, D) == [s \in Store |-> IF s \in S THEN left[s] \ D ELSE left[s]]

\* The rest of purge_document, the tombstone and the purged state last.
FinishDocument(r) ==
  /\ pc[r] = "finish"
  /\ left' = Without(Purged(kind[r]), doc[r])
  /\ tombstones' = tombstones \cup doc[r]
  /\ state' = [d \in Doc |-> IF d \in doc[r] /\ state[d] # "none"
                             THEN "purged" ELSE state[d]]
  /\ pc' = [pc EXCEPT ![r] = IF todo[r] = {} THEN AfterDocuments(kind[r])
                                             ELSE "purge"]
  /\ doc' = [doc EXCEPT ![r] = {}]
  /\ UNCHANGED <<projectVars, kind, todo, doc_ids, lateVars, envVars>>

\* One call that empties a store of the whole project.
Empty(r, at, s, next) ==
  /\ pc[r] = at
  /\ left' = [left EXCEPT ![s] = {}]
  /\ Goto(r, next)
  /\ UNCHANGED <<projectVars, state, tombstones, todo, lateVars, envVars>>

DeleteWiki(r)      == Empty(r, "wiki", "wiki", "raw")
DeleteRaw(r)       == Empty(r, "raw", "raw", "clear")
ClearEmbeddings(r) == Empty(r, "clear", "vectors", "drop")
DropSpace(r)       == Empty(r, "drop", "space", "settle")

\* The end of purge_project, in the middle of delete_project.
MarkPurged(r) ==
  /\ pc[r] = "settle"
  /\ SetPurgeState("purged")
  /\ since' = IF present THEN late[r] ELSE since
  /\ Goto(r, IF kind[r] = "delete" THEN "prefixes" ELSE "succeeded")
  /\ UNCHANGED <<present, status, docVars, todo, late, envVars>>

DeletePrefixesOfPurged(r) ==
  /\ pc[r] = "prefixes"
  /\ left' = Without({"parsed", "pages"},
                     {d \in doc_ids[r] : state[d] = "purged"})
  /\ Goto(r, "data")
  /\ UNCHANGED <<projectVars, state, tombstones, todo, lateVars, envVars>>

\* The parsed prefix of every document that was listed at the start.
DeletePrefixes(r) ==
  /\ pc[r] = "prefixes"
  /\ left' = Without({"parsed", "pages"}, doc_ids[r])
  /\ Goto(r, "data")
  /\ UNCHANGED <<projectVars, state, tombstones, todo, lateVars, envVars>>

\* delete_project_data: every row of the project, its runs included.
DeleteData(r) ==
  /\ pc[r] = "data"
  /\ present' = FALSE
  /\ status' = [q \in Run |-> "none"]
  /\ state' = [d \in Doc |-> "none"] /\ tombstones' = {}
  /\ left' = Without({"rows", "vectors"}, Doc)
  /\ since' = IF present THEN late[r] ELSE since
  /\ Goto(r, "succeeded")
  /\ UNCHANGED <<purge_state, todo, late, envVars>>

Pod(r) ==
  \/ GetProject(r) \/ ListIds(r) \/ ListDocuments(r)
  \/ (\E d \in Doc : BeginDocument(r, d)) \/ FinishDocument(r)
  \/ DeleteWiki(r) \/ DeleteRaw(r) \/ ClearEmbeddings(r) \/ DropSpace(r)
  \/ MarkPurged(r) \/ DeletePrefixes(r) \/ DeleteData(r)

\* The console, the workflow or the reconciler dies before its next call.  A
\* purge_document may have deleted some of what it deletes, and buried it when
\* that is all.  The submission of a workflow may also just fail, and is then
\* taken back.
Fail(r) ==
  /\ failures < MaxFailures /\ failures' = failures + 1
  /\ pc[r] \in Requesting \cup Podding \cup {"release"}
  /\ \E S \in SUBSET Purged(kind[r]) :
       /\ pc[r] # "finish" => S = {}
       /\ left' = Without(S, doc[r])
       /\ tombstones' \in {tombstones, IF S = Purged(kind[r])
                                       THEN tombstones \cup doc[r]
                                       ELSE tombstones}
  /\ pc' \in {[pc EXCEPT ![r] = l] :
       l \in CASE pc[r] = "submit" -> {"over", "release"}
               [] pc[r] \in Podding /\ kind[r] \in Lifecycle -> {"failed"}
               [] OTHER -> {"over"}}
  /\ doc' = [doc EXCEPT ![r] = {}]
  /\ lost' = (lost \/ (pc[r] \in {"submit", "release"} /\ pc'[r] = "over"))
  /\ UNCHANGED <<projectVars, state, kind, todo, doc_ids, lateVars,
                 overlapped>>

-----------------------------------------------------------------------------
(* What else goes on in the project.                                       *)

\* purge_source and purge_document are called without a request.
CallSource(r) ==
  /\ pc[r] = "idle" /\ "source" \in Kinds
  /\ kind' = [kind EXCEPT ![r] = "source"]
  /\ pc' = [pc EXCEPT ![r] = "list"]
  /\ UNCHANGED <<projectVars, docVars, todo, doc, doc_ids, lateVars, envVars>>

CallDocument(r, d) ==
  /\ pc[r] = "idle" /\ "document" \in Kinds
  /\ kind' = [kind EXCEPT ![r] = "document"]
  /\ pc' = [pc EXCEPT ![r] = "purge"]
  /\ todo' = [todo EXCEPT ![r] = {d}]
  /\ UNCHANGED <<projectVars, docVars, doc, doc_ids, lateVars, envVars>>

Touch(d) == /\ late' = [r \in Run |-> late[r] \cup {d}]
            /\ since' = since \cup {d}
            /\ UNCHANGED <<projectVars, runVars, envVars>>

Blocked(d) == d \in tombstones \/ state[d] = "purged"

Upload(d) ==
  /\ ~Blocked(d) /\ d \notin left["raw"]
  /\ left' = [left EXCEPT !["raw"] = @ \cup {d}]
  /\ state' = [state EXCEPT ![d] = "open"]
  /\ Touch(d)
  /\ UNCHANGED tombstones

\* A collected file has no row yet, and no tombstone keeps it out.
Collect(d) ==
  /\ present /\ d \notin left["raw"]
  /\ left' = [left EXCEPT !["raw"] = @ \cup {d}]
  /\ Touch(d)
  /\ UNCHANGED <<state, tombstones>>

\* Of a scan, which has pages.
Ingest(d) ==
  /\ ~Blocked(d) /\ d \in left["raw"]
  /\ left' = [s \in Store |-> IF s \in {"rows", "vectors", "parsed", "pages"}
                              THEN left[s] \cup {d} ELSE left[s]]
  /\ state' = [state EXCEPT ![d] = "open"]
  /\ Touch(d)
  /\ UNCHANGED tombstones

GraphRag(d) ==
  /\ present /\ state[d] = "open" /\ d \in left["rows"] \cap left["parsed"]
  /\ left' = [s \in Store |-> IF s \in {"space", "wiki"}
                              THEN left[s] \cup {d} ELSE left[s]]
  /\ Touch(d)
  /\ UNCHANGED <<state, tombstones>>

Restore(d) ==
  /\ state[d] # "none"
  /\ tombstones' = tombstones \ {d}
  /\ state' = [state EXCEPT ![d] = "open"]
  /\ Touch(d)
  /\ UNCHANGED left

Manage(r) ==
  \/ CheckRun(r) \/ MarkStarted(r) \/ Submit(r) \/ ClearOnFailure(r)
  \/ Finalize(r)

Next ==
  \/ \E r \in Run : \/ \E k \in AllKinds : Request(r, k)
                    \/ CallSource(r) \/ \E d \in Doc : CallDocument(r, d)
                    \/ Manage(r) \/ Pod(r) \/ Fail(r)
  \/ \E d \in Doc :
       Upload(d) \/ Collect(d) \/ Ingest(d) \/ GraphRag(d) \/ Restore(d)

Spec == Init /\ [][Next]_vars

\* Argo runs a submitted workflow to its end or its deadline, the console goes
\* on with a request it has begun, the reconciler polls.
FairSpec == Spec /\ \A r \in Run : WF_vars(Manage(r) \/ Pod(r))

-----------------------------------------------------------------------------
(* Properties.                                                             *)

\* A project marked purged (purge_project) has nothing left but of documents
\* that were uploaded, collected, ingested, put in the graph or restored after
\* its purge listed them, and the pages of scans; of those it skipped, since
\* they were purging, rows and parsed files may be left.
PurgedLeavesOnlyLate ==
  present /\ purge_state = "purged" =>
    \A d \in Doc \ since :
      /\ state[d] # "open"
      /\ \A s \in Store \ {"pages"} :
           d \in left[s] => state[d] = "purging" /\ s \in {"rows", "parsed"}

\* Of a deleted project (delete_project) nothing is left, also of documents
\* whose purge had died, but of those touched while it was deleted.
DeletedLeavesNothing ==
  ~present => \A d \in Doc \ since :
                /\ state[d] = "none"
                /\ \A s \in Store : d \notin left[s]

Running(r) == kind[r] \in Lifecycle /\ pc[r] \in Podding

\* As long as requests are not made at the same moment, two workflows of one
\* kind never run on a project: has_active_lifecycle_run refuses what a
\* purge_state lets pass that another workflow has overwritten or cleared.
OneOfAKind ==
  present /\ ~overlapped =>
    \A q, r \in Run : Running(q) /\ Running(r) /\ kind[q] = kind[r] => q = r

InProgress == present /\ purge_state \in {"purging", "deleting"}

\* A project that is being purged or deleted is so no more at some time, after
\* any failure but that of the console itself (ClearOnFailure, MarkPurged).
LifecycleReleased == InProgress ~> (~InProgress \/ lost)

\* The run of a workflow is finalized, however many are listed before it.
RunsFinalized == \A r \in Run : Open(r) ~> ~Open(r)

\* "Project purge/delete already in progress or completed" is what
\* ProjectLifecycleBusyError says (admin/lifecycle.py:20): a request is refused
\* while a workflow of a request made before it runs.
BusyIsRefused ==
  [][\A r \in Run : pc[r] = "check_run" /\ pc'[r] = "mark" /\ ~overlapped
                    => ~\E q \in Run : Running(q)]_vars
=============================================================================
