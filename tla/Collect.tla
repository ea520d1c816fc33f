------------------------------ MODULE Collect -------------------------------
(***************************************************************************)
(* The collection of a source: what a provider's folder holds, the delta   *)
(* cursor the source keeps of it, the runs that list, download, write a    *)
(* manifest and hand it to the ingest, and the console's edits of the      *)
(* source.  Two runs of a source may overlap: a schedule does not look for *)
(* one that is still on its way.                                           *)
(*                                                                         *)
(* The provider numbers its changes; a delta cursor is a folder and the    *)
(* number of the last change it was given.  A content is an item as of     *)
(* the change that made it: its file, its manifest line and its document   *)
(* are named by that pair.  What an ingest does with a line is             *)
(* DocumentLifecycle's.                                                    *)
(***************************************************************************)
EXTENDS Naturals

CONSTANTS
  Item,        \* remote ids of the files whose extension is collected: every
               \* listing passes over the others by name
  Folder,      \* folders a source may be set to
  FolderOf,    \* the folder an item is in
  NamedById,   \* items whose file name holds their remote id
  Driver,      \* drivers a source may have
  Run,         \* collect workflows that may be on their way at once
  None,
  MaxChanges,  \* bound: changes at the provider
  MaxTroubles  \* bound: edits of the source in the console, and failures of a
               \* run, together

ASSUME ConstantsAssumption ==
  /\ FolderOf \in [Item -> Folder]
  /\ NamedById \subseteq Item
  /\ Driver \subseteq {"sharepoint", "gdrive", "onedrive"}
  /\ MaxChanges \in Nat /\ MaxTroubles \in Nat
  /\ None \notin Folder

VARIABLES
  changed,     \* the number of an item's last change, 0 before it exists
  alive,       \* whether it exists
  tick,        \* the number of the last change
  driver,      \* the source's driver
  source,      \* its row: the config, with the folder and delta_link; enabled
  files,       \* contents stored under raw/
  ingested,    \* contents handed to an ingest
  purged,      \* those whose document was purged since
  pc,          \* where a run, or the console, is
  run,         \* what a run holds
  row,         \* the row an update_source is about to write
  troubles     \* edits and failures so far

remoteVars == <<changed, alive, tick>>
docVars    == <<files, ingested, purged>>
boundVars  == <<driver, troubles>>
vars == <<remoteVars, source, docVars, pc, run, row, boundVars>>

console == "console"
Writer  == Run \cup {console}
Content == [item : Item, at : 1..MaxChanges]
Now(i)  == [item |-> i, at |-> changed[i]]
NoLink  == [folder |-> None, at |-> 0]
Link    == {NoLink} \cup [folder : Folder, at : 0..MaxChanges]
Config  == [folder : Folder, link : Link]
Row     == [config : Config, enabled : BOOLEAN]

ASSUME NoneAssumption == None \notin Config /\ None \notin Row

NoRun   == [mode |-> "delta", config |-> None, todo |-> {}, metas |-> {},
            link |-> NoLink]
Labels  == {"idle", "list", "download", "written", "succeeded", "patch",
            "write", "edit"}

TypeOK ==
  /\ changed \in [Item -> 0..MaxChanges] /\ alive \in [Item -> BOOLEAN]
  /\ tick \in 0..MaxChanges
  /\ driver \in Driver /\ source \in Row
  /\ files \subseteq Content /\ ingested \subseteq files
  /\ purged \subseteq ingested
  /\ pc \in [Writer -> Labels]
  /\ run \in [Run -> [mode : {"delta", "full"}, config : Config \cup {None},
                      todo : SUBSET [item : Item, deleted : BOOLEAN],
                      metas : SUBSET Content, link : Link]]
  /\ row \in [Writer -> Row \cup {None}]
  /\ troubles \in 0..MaxTroubles

Init ==
  /\ changed = [i \in Item |-> 0] /\ alive = [i \in Item |-> FALSE]
  /\ tick = 0
  /\ driver \in Driver
  /\ source \in [config : [folder : {FolderOf[i] : i \in Item},
                           link : {NoLink}],
                 enabled : {TRUE}]
  /\ files = {} /\ ingested = {} /\ purged = {}
  /\ pc = [w \in Writer |-> "idle"]
  /\ run = [r \in Run |-> NoRun]
  /\ row = [w \in Writer |-> None]
  /\ troubles = 0

Goto(w, l) == pc' = [pc EXCEPT ![w] = l]

-----------------------------------------------------------------------------
(* The provider.  An id that was deleted is not used again.                *)

Change(i) ==
  /\ tick < MaxChanges
  /\ alive[i] \/ changed[i] = 0
  /\ tick' = tick + 1
  /\ changed' = [changed EXCEPT ![i] = tick + 1]
  /\ alive' = [alive EXCEPT ![i] = TRUE]
  /\ UNCHANGED <<source, docVars, pc, run, row, boundVars>>

Delete(i) ==
  /\ tick < MaxChanges
  /\ alive[i]
  /\ tick' = tick + 1
  /\ changed' = [changed EXCEPT ![i] = tick + 1]
  /\ alive' = [alive EXCEPT ![i] = FALSE]
  /\ UNCHANGED <<source, docVars, pc, run, row, boundVars>>

-----------------------------------------------------------------------------
(* A run.  Variants of a definition, each with a mistake the checks must   *)
(* notice, stand before it.                                                *)

\* The source is read once, its own sync_mode is delta.
RunCollect(r, mode) ==
  /\ pc[r] = "idle"
  /\ source.enabled
  /\ Goto(r, "list")
  /\ run' = [run EXCEPT ![r] = [NoRun EXCEPT !.mode = mode,
                                             !.config = source.config]]
  /\ UNCHANGED <<remoteVars, source, docVars, row, boundVars>>

\* The cursor is put one change past the listing.
ListPastTheEnd(r) ==
  LET config == run[r].config
      from   == IF config.link # NoLink THEN config.link
                ELSE [folder |-> config.folder, at |-> 0]
  IN
  /\ pc[r] = "list" /\ driver = "sharepoint" /\ run[r].mode = "delta"
  /\ Goto(r, "download")
  /\ run' = [run EXCEPT
       ![r].todo = {[item |-> i, deleted |-> ~alive[i]] : i \in
                     {j \in Item : /\ FolderOf[j] = from.folder
                                   /\ changed[j] > from.at
                                   /\ alive[j] \/ config.link # NoLink}},
       ![r].link = [folder |-> from.folder, at |-> tick + 1],
       ![r].config = None]
  /\ UNCHANGED <<remoteVars, source, docVars, row, boundVars>>

\* A cursor carries its own folder: the config's is used only without one.
\* The first listing of a folder holds no deletions.
\* Its pages are one step: what changes between two of them is in a later page
\* or behind the cursor the last one gives, and a page that fails is Fail.
ListDelta(r) ==
  LET config == run[r].config
      from   == IF config.link # NoLink THEN config.link
                ELSE [folder |-> config.folder, at |-> 0]
  IN
  /\ pc[r] = "list" /\ driver = "sharepoint" /\ run[r].mode = "delta"
  /\ Goto(r, "download")
  /\ run' = [run EXCEPT
       ![r].todo = {[item |-> i, deleted |-> ~alive[i]] : i \in
                     {j \in Item : /\ FolderOf[j] = from.folder
                                   /\ changed[j] > from.at
                                   /\ alive[j] \/ config.link # NoLink}},
       ![r].link = [folder |-> from.folder, at |-> tick],
       ![r].config = None]
  /\ UNCHANGED <<remoteVars, source, docVars, row, boundVars>>

\* The whole folder; the cursor is neither used nor made.
ListFolder(r) ==
  /\ Goto(r, "download")
  /\ run' = [run EXCEPT
       ![r].todo = {[item |-> i, deleted |-> FALSE] : i \in
                     {j \in Item : /\ FolderOf[j] = run[r].config.folder
                                   /\ alive[j]}},
       ![r].config = None]
  /\ UNCHANGED <<remoteVars, source, docVars, row, boundVars>>

ListSharePoint(r) ==
  /\ pc[r] = "list" /\ driver = "sharepoint" /\ run[r].mode = "full"
  /\ ListFolder(r)

\* The other drivers know no delta, whatever the mode says.
ListGDrive(r)   == pc[r] = "list" /\ driver = "gdrive" /\ ListFolder(r)
ListOneDrive(r) == pc[r] = "list" /\ driver = "onedrive" /\ ListFolder(r)

\* One file: download_item gives what the item holds now, which may be later
\* than the listing; store_raw.
StoreRaw(r, i) ==
  /\ pc[r] = "download"
  /\ [item |-> i, deleted |-> FALSE] \in run[r].todo
  /\ alive[i]
  /\ files' = files \cup {Now(i)}
  /\ run' = [run EXCEPT ![r].todo = @ \ {[item |-> i, deleted |-> FALSE]},
                        ![r].metas = @ \cup {Now(i)}]
  /\ UNCHANGED <<remoteVars, source, ingested, purged, pc, row, boundVars>>

\* Nothing but the raw key of a document is looked at, and the id is in it
\* only when the file name has it.
Matches(i, d) == d.item = i /\ i \in NamedById

\* list_documents_for_project and the purge_document of each match in one step:
\* the calls in between are in DocumentLifecycle, and no run reads a document.
PurgeDeleted(r, i) ==
  /\ pc[r] = "download"
  /\ [item |-> i, deleted |-> TRUE] \in run[r].todo
  /\ purged' = purged \cup {d \in ingested : Matches(i, d)}
  /\ run' = [run EXCEPT ![r].todo = @ \ {[item |-> i, deleted |-> TRUE]}]
  /\ UNCHANGED <<remoteVars, source, files, ingested, pc, row, boundVars>>

\* manifest.jsonl, and manifest.meta.json behind it.  Nobody but the run's own
\* ingest reads the manifest of its batch: it is what the run still holds.
WriteBatchManifest(r) ==
  /\ pc[r] = "download" /\ run[r].todo = {}
  /\ Goto(r, "written")
  /\ UNCHANGED <<remoteVars, source, docVars, run, row, boundVars>>

\* A batch of one file is taken for an empty one.
IngestTwoOrMore(r) ==
  /\ pc[r] = "written"
  /\ Goto(r, "succeeded")
  /\ ingested' = ingested \cup
       (IF \E a, b \in run[r].metas : a # b THEN run[r].metas ELSE {})
  /\ run' = [run EXCEPT ![r].metas = {}]
  /\ UNCHANGED <<remoteVars, source, files, purged, row, boundVars>>

\* The second step of the workflow, left out when file_count is 0; with it
\* the workflow succeeds.
Ingest(r) ==
  /\ pc[r] = "written"
  /\ Goto(r, "succeeded")
  /\ ingested' = ingested \cup run[r].metas
  /\ run' = [run EXCEPT ![r].metas = {}]
  /\ UNCHANGED <<remoteVars, source, files, purged, row, boundVars>>

\* An item that is gone fails its download, and that the whole collect.
Gone(r) ==
  /\ pc[r] = "download"
  /\ \E e \in run[r].todo : ~e.deleted /\ ~alive[e.item]
  /\ Goto(r, "idle")
  /\ run' = [run EXCEPT ![r] = NoRun]
  /\ UNCHANGED <<remoteVars, source, docVars, row, boundVars>>

\* A download that fails is passed over.
FailPastTheItem(r) ==
  /\ troubles < MaxTroubles
  /\ troubles' = troubles + 1
  /\ \/ /\ pc[r] = "download"
        /\ \E e \in run[r].todo :
             run' = [run EXCEPT ![r].todo = @ \ {e}]
        /\ UNCHANGED <<pc, row>>
     \/ /\ pc[r] \in {"list", "written", "succeeded", "patch", "write"}
        /\ Goto(r, "idle")
        /\ run' = [run EXCEPT ![r] = NoRun]
        /\ row' = [row EXCEPT ![r] = None]
  /\ UNCHANGED <<remoteVars, source, docVars, driver>>

\* A request, a second answer 429, a step, a pod or the reconciler fails:
\* nothing is tried again, and the cursor stays.
Fail(r) ==
  /\ troubles < MaxTroubles
  /\ pc[r] # "idle"
  /\ troubles' = troubles + 1
  /\ Goto(r, "idle")
  /\ run' = [run EXCEPT ![r] = NoRun]
  /\ row' = [row EXCEPT ![r] = None]
  /\ UNCHANGED <<remoteVars, source, docVars, driver>>

-----------------------------------------------------------------------------
(* The cursor and the console's edits: read, and write the whole row.      *)

\* patch_source_config reads the config.  A delta run sets its cursor, a full
\* one removes it.
PatchSourceConfig(r) ==
  /\ pc[r] = "succeeded"
  /\ \/ /\ run[r].mode = "delta" /\ run[r].link = NoLink
        /\ Goto(r, "idle")
        /\ run' = [run EXCEPT ![r] = NoRun]
     \/ /\ run[r].mode = "full" \/ run[r].link # NoLink
        /\ Goto(r, "patch")
        /\ run' = [run EXCEPT ![r] =
             [NoRun EXCEPT !.config = [source.config EXCEPT
                                         !.link = run[r].link]]]
  /\ UNCHANGED <<remoteVars, source, docVars, row, boundVars>>

\* update_source reads the row for what its caller leaves out.
UpdateSource(w, config, enabled) ==
  /\ Goto(w, "write")
  /\ row' = [row EXCEPT ![w] = [config |-> config, enabled |-> enabled]]

PatchUpdate(r) ==
  /\ pc[r] = "patch"
  /\ UpdateSource(r, run[r].config, source.enabled)
  /\ run' = [run EXCEPT ![r] = NoRun]
  /\ UNCHANGED <<remoteVars, source, docVars, boundVars>>

\* The console shows the row; a folder is set in the config it shows.
Open ==
  /\ troubles < MaxTroubles /\ pc[console] = "idle"
  /\ troubles' = troubles + 1
  /\ Goto(console, "edit")
  /\ row' = [row EXCEPT ![console] = source]
  /\ UNCHANGED <<remoteVars, source, docVars, run, driver>>

EditFolder(f) ==
  /\ pc[console] = "edit"
  /\ UpdateSource(console, [row[console].config EXCEPT !.folder = f],
                  source.enabled)
  /\ UNCHANGED <<remoteVars, source, docVars, run, boundVars>>

EditEnabled(b) ==
  /\ troubles < MaxTroubles /\ pc[console] = "idle"
  /\ troubles' = troubles + 1
  /\ UpdateSource(console, source.config, b)
  /\ UNCHANGED <<remoteVars, source, docVars, run, driver>>

Write(w) ==
  /\ pc[w] = "write"
  /\ source' = row[w]
  /\ row' = [row EXCEPT ![w] = None]
  /\ Goto(w, "idle")
  /\ UNCHANGED <<remoteVars, docVars, run, boundVars>>

-----------------------------------------------------------------------------
RunStep(r) ==
  \/ ListDelta(r) \/ ListSharePoint(r) \/ ListGDrive(r) \/ ListOneDrive(r)
  \/ \E i \in Item : StoreRaw(r, i) \/ PurgeDeleted(r, i)
  \/ WriteBatchManifest(r) \/ Ingest(r) \/ Gone(r)
  \/ PatchSourceConfig(r) \/ PatchUpdate(r)

Next ==
  \/ \E i \in Item : Change(i) \/ Delete(i)
  \/ \E r \in Run : \/ \E mode \in {"delta", "full"} : RunCollect(r, mode)
                    \/ RunStep(r) \/ Fail(r)
  \/ Open
  \/ \E f \in Folder : EditFolder(f)
  \/ \E b \in BOOLEAN : EditEnabled(b)
  \/ \E w \in Writer : Write(w)

Spec == Init /\ [][Next]_vars

\* The schedule starts runs of its own mode again and again, and pods and
\* the reconciler go on.  Nobody has to edit, nothing has to change or fail.
FairSpec ==
  /\ Spec
  /\ \A r \in Run : /\ WF_vars(RunCollect(r, "delta"))
                    /\ WF_vars(RunStep(r) \/ Write(r))

-----------------------------------------------------------------------------
Handed(i) == Now(i) \in ingested /\ Now(i) \in files

\* A source's cursor never runs ahead of what was collected: a file the
\* cursor's next listing will not name again is stored and was handed to an
\* ingest, whatever runs overlapped, failed or wrote the row over another.
CursorCovered ==
  \A i \in Item :
    alive[i] /\ FolderOf[i] = source.config.link.folder
             /\ changed[i] <= source.config.link.at => Handed(i)

\* A file that was deleted is purged by the time the cursor is past its
\* deletion: no later listing names it.
DeletionCovered ==
  \A d \in ingested :
    ~alive[d.item] /\ FolderOf[d.item] = source.config.link.folder
                   /\ changed[d.item] <= source.config.link.at
      => d \in purged

\* The source is on, set to the item's folder, and its cursor, if it has
\* one, is of that folder.
Followed(i) ==
  /\ source.enabled /\ alive[i]
  /\ source.config.folder = FolderOf[i]
  /\ source.config.link.folder \in {FolderOf[i], None}

\* What a followed folder holds is handed to an ingest in the end, in its
\* last content, though runs fail and overlap.
ChangeCollected ==
  \A i \in Item : <>[]Followed(i) => []<>Handed(i)
=============================================================================
