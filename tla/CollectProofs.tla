--------------------------- MODULE CollectProofs ----------------------------
(***************************************************************************)
(* The cursor of a source never runs ahead of what was collected, for any  *)
(* items, folders, runs, changes, edits and failures.                      *)
(*                                                                         *)
(* The property is about the cursor in the source's row only.  Cursors are *)
(* also on their way: in the config a run read or is about to write, in    *)
(* the row a run or the console is about to write, and in what a run was   *)
(* given with its listing.  Each of them must cover the same, the last     *)
(* with what the run has still to download or to hand to the ingest.  A    *)
(* change at the provider makes none of them wrong, since it gets a number *)
(* behind all of them.                                                     *)
(***************************************************************************)
EXTENDS Collect, TLAPS

\* What lies behind a cursor is ingested, or among the contents C, or among
\* the items E of a listing.
Covers(link, C, E) ==
  \A i \in Item :
    alive[i] /\ FolderOf[i] = link.folder /\ changed[i] <= link.at
      => Handed(i) \/ Now(i) \in C \/ [item |-> i, deleted |-> FALSE] \in E

RunState == [mode : {"delta", "full"}, config : Config \cup {None},
             todo : SUBSET [item : Item, deleted : BOOLEAN],
             metas : SUBSET Content, link : Link]

\* A row that may be, or become, the source's.
RowFits(s) ==
  /\ s \in Row
  /\ s.config.link.at <= tick
  /\ Covers(s.config.link, {}, {})

\* What a run may hold at a label.
Fits(s, l) ==
  /\ s \in RunState
  /\ s.link.at <= tick
  /\ Covers(s.link, s.metas, s.todo)
  /\ s.metas \subseteq files
  /\ s.config # None =>
       s.config.link.at <= tick /\ Covers(s.config.link, {}, {})
  /\ l \in {"list", "patch"} => s.config # None
  /\ l = "list" => s.link = NoLink
  /\ l \in {"written", "succeeded"} => s.todo = {}
  /\ l = "succeeded" => s.metas = {}

ItemsNumbered ==
  \A i \in Item : changed[i] <= tick /\ (alive[i] => changed[i] # 0)

RunsFit == \A r \in Run : Fits(run[r], pc[r])

RowsFit ==
  \A w \in Writer :
    /\ row[w] # None => RowFits(row[w])
    /\ pc[w] \in {"write", "edit"} => row[w] # None

CursorInv ==
  /\ TypeOK
  /\ ItemsNumbered
  /\ RowFits(source)
  /\ RunsFit
  /\ RowsFit

-----------------------------------------------------------------------------
(* Facts about cursors.                                                    *)

LEMMA LinkTyped == \A k \in Link : k.at \in 0..MaxChanges
BY ConstantsAssumption DEF Link, NoLink

LEMMA NoLinkCovers == \A C, E : Covers(NoLink, C, E)
BY ConstantsAssumption DEF Covers, NoLink

LEMMA NoLinkCoversNext == \A C, E : Covers(NoLink, C, E)'
BY ConstantsAssumption DEF Covers, NoLink

\* What was collected stays collected.
LEMMA CoversStays ==
  ASSUME TypeOK, UNCHANGED remoteVars, files \subseteq files',
         ingested \subseteq ingested', NEW k, NEW C, NEW E, Covers(k, C, E)
  PROVE  Covers(k, C, E)'
BY DEF Covers, Handed, Now, remoteVars

LEMMA NoRunFits ==
  ASSUME TypeOK, NEW l \in Labels \ {"list", "patch"}
  PROVE  Fits(NoRun, l)
<1>1. NoRun \in RunState
  BY DEF NoRun, RunState, Link
<1>2. tick \in Nat /\ NoRun.link.at = 0
  BY ConstantsAssumption DEF TypeOK, NoRun, NoLink
<1>3. Covers(NoRun.link, NoRun.metas, NoRun.todo)
  BY NoLinkCovers DEF NoRun
<1>4. NoRun.metas = {} /\ NoRun.todo = {} /\ NoRun.config = None
  BY DEF NoRun
<1>5. QED
  BY <1>1, <1>2, <1>3, <1>4 DEF Fits

-----------------------------------------------------------------------------
(* Steps of a run, and steps on the row.                                   *)

\* The run r comes to hold s at l.  It does not touch the source, and its row
\* at most to give it up.
RunOnly(r, s, l) ==
  /\ UNCHANGED <<remoteVars, source, driver>>
  /\ files \subseteq files' /\ ingested \subseteq ingested'
  /\ files' \subseteq Content /\ ingested' \subseteq files'
  /\ purged' \subseteq ingested' /\ troubles' \in 0..MaxTroubles
  /\ pc' = [pc EXCEPT ![r] = l] /\ run' = [run EXCEPT ![r] = s]
  /\ row' \in {row, [row EXCEPT ![r] = None]}

\* A writer w gets a row to write, or has written it; a run then holds nothing.
RowOnly(w) ==
  /\ UNCHANGED <<remoteVars, docVars, driver>>
  /\ troubles' \in 0..MaxTroubles
  /\ source' \in Row
  /\ \E l \in {"idle", "write", "edit"} :
       \E s \in Row \cup {None} :
         /\ pc' = [pc EXCEPT ![w] = l] /\ row' = [row EXCEPT ![w] = s]
         /\ l # "idle" => s # None
  /\ run' = run \/ (w \in Run /\ run' = [run EXCEPT ![w] = NoRun])

LEMMA RowFitsStays ==
  ASSUME CursorInv, UNCHANGED remoteVars, files \subseteq files',
         ingested \subseteq ingested', NEW s, RowFits(s)
  PROVE  RowFits(s)'
BY CoversStays DEF CursorInv, RowFits, remoteVars

LEMMA FitsStays ==
  ASSUME CursorInv, UNCHANGED remoteVars, files \subseteq files',
         ingested \subseteq ingested', NEW s, NEW l, Fits(s, l)
  PROVE  Fits(s, l)'
BY CoversStays DEF CursorInv, Fits, remoteVars

LEMMA RunKeeps ==
  ASSUME CursorInv, NEW r \in Run, NEW s, NEW l \in Labels \ {"write", "edit"},
         RunOnly(r, s, l), Fits(s, l)'
  PROVE  CursorInv'
<1>1. r \in Writer
  BY DEF Writer
<1>2. pc' = [pc EXCEPT ![r] = l]
  BY DEF RunOnly
<1>3. s \in RunState /\ run' = [run EXCEPT ![r] = s]
  BY DEF RunOnly, Fits
<1>4. TypeOK'
  <2>1. pc' \in [Writer -> Labels] /\ run' \in [Run -> RunState]
    BY <1>1, <1>2, <1>3 DEF CursorInv, TypeOK, RunState
  <2>2. row' \in [Writer -> Row \cup {None}]
    BY <1>1 DEF CursorInv, TypeOK, RunOnly
  <2>3. QED
    BY <2>1, <2>2 DEF CursorInv, TypeOK, RunOnly, RunState, remoteVars
<1>5. ItemsNumbered'
  BY DEF CursorInv, ItemsNumbered, RunOnly, remoteVars
<1>6. RowFits(source)'
  BY CoversStays DEF CursorInv, RowFits, RunOnly, remoteVars
<1>7. RunsFit'
  <2>1. SUFFICES ASSUME NEW q \in Run PROVE Fits(run[q], pc[q])'
    BY DEF RunsFit
  <2>2. CASE q = r
    <3>1. run'[q] = s /\ pc'[q] = l
      BY <1>1, <1>2, <1>3, <2>2 DEF CursorInv, TypeOK
    <3>2. QED
      BY <3>1
  <2>3. CASE q # r
    <3>1. run'[q] = run[q] /\ pc'[q] = pc[q]
      BY <1>2, <1>3, <2>3 DEF CursorInv, TypeOK, Writer
    <3>2. Fits(run[q], pc[q])
      BY DEF CursorInv, RunsFit
    <3>3. QED
      BY <3>1, <3>2, CoversStays DEF CursorInv, Fits, RunOnly, remoteVars
  <2>4. QED
    BY <2>2, <2>3
<1>8. RowsFit'
  <2>1. SUFFICES ASSUME NEW w \in Writer
                 PROVE  /\ row'[w] # None => RowFits(row[w])'
                        /\ pc'[w] \in {"write", "edit"} => row'[w] # None
    BY DEF RowsFit
  <2>2. row'[w] = row[w] \/ (w = r /\ row'[w] = None)
    BY DEF CursorInv, TypeOK, RunOnly
  <2>3. w # r => pc'[w] = pc[w]
    BY <1>2 DEF CursorInv, TypeOK
  <2>4. pc'[r] \notin {"write", "edit"}
    BY <1>1, <1>2 DEF CursorInv, TypeOK
  <2>5. row[w] # None => RowFits(row[w])
    BY DEF CursorInv, RowsFit
  <2>6. row'[w] # None => RowFits(row[w])'
    BY <2>2, <2>5, CoversStays DEF CursorInv, RowFits, RunOnly, remoteVars
  <2>7. pc'[w] \in {"write", "edit"} => row'[w] # None
    BY <2>2, <2>3, <2>4 DEF CursorInv, RowsFit
  <2>8. QED
    BY <2>6, <2>7
<1>9. QED
  BY <1>4, <1>5, <1>6, <1>7, <1>8 DEF CursorInv

LEMMA RowKeeps ==
  ASSUME CursorInv, NEW w \in Writer, RowOnly(w), RowFits(source)',
         row'[w] # None => RowFits(row[w])'
  PROVE  CursorInv'
<1>1. PICK l \in {"idle", "write", "edit"}, s \in Row \cup {None} :
        /\ pc' = [pc EXCEPT ![w] = l] /\ row' = [row EXCEPT ![w] = s]
        /\ l # "idle" => s # None
  BY DEF RowOnly
<1>2. NoRun \in RunState
  BY DEF NoRun, RunState, Link
<1>3. TypeOK'
  <2>1. pc' \in [Writer -> Labels]
    BY <1>1 DEF CursorInv, TypeOK, Labels
  <2>2. run' \in [Run -> RunState]
    BY <1>2 DEF CursorInv, TypeOK, RunState, RowOnly
  <2>3. row' \in [Writer -> Row \cup {None}]
    BY <1>1 DEF CursorInv, TypeOK
  <2>4. QED
    BY <2>1, <2>2, <2>3
    DEF CursorInv, TypeOK, RowOnly, RunState, remoteVars, docVars
<1>4. ItemsNumbered'
  BY DEF CursorInv, ItemsNumbered, RowOnly, remoteVars
<1>5. RunsFit'
  <2>1. SUFFICES ASSUME NEW q \in Run PROVE Fits(run[q], pc[q])'
    BY DEF RunsFit
  <2>2. q \in Writer /\ pc'[q] = IF q = w THEN l ELSE pc[q]
    BY <1>1 DEF CursorInv, TypeOK, Writer
  <2>3. CASE run'[q] = run[q]
    BY <2>2, <2>3, CoversStays
    DEF CursorInv, RunsFit, Fits, RowOnly, remoteVars, docVars
  <2>4. CASE run'[q] = NoRun /\ q = w
    BY <1>3, <2>2, <2>4, NoLinkCoversNext, NoRunFits
    DEF CursorInv, Fits, NoRun, RowOnly, remoteVars, docVars, Labels
  <2>5. QED
    BY <2>3, <2>4 DEF RowOnly, CursorInv, TypeOK
<1>6. RowsFit'
  <2>1. SUFFICES ASSUME NEW v \in Writer
                 PROVE  /\ row'[v] # None => RowFits(row[v])'
                        /\ pc'[v] \in {"write", "edit"} => row'[v] # None
    BY DEF RowsFit
  <2>2. CASE v = w
    BY <1>1, <2>2 DEF CursorInv, TypeOK
  <2>3. CASE v # w
    <3>1. row'[v] = row[v] /\ pc'[v] = pc[v]
      BY <1>1, <2>3 DEF CursorInv, TypeOK
    <3>2. QED
      BY <3>1, CoversStays
      DEF CursorInv, RowsFit, RowFits, RowOnly, remoteVars, docVars
  <2>4. QED
    BY <2>2, <2>3
<1>7. QED
  BY <1>3, <1>4, <1>5, <1>6 DEF CursorInv

-----------------------------------------------------------------------------
(* The provider.                                                           *)

\* A change gets the number behind every cursor there is, so that none covers
\* the item any more.
LEMMA NumberedAnew ==
  ASSUME CursorInv, NEW i \in Item, tick' = tick + 1,
         changed' = [changed EXCEPT ![i] = tick + 1],
         \A j \in Item \ {i} : alive'[j] = alive[j],
         UNCHANGED <<files, ingested>>,
         NEW k, NEW C, NEW E, k.at \in Nat, k.at <= tick, Covers(k, C, E)
  PROVE  Covers(k, C, E)' /\ k.at <= tick'
<1>1. tick \in Nat /\ \A j \in Item : changed[j] \in Nat
  BY ConstantsAssumption DEF CursorInv, TypeOK
<1>2. changed'[i] > k.at
  BY <1>1 DEF CursorInv, TypeOK
<1>3. \A j \in Item \ {i} : changed'[j] = changed[j]
  BY DEF CursorInv, TypeOK
<1>4. QED
  BY <1>1, <1>2, <1>3 DEF Covers, Handed, Now

LEMMA ProviderKeeps ==
  ASSUME CursorInv, NEW i \in Item, Change(i) \/ Delete(i)
  PROVE  CursorInv'
<1>1. /\ tick < MaxChanges /\ tick' = tick + 1
      /\ changed' = [changed EXCEPT ![i] = tick + 1]
      /\ alive' \in [Item -> BOOLEAN]
      /\ \A j \in Item \ {i} : alive'[j] = alive[j]
      /\ UNCHANGED <<source, docVars, pc, run, row, boundVars>>
  BY DEF CursorInv, TypeOK, Change, Delete
<1>2. tick \in Nat /\ MaxChanges \in Nat
  BY ConstantsAssumption DEF CursorInv, TypeOK
<1>3. TypeOK'
  BY <1>1, <1>2 DEF CursorInv, TypeOK, docVars, boundVars
<1>4. ItemsNumbered'
  BY <1>1, <1>2 DEF CursorInv, TypeOK, ItemsNumbered
<1>5. \A k \in Link : k.at \in Nat
  BY LinkTyped, ConstantsAssumption
<1>6. ASSUME NEW s, RowFits(s) PROVE RowFits(s)'
  <2>1. s.config.link \in Link
    BY <1>6 DEF RowFits, Row, Config
  <2>2. Covers(s.config.link, {}, {})' /\ s.config.link.at <= tick'
    BY <1>1, <1>5, <1>6, <2>1, NumberedAnew DEF RowFits, docVars
  <2>3. QED
    BY <1>6, <2>2 DEF RowFits
<1>7. ASSUME NEW s, NEW l, Fits(s, l) PROVE Fits(s, l)'
  <2>1. /\ s.link \in Link
        /\ s.config # None => s.config.link \in Link
    BY <1>7 DEF Fits, RunState, Config
  <2>2. Covers(s.link, s.metas, s.todo)' /\ s.link.at <= tick'
    BY <1>1, <1>5, <1>7, <2>1, NumberedAnew DEF Fits, docVars
  <2>3. s.config # None =>
          Covers(s.config.link, {}, {})' /\ s.config.link.at <= tick'
    BY <1>1, <1>5, <1>7, <2>1, NumberedAnew DEF Fits, docVars
  <2>4. QED
    BY <1>1, <1>7, <2>2, <2>3 DEF Fits, docVars
<1>8. RowFits(source)' /\ RunsFit' /\ RowsFit'
  BY <1>1, <1>6, <1>7 DEF CursorInv, RunsFit, RowsFit
<1>9. QED
  BY <1>3, <1>4, <1>8 DEF CursorInv

-----------------------------------------------------------------------------
(* The steps of a run.                                                     *)

\* Most steps leave what was collected alone.
LEMMA QuietKeeps ==
  ASSUME CursorInv, NEW r \in Run, NEW s, NEW l \in Labels \ {"write", "edit"},
         pc' = [pc EXCEPT ![r] = l], run' = [run EXCEPT ![r] = s],
         UNCHANGED <<remoteVars, source, docVars, row, boundVars>>,
         Fits(s, l)
  PROVE  CursorInv'
<1>1. RunOnly(r, s, l)
  BY DEF RunOnly, CursorInv, TypeOK, docVars, boundVars
<1>2. Fits(s, l)'
  BY FitsStays DEF docVars
<1>3. QED
  BY <1>1, <1>2, RunKeeps

LEMMA RunCollectKeeps ==
  ASSUME CursorInv, NEW r \in Run, NEW mode \in {"delta", "full"},
         RunCollect(r, mode)
  PROVE  CursorInv'
<1>1. PICK s : s = [NoRun EXCEPT !.mode = mode, !.config = source.config]
  OBVIOUS
<1>2. /\ pc' = [pc EXCEPT ![r] = "list"] /\ run' = [run EXCEPT ![r] = s]
      /\ UNCHANGED <<remoteVars, source, docVars, row, boundVars>>
  BY <1>1 DEF RunCollect, Goto
<1>3. source.config \in Config /\ s \in RunState
  BY <1>1 DEF CursorInv, TypeOK, Row, RunState, Link, NoRun
<1>4. /\ s.config = source.config /\ s.todo = {} /\ s.metas = {}
      /\ s.link = NoLink
  BY <1>1 DEF NoRun
<1>5. tick \in Nat /\ NoLink.at = 0
  BY ConstantsAssumption DEF CursorInv, TypeOK, NoLink
<1>6. Fits(s, "list")
  BY <1>3, <1>4, <1>5, NoLinkCovers, NoneAssumption
  DEF Fits, RowFits, CursorInv
<1>7. QED
  BY <1>2, <1>6, QuietKeeps DEF Labels

LEMMA ListDeltaKeeps ==
  ASSUME CursorInv, NEW r \in Run, ListDelta(r)
  PROVE  CursorInv'
<1>1. PICK config, from, k, todo, s :
        /\ config = run[r].config
        /\ from = IF config.link # NoLink THEN config.link
                  ELSE [folder |-> config.folder, at |-> 0]
        /\ k = [folder |-> from.folder, at |-> tick]
        /\ todo = {[item |-> i, deleted |-> ~alive[i]] : i \in
                     {j \in Item : /\ FolderOf[j] = from.folder
                                   /\ changed[j] > from.at
                                   /\ alive[j] \/ config.link # NoLink}}
        /\ s = [run[r] EXCEPT !.todo = todo, !.link = k, !.config = None]
  OBVIOUS
<1>2. /\ pc[r] = "list" /\ pc' = [pc EXCEPT ![r] = "download"]
      /\ run' = [run EXCEPT ![r] = s]
      /\ UNCHANGED <<remoteVars, source, docVars, row, boundVars>>
  BY <1>1 DEF ListDelta, Goto
<1>3. Fits(run[r], "list")
  BY <1>2 DEF CursorInv, RunsFit
<1>4. config \in Config /\ from.folder \in Folder
  BY <1>1, <1>3 DEF Fits, RunState, Config, Link
<1>5. from.at \in Nat /\ from.at <= tick /\ tick \in 0..MaxChanges
  BY <1>1, <1>3, <1>4, LinkTyped, ConstantsAssumption
  DEF Fits, Config, CursorInv, TypeOK
<1>6. k \in Link
  BY <1>1, <1>4, <1>5 DEF Link
<1>7. todo \subseteq [item : Item, deleted : BOOLEAN]
  <2>1. \A i \in Item : [item |-> i, deleted |-> ~alive[i]] \in
                           [item : Item, deleted : BOOLEAN]
    BY DEF CursorInv, TypeOK
  <2>2. QED
    BY <1>1, <2>1
<1>8. /\ s \in RunState
      /\ s.todo = todo /\ s.link = k /\ s.config = None
      /\ s.metas = run[r].metas
  BY <1>1, <1>3, <1>6, <1>7 DEF Fits, RunState
<1>9. Covers(k, s.metas, todo)
  <2>1. SUFFICES ASSUME NEW i \in Item, alive[i], FolderOf[i] = from.folder,
                        changed[i] <= tick
                 PROVE  \/ Handed(i)
                        \/ [item |-> i, deleted |-> FALSE] \in todo
    BY <1>1 DEF Covers
  <2>2. CASE changed[i] > from.at
    BY <1>1, <2>1, <2>2
  <2>3. CASE ~(changed[i] > from.at)
    <3>1. changed[i] <= from.at /\ changed[i] # 0 /\ changed[i] \in Nat
      BY <1>5, <2>1, <2>3, ConstantsAssumption
      DEF CursorInv, TypeOK, ItemsNumbered
    <3>2. config.link # NoLink
      BY <1>1, <1>5, <3>1
    <3>3. Covers(config.link, {}, {})
      BY <1>1, <1>3, <1>4, NoneAssumption DEF Fits
    <3>4. QED
      BY <1>1, <2>1, <3>1, <3>2, <3>3 DEF Covers
  <2>4. QED
    BY <2>2, <2>3
<1>10. Fits(s, "download")
  <2>1. s.link.at <= tick /\ s.metas \subseteq files
    BY <1>1, <1>3, <1>5, <1>8 DEF Fits
  <2>2. QED
    BY <1>8, <1>9, <2>1 DEF Fits
<1>11. QED
  BY <1>2, <1>10, QuietKeeps DEF Labels

LEMMA ListFolderKeeps ==
  ASSUME CursorInv, NEW r \in Run, pc[r] = "list", ListFolder(r)
  PROVE  CursorInv'
<1>1. PICK todo, s :
        /\ todo = {[item |-> i, deleted |-> FALSE] : i \in
                     {j \in Item : /\ FolderOf[j] = run[r].config.folder
                                   /\ alive[j]}}
        /\ s = [run[r] EXCEPT !.todo = todo, !.config = None]
  OBVIOUS
<1>2. /\ pc' = [pc EXCEPT ![r] = "download"]
      /\ run' = [run EXCEPT ![r] = s]
      /\ UNCHANGED <<remoteVars, source, docVars, row, boundVars>>
  BY <1>1 DEF ListFolder, Goto
<1>3. Fits(run[r], "list")
  BY DEF CursorInv, RunsFit
<1>4. todo \subseteq [item : Item, deleted : BOOLEAN]
  <2>1. \A i \in Item : [item |-> i, deleted |-> FALSE] \in
                           [item : Item, deleted : BOOLEAN]
    OBVIOUS
  <2>2. QED
    BY <1>1, <2>1
<1>5. /\ s \in RunState
      /\ s.todo = todo /\ s.link = run[r].link /\ s.config = None
      /\ s.metas = run[r].metas
  BY <1>1, <1>3, <1>4 DEF Fits, RunState
<1>6. Fits(s, "download")
  BY <1>3, <1>5, NoLinkCovers DEF Fits
<1>7. QED
  BY <1>2, <1>6, QuietKeeps DEF Labels

\* An item that is downloaded has been changed behind the cursor, or is among
\* what the run has collected.
LEMMA StoreRawKeeps ==
  ASSUME CursorInv, NEW r \in Run, NEW i \in Item, StoreRaw(r, i)
  PROVE  CursorInv'
<1>1. PICK s : s = [run[r] EXCEPT
                      !.todo = @ \ {[item |-> i, deleted |-> FALSE]},
                      !.metas = @ \cup {Now(i)}]
  OBVIOUS
<1>2. /\ pc[r] = "download" /\ alive[i]
      /\ pc' = [pc EXCEPT ![r] = "download"] /\ run' = [run EXCEPT ![r] = s]
      /\ files' = files \cup {Now(i)}
      /\ UNCHANGED <<remoteVars, source, ingested, purged, row, boundVars>>
  BY <1>1 DEF StoreRaw, CursorInv, TypeOK
<1>3. Fits(run[r], "download")
  BY <1>2 DEF CursorInv, RunsFit
<1>4. Now(i) \in Content
  BY <1>2, ConstantsAssumption
  DEF Now, Content, CursorInv, TypeOK, ItemsNumbered
<1>5. /\ s \in RunState /\ s.link = run[r].link /\ s.config = run[r].config
      /\ s.todo = run[r].todo \ {[item |-> i, deleted |-> FALSE]}
      /\ s.metas = run[r].metas \cup {Now(i)}
  BY <1>1, <1>3, <1>4 DEF Fits, RunState
<1>6. RunOnly(r, s, "download")
  BY <1>2, <1>4 DEF RunOnly, CursorInv, TypeOK, boundVars
<1>7. Covers(s.link, s.metas, s.todo)
  BY <1>3, <1>5 DEF Fits, Covers
<1>8. s.metas \subseteq files'
  BY <1>2, <1>3, <1>5 DEF Fits
<1>9. Fits(s, "download")'
  BY <1>2, <1>3, <1>5, <1>7, <1>8, CoversStays
  DEF Fits, CursorInv, remoteVars
<1>10. QED
  BY <1>6, <1>9, RunKeeps DEF Labels

LEMMA PurgeDeletedKeeps ==
  ASSUME CursorInv, NEW r \in Run, NEW i \in Item, PurgeDeleted(r, i)
  PROVE  CursorInv'
<1>1. PICK s : s = [run[r] EXCEPT
                      !.todo = @ \ {[item |-> i, deleted |-> TRUE]}]
  OBVIOUS
<1>2. /\ pc[r] = "download"
      /\ pc' = [pc EXCEPT ![r] = "download"] /\ run' = [run EXCEPT ![r] = s]
      /\ purged' \subseteq ingested
      /\ UNCHANGED <<remoteVars, source, files, ingested, row, boundVars>>
  BY <1>1 DEF PurgeDeleted, CursorInv, TypeOK
<1>3. Fits(run[r], "download")
  BY <1>2 DEF CursorInv, RunsFit
<1>4. /\ s \in RunState /\ s.link = run[r].link /\ s.config = run[r].config
      /\ s.todo = run[r].todo \ {[item |-> i, deleted |-> TRUE]}
      /\ s.metas = run[r].metas
  BY <1>1, <1>3 DEF Fits, RunState
<1>5. RunOnly(r, s, "download")
  BY <1>2 DEF RunOnly, CursorInv, TypeOK, boundVars
<1>6. Covers(s.link, s.metas, s.todo)
  <2>1. \A j \in Item : [item |-> j, deleted |-> FALSE] #
                          [item |-> i, deleted |-> TRUE]
    OBVIOUS
  <2>2. QED
    BY <1>3, <1>4, <2>1 DEF Fits, Covers
<1>7. Fits(s, "download")
  BY <1>3, <1>4, <1>6 DEF Fits
<1>8. Fits(s, "download")'
  BY <1>2, <1>7, FitsStays
<1>9. QED
  BY <1>5, <1>8, RunKeeps DEF Labels

LEMMA WriteBatchManifestKeeps ==
  ASSUME CursorInv, NEW r \in Run, WriteBatchManifest(r)
  PROVE  CursorInv'
<1>1. /\ pc[r] = "download" /\ run[r].todo = {}
      /\ pc' = [pc EXCEPT ![r] = "written"]
      /\ run' = [run EXCEPT ![r] = run[r]]
      /\ UNCHANGED <<remoteVars, source, docVars, row, boundVars>>
  BY DEF WriteBatchManifest, Goto, CursorInv, TypeOK
<1>2. Fits(run[r], "written")
  BY <1>1 DEF CursorInv, RunsFit, Fits
<1>3. QED
  BY <1>1, <1>2, QuietKeeps DEF Labels

\* What the run had collected is handed over, and the cursor covers it.
LEMMA IngestKeeps ==
  ASSUME CursorInv, NEW r \in Run, Ingest(r)
  PROVE  CursorInv'
<1>1. PICK s : s = [run[r] EXCEPT !.metas = {}]
  OBVIOUS
<1>2. /\ pc[r] = "written"
      /\ pc' = [pc EXCEPT ![r] = "succeeded"] /\ run' = [run EXCEPT ![r] = s]
      /\ ingested' = ingested \cup run[r].metas
      /\ UNCHANGED <<remoteVars, source, files, purged, row, boundVars>>
  BY <1>1 DEF Ingest, Goto
<1>3. Fits(run[r], "written")
  BY <1>2 DEF CursorInv, RunsFit
<1>4. /\ s \in RunState /\ s.link = run[r].link /\ s.config = run[r].config
      /\ s.todo = {} /\ s.metas = {}
  BY <1>1, <1>3 DEF Fits, RunState
<1>5. run[r].metas \subseteq files /\ run[r].todo = {}
  BY <1>3 DEF Fits
<1>6. RunOnly(r, s, "succeeded")
  BY <1>2, <1>5 DEF RunOnly, CursorInv, TypeOK, boundVars
<1>7. Covers(s.link, {}, {})'
  BY <1>2, <1>3, <1>4, <1>5
  DEF Fits, Covers, Handed, Now, remoteVars
<1>8. s.config # None => Covers(s.config.link, {}, {})'
  BY <1>2, <1>3, <1>4, CoversStays DEF Fits, CursorInv
<1>9. Fits(s, "succeeded")'
  BY <1>2, <1>3, <1>4, <1>7, <1>8 DEF Fits, remoteVars
<1>10. QED
  BY <1>6, <1>9, RunKeeps DEF Labels

LEMMA GivenUpKeeps ==
  ASSUME CursorInv, NEW r \in Run, Gone(r) \/ Fail(r)
  PROVE  CursorInv'
<1>1. /\ pc' = [pc EXCEPT ![r] = "idle"] /\ run' = [run EXCEPT ![r] = NoRun]
      /\ row' \in {row, [row EXCEPT ![r] = None]}
      /\ troubles' \in 0..MaxTroubles
      /\ UNCHANGED <<remoteVars, source, docVars, driver>>
  BY ConstantsAssumption
  DEF Gone, Fail, Goto, CursorInv, TypeOK, boundVars
<1>2. RunOnly(r, NoRun, "idle")
  BY <1>1 DEF RunOnly, CursorInv, TypeOK, docVars
<1>3. Fits(NoRun, "idle")
  BY NoRunFits DEF CursorInv, Labels
<1>4. Fits(NoRun, "idle")'
  BY <1>1, <1>3, FitsStays DEF docVars
<1>5. QED
  BY <1>2, <1>4, RunKeeps DEF Labels

-----------------------------------------------------------------------------
(* The cursor and the row.                                                 *)

LEMMA PatchSourceConfigKeeps ==
  ASSUME CursorInv, NEW r \in Run, PatchSourceConfig(r)
  PROVE  CursorInv'
<1>1. /\ pc[r] = "succeeded"
      /\ UNCHANGED <<remoteVars, source, docVars, row, boundVars>>
  BY DEF PatchSourceConfig
<1>2. CASE /\ pc' = [pc EXCEPT ![r] = "idle"]
           /\ run' = [run EXCEPT ![r] = NoRun]
  <2>1. Fits(NoRun, "idle")
    BY NoRunFits DEF CursorInv, Labels
  <2>2. QED
    BY <1>1, <1>2, <2>1, QuietKeeps DEF Labels
<1>3. CASE /\ pc' = [pc EXCEPT ![r] = "patch"]
           /\ run' = [run EXCEPT ![r] =
                [NoRun EXCEPT !.config = [source.config EXCEPT
                                            !.link = run[r].link]]]
  <2>1. PICK c, s : /\ c = [source.config EXCEPT !.link = run[r].link]
                    /\ s = [NoRun EXCEPT !.config = c]
    OBVIOUS
  <2>2. Fits(run[r], "succeeded")
    BY <1>1 DEF CursorInv, RunsFit
  <2>3. c \in Config /\ c.link = run[r].link
    BY <2>1, <2>2 DEF Fits, RunState, CursorInv, TypeOK, Row, Config
  <2>4. /\ s \in RunState /\ s.config = c /\ s.todo = {} /\ s.metas = {}
        /\ s.link = NoLink
    BY <2>1, <2>3 DEF NoRun, RunState, Link
  <2>5. Covers(c.link, {}, {}) /\ c.link.at <= tick
    BY <2>2, <2>3 DEF Fits
  <2>6. tick \in Nat /\ NoLink.at = 0
    BY ConstantsAssumption DEF CursorInv, TypeOK, NoLink
  <2>7. Fits(s, "patch")
    BY <2>3, <2>4, <2>5, <2>6, NoLinkCovers, NoneAssumption DEF Fits
  <2>8. QED
    BY <1>1, <1>3, <2>1, <2>7, QuietKeeps DEF Labels
<1>4. QED
  BY <1>2, <1>3 DEF PatchSourceConfig, Goto

\* The row w writes has a config whose cursor covers what it must.
LEMMA RowTakenKeeps ==
  ASSUME CursorInv, NEW w \in Writer, NEW s, RowFits(s),
         NEW l \in {"write", "edit"},
         pc' = [pc EXCEPT ![w] = l], row' = [row EXCEPT ![w] = s],
         run' = run \/ (w \in Run /\ run' = [run EXCEPT ![w] = NoRun]),
         troubles' \in 0..MaxTroubles,
         UNCHANGED <<remoteVars, source, docVars, driver>>
  PROVE  CursorInv'
<1>1. s \in Row /\ s # None
  BY NoneAssumption DEF RowFits
<1>2. RowOnly(w)
  BY <1>1 DEF RowOnly, CursorInv, TypeOK
<1>3. row'[w] = s
  BY DEF CursorInv, TypeOK
<1>4. RowFits(source)' /\ RowFits(s)'
  BY RowFitsStays DEF CursorInv, docVars
<1>5. QED
  BY <1>2, <1>3, <1>4, RowKeeps

LEMMA PatchUpdateKeeps ==
  ASSUME CursorInv, NEW r \in Run, PatchUpdate(r)
  PROVE  CursorInv'
<1>1. PICK s : s = [config |-> run[r].config, enabled |-> source.enabled]
  OBVIOUS
<1>2. /\ pc[r] = "patch" /\ r \in Writer
      /\ pc' = [pc EXCEPT ![r] = "write"] /\ row' = [row EXCEPT ![r] = s]
      /\ run' = [run EXCEPT ![r] = NoRun]
      /\ UNCHANGED <<remoteVars, source, docVars, boundVars>>
  BY <1>1 DEF PatchUpdate, UpdateSource, Goto, Writer
<1>3. Fits(run[r], "patch")
  BY <1>2 DEF CursorInv, RunsFit
<1>4. run[r].config \in Config
  BY <1>3 DEF Fits, RunState
<1>5. RowFits(s)
  BY <1>1, <1>3, <1>4 DEF Fits, RowFits, Row, CursorInv, TypeOK
<1>6. troubles' \in 0..MaxTroubles
  BY <1>2 DEF CursorInv, TypeOK, boundVars
<1>7. QED
  BY <1>2, <1>5, <1>6, RowTakenKeeps DEF boundVars

LEMMA OpenKeeps ==
  ASSUME CursorInv, Open
  PROVE  CursorInv'
<1>1. troubles' \in 0..MaxTroubles
  BY ConstantsAssumption DEF Open, CursorInv, TypeOK
<1>2. QED
  BY <1>1, RowTakenKeeps DEF Open, Goto, Writer, CursorInv

LEMMA EditFolderKeeps ==
  ASSUME CursorInv, NEW f \in Folder, EditFolder(f)
  PROVE  CursorInv'
<1>1. PICK c, s : /\ c = [row[console].config EXCEPT !.folder = f]
                  /\ s = [config |-> c, enabled |-> source.enabled]
  OBVIOUS
<1>2. /\ pc[console] = "edit" /\ console \in Writer
      /\ pc' = [pc EXCEPT ![console] = "write"]
      /\ row' = [row EXCEPT ![console] = s]
      /\ UNCHANGED <<remoteVars, source, docVars, run, boundVars>>
  BY <1>1 DEF EditFolder, UpdateSource, Goto, Writer
<1>3. RowFits(row[console])
  BY <1>2 DEF CursorInv, RowsFit
<1>4. c \in Config /\ c.link = row[console].config.link
  BY <1>1, <1>3 DEF RowFits, Row, Config
<1>5. RowFits(s)
  BY <1>1, <1>3, <1>4 DEF RowFits, Row, CursorInv, TypeOK
<1>6. troubles' \in 0..MaxTroubles
  BY <1>2 DEF CursorInv, TypeOK, boundVars
<1>7. QED
  BY <1>2, <1>5, <1>6, RowTakenKeeps DEF boundVars

LEMMA EditEnabledKeeps ==
  ASSUME CursorInv, NEW b \in BOOLEAN, EditEnabled(b)
  PROVE  CursorInv'
<1>1. PICK s : s = [config |-> source.config, enabled |-> b]
  OBVIOUS
<1>2. /\ console \in Writer
      /\ pc' = [pc EXCEPT ![console] = "write"]
      /\ row' = [row EXCEPT ![console] = s]
      /\ UNCHANGED <<remoteVars, source, docVars, run, driver>>
  BY <1>1 DEF EditEnabled, UpdateSource, Goto, Writer
<1>3. RowFits(s)
  BY <1>1 DEF RowFits, Row, CursorInv, TypeOK
<1>4. troubles' \in 0..MaxTroubles
  BY ConstantsAssumption DEF EditEnabled, CursorInv, TypeOK
<1>5. QED
  BY <1>2, <1>3, <1>4, RowTakenKeeps

LEMMA WriteKeeps ==
  ASSUME CursorInv, NEW w \in Writer, Write(w)
  PROVE  CursorInv'
<1>1. /\ pc[w] = "write" /\ source' = row[w]
      /\ pc' = [pc EXCEPT ![w] = "idle"] /\ row' = [row EXCEPT ![w] = None]
      /\ UNCHANGED <<remoteVars, docVars, run, boundVars>>
  BY DEF Write, Goto
<1>2. RowFits(row[w])
  BY <1>1 DEF CursorInv, RowsFit
<1>3. RowOnly(w)
  BY <1>1, <1>2 DEF RowOnly, RowFits, CursorInv, TypeOK, boundVars
<1>4. RowFits(source)' /\ row'[w] = None
  BY <1>1, <1>2, CoversStays
  DEF RowFits, CursorInv, TypeOK, remoteVars, docVars
<1>5. QED
  BY <1>3, <1>4, RowKeeps

-----------------------------------------------------------------------------
(* The invariant, and what follows from it.                                *)

LEMMA Start ==
  ASSUME Init
  PROVE  CursorInv
<1>1. TypeOK
  <2>1. 0 \in 0..MaxChanges /\ 0 \in 0..MaxTroubles
    BY ConstantsAssumption
  <2>2. NoRun \in RunState
    BY DEF NoRun, RunState, Link
  <2>3. source \in Row
    <3>1. {FolderOf[i] : i \in Item} \subseteq Folder
      BY ConstantsAssumption
    <3>2. QED
      BY <3>1 DEF Init, Row, Config, Link
  <2>4. QED
    BY <2>1, <2>2, <2>3 DEF Init, TypeOK, RunState, Labels
<1>2. ItemsNumbered
  <2>1. \A i \in Item : ~alive[i]
    BY DEF Init
  <2>2. \A i \in Item : changed[i] <= tick
    <3>1. changed = [i \in Item |-> 0] /\ tick = 0 /\ 0 <= 0
      BY DEF Init
    <3>2. QED
      BY <3>1, Zenon
  <2>3. QED
    BY <2>1, <2>2, Zenon DEF ItemsNumbered
<1>3. source \in Row /\ source.config.link = NoLink
  BY <1>1 DEF Init, TypeOK
<1>4. RowFits(source)
  BY <1>3, NoLinkCovers, ConstantsAssumption DEF Init, RowFits, NoLink
<1>5. RunsFit
  BY <1>1, NoRunFits DEF Init, RunsFit, Writer, Labels
<1>6. RowsFit
  BY DEF Init, RowsFit
<1>7. QED
  BY <1>1, <1>2, <1>4, <1>5, <1>6 DEF CursorInv

LEMMA StutterKeeps ==
  ASSUME CursorInv, UNCHANGED vars
  PROVE  CursorInv'
<1>1. /\ TypeOK' /\ ItemsNumbered'
  BY DEF CursorInv, TypeOK, ItemsNumbered, vars, remoteVars, docVars, boundVars
<1>2. RowFits(source)' /\ RowsFit'
  BY RowFitsStays DEF CursorInv, RowsFit, vars, docVars
<1>3. RunsFit'
  BY FitsStays DEF CursorInv, RunsFit, vars, docVars
<1>4. QED
  BY <1>1, <1>2, <1>3 DEF CursorInv

LEMMA RunStepKeeps ==
  ASSUME CursorInv, NEW r \in Run, RunStep(r)
  PROVE  CursorInv'
<1>1. CASE ListDelta(r)
  BY <1>1, ListDeltaKeeps
<1>2. CASE ListSharePoint(r) \/ ListGDrive(r) \/ ListOneDrive(r)
  BY <1>2, ListFolderKeeps DEF ListSharePoint, ListGDrive, ListOneDrive
<1>3. CASE \E i \in Item : StoreRaw(r, i) \/ PurgeDeleted(r, i)
  BY <1>3, StoreRawKeeps, PurgeDeletedKeeps
<1>4. CASE WriteBatchManifest(r)
  BY <1>4, WriteBatchManifestKeeps
<1>5. CASE Ingest(r)
  BY <1>5, IngestKeeps
<1>6. CASE Gone(r)
  BY <1>6, GivenUpKeeps
<1>7. CASE PatchSourceConfig(r)
  BY <1>7, PatchSourceConfigKeeps
<1>8. CASE PatchUpdate(r)
  BY <1>8, PatchUpdateKeeps
<1>9. QED
  BY <1>1, <1>2, <1>3, <1>4, <1>5, <1>6, <1>7, <1>8 DEF RunStep

LEMMA NextKeeps ==
  ASSUME CursorInv, [Next]_vars
  PROVE  CursorInv'
<1>1. CASE \E i \in Item : Change(i) \/ Delete(i)
  BY <1>1, ProviderKeeps
<1>2. CASE \E r \in Run : \E mode \in {"delta", "full"} : RunCollect(r, mode)
  BY <1>2, RunCollectKeeps
<1>3. CASE \E r \in Run : RunStep(r)
  BY <1>3, RunStepKeeps
<1>4. CASE \E r \in Run : Fail(r)
  BY <1>4, GivenUpKeeps
<1>5. CASE Open
  BY <1>5, OpenKeeps
<1>6. CASE \E f \in Folder : EditFolder(f)
  BY <1>6, EditFolderKeeps
<1>7. CASE \E b \in BOOLEAN : EditEnabled(b)
  BY <1>7, EditEnabledKeeps
<1>8. CASE \E w \in Writer : Write(w)
  BY <1>8, WriteKeeps
<1>9. CASE UNCHANGED vars
  BY <1>9, StutterKeeps
<1>10. QED
  BY <1>1, <1>2, <1>3, <1>4, <1>5, <1>6, <1>7, <1>8, <1>9 DEF Next

\* Every cursor, in the row or on its way to it, covers only what was
\* collected, together with what its run still holds.
THEOREM CursorInvariance == Spec => []CursorInv
<1>1. Init => CursorInv
  BY Start
<1>2. CursorInv /\ [Next]_vars => CursorInv'
  BY NextKeeps
<1>3. QED
  BY <1>1, <1>2, PTL DEF Spec

\* The state of a collection keeps its type.
THEOREM CollectTyped == Spec => []TypeOK
<1>1. CursorInv => TypeOK
  BY DEF CursorInv
<1>2. QED
  BY <1>1, CursorInvariance, PTL

\* A source's cursor never runs ahead of what was collected.
THEOREM CursorNeverAhead == Spec => []CursorCovered
<1>1. CursorInv => CursorCovered
  BY DEF CursorInv, RowFits, Covers, CursorCovered
<1>2. QED
  BY <1>1, CursorInvariance, PTL
=============================================================================
