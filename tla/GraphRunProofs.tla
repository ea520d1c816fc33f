--------------------------- MODULE GraphRunProofs ---------------------------
(***************************************************************************)
(* Two safety properties of GraphRun, for any batches, runs, agents and    *)
(* purges.                                                                 *)
(*                                                                         *)
(* An entity's row is never there before its vertex: a run writes rows     *)
(* when it is through with its vertices, and a vertex that was written     *)
(* stays.  So it is enough to know, of each run in between, that whatever  *)
(* its agent found has its vertex, or is what the run has still to write.  *)
(*                                                                         *)
(* A batch is indexed_graph only with what its run found: by induction     *)
(* over IInv, which says how far every run has come that is alone with its *)
(* batch.  Most of a step is the same for all actions: the other runs and  *)
(* the batches that are settled lose nothing as long as the stores grow    *)
(* and the blobs that are rewritten are those of the run's own batch.      *)
(* StepKeeps says so once, and MovesKeep, GotoKeeps and PhaseKeeps for     *)
(* smaller and smaller steps; what is left for each action is how far the  *)
(* run itself has come.                                                    *)
(***************************************************************************)
EXTENDS GraphInvariant, SequenceTheorems, WellFoundedInduction, TLAPS

-----------------------------------------------------------------------------
(* Rows and vertices.                                                      *)

HasVertex(e) == verts[e] # None

\* What the steps below must know of the state's shape: a run under way has a
\* batch, and batches are not None.
Shaped ==
  /\ pc \in [Run -> Labels]
  /\ batch \in [Run -> Batch \cup {None}]
  /\ \A r \in Run : pc[r] # "idle" => batch[r] \in Batch
  /\ answer = [r \in Run |-> answer[r]] /\ todo = [r \in Run |-> todo[r]]
  /\ verts = [e \in Entity |-> verts[e]]
  /\ dropped \in BOOLEAN

\* What the run r found has its vertex, but for what it has still to write.
Written(r) ==
  /\ pc[r] = "entities" =>
       \A e \in answer[r].ents \cap Entity : e \in todo[r] \/ HasVertex(e)
  /\ pc[r] = "rows" => \A e \in answer[r].ents \cap Entity : HasVertex(e)

VertexInv ==
  /\ Shaped
  /\ RowHasVertex
  /\ ~dropped => \A r \in Run : Written(r)

\* A run that is between its vertices and its rows stays where it is, or
\* leaves both behind.
Apart == \A r \in Run : pc'[r] \in {"entities", "rows"} =>
           pc'[r] = pc[r] /\ answer'[r] = answer[r] /\ todo'[r] = todo[r]

VerticesStay ==
  /\ rows' = rows /\ dropped' = dropped
  /\ \A e \in Entity : HasVertex(e) => HasVertex(e)'

-----------------------------------------------------------------------------
LEMMA ApartKeeps ==
  ASSUME VertexInv, Shaped', Apart, VerticesStay
  PROVE  VertexInv'
<1>1. dropped' = dropped /\ rows' = rows
  BY DEF VerticesStay
<1>2. RowHasVertex'
  BY <1>1 DEF VertexInv, RowHasVertex, VerticesStay, HasVertex
<1>3. ASSUME ~dropped', NEW r \in Run PROVE Written(r)'
  <2>1. Written(r)
    BY <1>1, <1>3 DEF VertexInv
  <2>2. QED
    BY <2>1 DEF Written, Apart, VerticesStay
<1>4. QED
  BY <1>2, <1>3 DEF VertexInv

\* A step of the run r that goes nowhere near its vertices and rows.
LEMMA StepApart ==
  ASSUME VertexInv, NEW r \in Run, NEW l \in Labels \ {"entities", "rows"},
         l # "idle" => batch'[r] \in Batch,
         NEW b \in Batch \cup {None}, NEW a, NEW t,
         pc' = [pc EXCEPT ![r] = l], batch' = [batch EXCEPT ![r] = b],
         answer' = [answer EXCEPT ![r] = a], todo' = [todo EXCEPT ![r] = t],
         verts' = [e \in Entity |-> verts'[e]],
         VerticesStay
  PROVE  VertexInv'
<1>1. Shaped'
  BY DEF VertexInv, Shaped, VerticesStay
<1>2. Apart
  BY DEF VertexInv, Shaped, Apart
<1>3. QED
  BY <1>1, <1>2, ApartKeeps

\* A run that ends.
LEMMA ResetKeeps ==
  ASSUME VertexInv, NEW r \in Run, Reset(r), UNCHANGED <<verts, rows, dropped>>
  PROVE  VertexInv'
<1>1. verts' = [e \in Entity |-> verts'[e]] /\ VerticesStay
  BY DEF VertexInv, Shaped, VerticesStay, HasVertex
<1>2. QED
  BY <1>1, StepApart DEF Reset, Goto, Labels

LEMMA RaiseKeeps ==
  ASSUME VertexInv, NEW r \in Run, Raise(r)
  PROVE  VertexInv'
BY ResetKeeps DEF Raise, storeVars, graphVars

\* A run that goes on elsewhere, at l, with t to do.
LEMMA ElsewhereKeeps ==
  ASSUME VertexInv, NEW r \in Run, NEW l \in Labels \ {"entities", "rows"},
         NEW t, pc[r] # "idle", pc' = [pc EXCEPT ![r] = l],
         todo' = [todo EXCEPT ![r] = t],
         UNCHANGED <<verts, rows, dropped, batch, answer>>
  PROVE  VertexInv'
<1>1. verts' = [e \in Entity |-> verts'[e]] /\ VerticesStay
  BY DEF VertexInv, Shaped, VerticesStay, HasVertex
<1>2. /\ batch' = [batch EXCEPT ![r] = batch[r]]
      /\ answer' = [answer EXCEPT ![r] = answer[r]]
      /\ batch[r] \in Batch /\ batch'[r] \in Batch
  BY DEF VertexInv, Shaped
<1>3. QED
  BY <1>1, <1>2, StepApart

-----------------------------------------------------------------------------
(* Submission and the space.                                               *)

LEMMA CheckIdleKeeps ==
  ASSUME VertexInv, NEW r \in Run, NEW b \in Batch, NEW noAgent \in BOOLEAN,
         CheckIdle(r, b, noAgent)
  PROVE  VertexInv'
<1>1. /\ pc' = [pc EXCEPT ![r] = "submit"] /\ batch' = [batch EXCEPT ![r] = b]
      /\ UNCHANGED <<verts, rows, dropped, answer, todo>>
  BY DEF CheckIdle, Goto, storeVars, graphVars
<1>2. verts' = [e \in Entity |-> verts'[e]] /\ VerticesStay
  BY <1>1 DEF VertexInv, Shaped, VerticesStay, HasVertex
<1>3. PICK a, t : a = answer[r] /\ t = todo[r]
  OBVIOUS
<1>4. /\ answer' = [answer EXCEPT ![r] = a]
      /\ todo' = [todo EXCEPT ![r] = t] /\ batch'[r] \in Batch
      /\ b \in Batch \cup {None} /\ "submit" \in Labels \ {"entities", "rows"}
  BY <1>1, <1>3 DEF VertexInv, Shaped, Labels
<1>5. QED
  BY <1>1, <1>2, <1>4, StepApart

LEMMA SpaceKeeps ==
  ASSUME VertexInv, NEW r \in Run, Submit(r) \/ EnsureSpace(r)
  PROVE  VertexInv'
<1>1. todo = [todo EXCEPT ![r] = todo[r]]
  BY DEF VertexInv, Shaped
<1>2. CASE Submit(r)
  BY <1>1, <1>2, ElsewhereKeeps
  DEF Submit, Goto, Labels, storeVars, graphVars, runVars
<1>3. CASE CreateSpace(r)
  BY <1>1, <1>3, ElsewhereKeeps
  DEF CreateSpace, Goto, Labels, runVars, histVars
<1>4. CASE SpaceUsable(r)
  BY <1>1, <1>4, ElsewhereKeeps
  DEF SpaceUsable, Goto, Labels, storeVars, graphVars, runVars, histVars
<1>5. CASE CreateSchema(r)
  BY <1>1, <1>5, ElsewhereKeeps, RaiseKeeps
  DEF CreateSchema, Goto, Labels, runVars, histVars
<1>6. CASE SchemaReady(r)
  BY <1>6, ElsewhereKeeps
  DEF SchemaReady, Goto, Labels, storeVars, graphVars, runVars, histVars
<1>7. CASE GiveUp(r)
  BY <1>7, RaiseKeeps DEF GiveUp
<1>8. QED
  BY <1>2, <1>3, <1>4, <1>5, <1>6, <1>7 DEF EnsureSpace

-----------------------------------------------------------------------------
(* The graph.                                                              *)

\* A vertex more.
LEMMA VertexStays ==
  ASSUME VertexInv, NEW e \in Entity, NEW d, d # None,
         verts' = [verts EXCEPT ![e] = IF @ = None THEN d ELSE @]
  PROVE  /\ verts' = [f \in Entity |-> verts'[f]]
         /\ HasVertex(e)'
         /\ \A f \in Entity : HasVertex(f) => HasVertex(f)'
BY DEF VertexInv, Shaped, HasVertex

LEMMA UpsertMentionKeeps ==
  ASSUME VertexInv, NEW r \in Run, NEW e \in Entity,
         UpsertMentioned(r, e) \/ UpsertMention(r, e)
  PROVE  VertexInv'
<1>1. PICK x :
      /\ pc[r] = "mention" /\ todo' = [todo EXCEPT ![r] = @ \ {x}]
      /\ \/ verts' = [verts EXCEPT ![e] = IF @ = None THEN "bare" ELSE @]
         \/ verts' = verts
      /\ UNCHANGED <<rows, dropped, pc, batch, answer>>
  BY DEF UpsertMentioned, UpsertMention, Statement, runVars, histVars
<1>2. Shaped' /\ VerticesStay
  <2>1. VerticesStay
    BY <1>1 DEF VertexInv, Shaped, VerticesStay, HasVertex
  <2>2. QED
    BY <1>1, <2>1 DEF VertexInv, Shaped
<1>3. Apart
  BY <1>1 DEF VertexInv, Shaped, Apart
<1>4. QED
  BY <1>2, <1>3, ApartKeeps

\* What the agent found is what the run has to write.
LEMMA ExtractSemanticKeeps ==
  ASSUME VertexInv, NEW r \in Run, NEW a, ExtractSemantic(r, a)
  PROVE  VertexInv'
<1>1. /\ pc[r] = "agent" /\ pc' = [pc EXCEPT ![r] = "entities"]
      /\ answer' = [answer EXCEPT ![r] = a]
      /\ todo' = [todo EXCEPT ![r] = a.ents]
      /\ UNCHANGED <<verts, rows, dropped, batch>>
  BY DEF ExtractSemantic, Goto, storeVars, graphVars, histVars
<1>2. Shaped'
  BY <1>1 DEF VertexInv, Shaped, Labels
<1>3. RowHasVertex'
  BY <1>1 DEF VertexInv, RowHasVertex
<1>4. ASSUME ~dropped', NEW q \in Run PROVE Written(q)'
  <2>1. CASE q = r
    BY <1>1, <2>1 DEF VertexInv, Shaped, Written
  <2>2. CASE q # r
    BY <1>1, <1>4, <2>2 DEF VertexInv, Shaped, Written, HasVertex
  <2>3. QED
    BY <2>1, <2>2
<1>5. QED
  BY <1>2, <1>3, <1>4 DEF VertexInv

\* What a run has no longer to write has its vertex.
LEMMA UpsertEntityKeeps ==
  ASSUME VertexInv, NEW r \in Run, NEW e \in Entity, UpsertEntity(r, e)
  PROVE  VertexInv'
<1>1. /\ pc[r] = "entities" /\ todo' = [todo EXCEPT ![r] = @ \ {e}]
      /\ verts' = [verts EXCEPT ![e] = IF @ = None THEN batch[r] ELSE @]
      /\ UNCHANGED <<rows, dropped, pc, batch, answer>>
  BY DEF UpsertEntity, Statement, runVars, histVars
<1>2. batch[r] # None
  BY <1>1, ConstantsAssumption DEF VertexInv, Shaped
<1>3. /\ verts' = [f \in Entity |-> verts'[f]] /\ HasVertex(e)'
      /\ \A f \in Entity : HasVertex(f) => HasVertex(f)'
  BY <1>1, <1>2, VertexStays
<1>4. Shaped'
  BY <1>1, <1>3 DEF VertexInv, Shaped
<1>5. RowHasVertex'
  BY <1>1, <1>3 DEF VertexInv, RowHasVertex, HasVertex
<1>6. ASSUME ~dropped', NEW q \in Run PROVE Written(q)'
  <2>1. Written(q)
    BY <1>1, <1>6 DEF VertexInv
  <2>2. todo'[q] = IF q = r THEN todo[q] \ {e} ELSE todo[q]
    BY <1>1 DEF VertexInv, Shaped
  <2>3. QED
    BY <1>1, <1>3, <2>1, <2>2 DEF Written
<1>7. QED
  BY <1>4, <1>5, <1>6 DEF VertexInv

LEMMA EndEntitiesKeeps ==
  ASSUME VertexInv, NEW r \in Run, EndEntities(r)
  PROVE  VertexInv'
<1>1. /\ pc[r] = "entities" /\ todo[r] = {} /\ pc' = [pc EXCEPT ![r] = "rows"]
      /\ UNCHANGED <<verts, rows, dropped, batch, answer, todo>>
  BY DEF EndEntities, PhaseEnds, Goto, storeVars, graphVars, runVars, histVars
<1>2. Shaped'
  BY <1>1 DEF VertexInv, Shaped, Labels
<1>3. RowHasVertex'
  BY <1>1 DEF VertexInv, RowHasVertex
<1>4. ASSUME ~dropped', NEW q \in Run PROVE Written(q)'
  BY <1>1, <1>4 DEF VertexInv, Shaped, Written, HasVertex
<1>5. QED
  BY <1>2, <1>3, <1>4 DEF VertexInv

\* The rows get what has its vertex.
LEMMA SyncEntitiesKeeps ==
  ASSUME VertexInv, NEW r \in Run, SyncEntities(r)
  PROVE  VertexInv'
<1>1. /\ pc[r] = "rows" /\ pc' = [pc EXCEPT ![r] = "edges"]
      /\ rows' = [e \in Entity |->
                    IF e \in answer[r].ents THEN batch[r] ELSE rows[e]]
      /\ todo' = [todo EXCEPT ![r] = answer[r].edges]
      /\ UNCHANGED <<verts, dropped, batch, answer>>
  BY DEF SyncEntities, Goto, graphVars, runVars, histVars
<1>2. Shaped'
  BY <1>1 DEF VertexInv, Shaped, Labels
<1>3. RowHasVertex'
  <2>1. ASSUME ~dropped, NEW e \in Entity, rows'[e] # None
        PROVE  HasVertex(e)
    <3>1. CASE e \in answer[r].ents
      BY <1>1, <2>1, <3>1 DEF VertexInv, Written
    <3>2. CASE e \notin answer[r].ents
      BY <1>1, <2>1, <3>2 DEF VertexInv, RowHasVertex, HasVertex
    <3>3. QED
      BY <3>1, <3>2
  <2>2. QED
    BY <1>1, <2>1 DEF RowHasVertex, HasVertex
<1>4. ASSUME ~dropped', NEW q \in Run PROVE Written(q)'
  BY <1>1, <1>4 DEF VertexInv, Shaped, Written, HasVertex
<1>5. QED
  BY <1>2, <1>3, <1>4 DEF VertexInv

LEMMA GraphKeeps ==
  ASSUME VertexInv, NEW r \in Run, UpsertSemanticEdges(r)
  PROVE  VertexInv'
<1>1. CASE \E e \in Entity : UpsertEntity(r, e)
  BY <1>1, UpsertEntityKeeps
<1>2. CASE \E x \in Entity \X Entity : UpsertEdge(r, x)
  <2>1. PICK x \in Entity \X Entity : UpsertEdge(r, x)
    BY <1>2
  <2>2. /\ pc[r] = "edges" /\ pc' = [pc EXCEPT ![r] = "edges"]
        /\ todo' = [todo EXCEPT ![r] = @ \ {x}]
        /\ UNCHANGED <<verts, rows, dropped, batch, answer>>
    BY <2>1
    DEF UpsertEdge, Statement, runVars, histVars, VertexInv, Shaped
  <2>3. QED
    BY <2>2, ElsewhereKeeps DEF Labels
<1>3. CASE EndEntities(r)
  BY <1>3, EndEntitiesKeeps
<1>4. CASE SyncEntities(r)
  BY <1>4, SyncEntitiesKeeps
<1>5. CASE EndEdges(r)
  <2>1. todo = [todo EXCEPT ![r] = todo[r]]
    BY DEF VertexInv, Shaped
  <2>2. QED
    BY <1>5, <2>1, ElsewhereKeeps
    DEF EndEdges, PhaseEnds, Goto, Labels, storeVars, graphVars, runVars,
        histVars
<1>6. QED
  BY <1>1, <1>2, <1>3, <1>4, <1>5 DEF UpsertSemanticEdges

LEMMA GraphPipelineKeeps ==
  ASSUME VertexInv, NEW r \in Run, RunGraphPipeline(r)
  PROVE  VertexInv'
<1>1. CASE EndMentions(r)
  <2>1. todo = [todo EXCEPT ![r] = todo[r]]
    BY DEF VertexInv, Shaped
  <2>2. QED
    BY <1>1, <2>1, ElsewhereKeeps
    DEF EndMentions, PhaseEnds, Goto, Labels, storeVars, graphVars, runVars,
        histVars
<1>2. CASE StatementFails(r)
  BY <1>2, RaiseKeeps DEF StatementFails
<1>3. QED
  BY <1>1, <1>2, SpaceKeeps, UpsertMentionKeeps, ExtractSemanticKeeps,
     GraphKeeps DEF RunGraphPipeline
-----------------------------------------------------------------------------
(* Communities and wiki, the purge, and the whole.                         *)

LEMMA CommunityPipelineKeeps ==
  ASSUME VertexInv, NEW r \in Run, RunCommunityPipeline(r)
  PROVE  VertexInv'
<1>1. todo = [todo EXCEPT ![r] = todo[r]] /\ pc = [pc EXCEPT ![r] = pc[r]]
  BY DEF VertexInv, Shaped
<1>2. CASE \E f \in Clusterings : ExportAndDetect(r, f)
  <2>1. /\ pc[r] = "export" /\ pc' = [pc EXCEPT ![r] = "file"]
        /\ todo' = [todo EXCEPT ![r] = todo[r]]
        /\ UNCHANGED <<verts, rows, dropped, batch, answer>>
    BY <1>1, <1>2
    DEF ExportAndDetect, Goto, storeVars, graphVars, histVars
  <2>2. QED
    BY <2>1, ElsewhereKeeps DEF Labels
<1>3. CASE ExportFails(r)
  BY <1>3, RaiseKeeps DEF ExportFails
<1>4. CASE WriteCommunities(r)
  BY <1>4, ElsewhereKeeps
  DEF WriteCommunities, Goto, Labels, graphVars, runVars, histVars
<1>5. CASE WriteContext(r)
  <2>1. CASE Usable
    <3>1. PICK t : t = todo[r] \ {Current(r)}
      OBVIOUS
    <3>2. /\ pc[r] = "context" /\ pc' = [pc EXCEPT ![r] = "context"]
          /\ todo' = [todo EXCEPT ![r] = t]
          /\ UNCHANGED <<verts, rows, dropped, batch, answer>>
      BY <1>1, <1>5, <2>1, <3>1 DEF WriteContext, graphVars, runVars, histVars
    <3>3. QED
      BY <3>2, ElsewhereKeeps DEF Labels
  <2>2. CASE ~Usable
    BY <1>5, <2>2, RaiseKeeps DEF WriteContext
  <2>3. QED
    BY <2>1, <2>2
<1>6. CASE UpsertCommunities(r)
  BY <1>6, ElsewhereKeeps
  DEF UpsertCommunities, Goto, Labels, graphVars, runVars, histVars
<1>7. QED
  BY <1>2, <1>3, <1>4, <1>5, <1>6 DEF RunCommunityPipeline

LEMMA WikiPipelineKeeps ==
  ASSUME VertexInv, NEW r \in Run, RunWikiPipeline(r)
  PROVE  VertexInv'
<1>1. todo = [todo EXCEPT ![r] = todo[r]] /\ pc = [pc EXCEPT ![r] = pc[r]]
  BY DEF VertexInv, Shaped
<1>2. UNCHANGED <<verts, rows, dropped, batch, answer>>
  BY DEF RunWikiPipeline, Synthesize, StoreWikiPages, WriteWikiPage,
         IndexWikiPage, storeVars, graphVars, runVars, histVars
<1>3. \E l \in {"wiki", "page", "page_row"} : \E t :
        /\ pc[r] # "idle" /\ pc' = [pc EXCEPT ![r] = l]
        /\ todo' = [todo EXCEPT ![r] = t]
  <2>1. CASE \E p \in Reports \cup {<<Stub>>} : Synthesize(r, p)
    BY <1>1, <2>1 DEF Synthesize, Goto
  <2>2. CASE WriteWikiPage(r)
    BY <1>1, <2>2 DEF WriteWikiPage, Goto
  <2>3. CASE IndexWikiPage(r)
    BY <1>1, <2>3 DEF IndexWikiPage, Goto
  <2>4. QED
    BY <2>1, <2>2, <2>3 DEF RunWikiPipeline, StoreWikiPages
<1>4. QED
  BY <1>2, <1>3, ElsewhereKeeps DEF Labels

LEMMA MarkIndexedKeeps ==
  ASSUME VertexInv, NEW r \in Run, MarkIndexed(r)
  PROVE  VertexInv'
BY ResetKeeps DEF MarkIndexed, graphVars

LEMMA DropSpaceKeeps ==
  ASSUME VertexInv, DropSpace
  PROVE  VertexInv'
<1>1. /\ dropped' = TRUE /\ verts' = [e \in Entity |-> None]
      /\ UNCHANGED <<pc, batch, answer, todo>>
  BY DEF DropSpace, runVars
<1>2. Shaped'
  BY <1>1 DEF VertexInv, Shaped
<1>3. RowHasVertex'
  BY <1>1 DEF RowHasVertex
<1>4. QED
  BY <1>1, <1>2, <1>3 DEF VertexInv

\* Whatever else happens is of no run, and not about vertices.
LEMMA OthersKeep ==
  ASSUME VertexInv, CatchUp \/ DeleteWikiTree \/ UNCHANGED vars
  PROVE  VertexInv'
<1>1. UNCHANGED <<verts, rows, dropped, pc, batch, answer, todo>>
  BY DEF CatchUp, DeleteWikiTree, vars, storeVars, graphVars, runVars, histVars
<1>2. Shaped' /\ Apart /\ VerticesStay
  BY <1>1 DEF VertexInv, Shaped, Apart, VerticesStay, HasVertex
<1>3. QED
  BY <1>2, ApartKeeps

LEMMA VertexInvKeeps ==
  ASSUME VertexInv, [Next]_vars
  PROVE  VertexInv'
<1>1. CASE \E r \in Run : \E b \in Batch, noAgent \in BOOLEAN :
             CheckIdle(r, b, noAgent)
  BY <1>1, CheckIdleKeeps
<1>2. CASE \E r \in Run : RunStep(r)
  BY <1>2, GraphPipelineKeeps, CommunityPipelineKeeps, WikiPipelineKeeps,
     MarkIndexedKeeps DEF RunStep
<1>3. CASE \E r \in Run : Die(r)
  BY <1>3, RaiseKeeps DEF Die
<1>4. CASE DropSpace
  BY <1>4, DropSpaceKeeps
<1>5. CASE CatchUp \/ DeleteWikiTree \/ UNCHANGED vars
  BY <1>5, OthersKeep
<1>6. QED
  BY <1>1, <1>2, <1>3, <1>4, <1>5 DEF Next

LEMMA VertexInvStart ==
  ASSUME Init
  PROVE  VertexInv
<1>1. Shaped
  BY DEF Init, Shaped, Labels
<1>2. \A r \in Run : pc[r] = "idle"
  BY DEF Init
<1>3. \A e \in Entity : rows[e] = None
  BY DEF Init
<1>4. RowHasVertex
  BY <1>3, Zenon DEF RowHasVertex
<1>5. \A r \in Run : Written(r)
  BY <1>2 DEF Written
<1>6. QED
  BY <1>1, <1>4, <1>5 DEF VertexInv

\* What a run found has its vertex by the time the run comes to its rows.
THEOREM VertexInvariance == Spec => []VertexInv
<1>1. Init => VertexInv
  BY VertexInvStart
<1>2. VertexInv /\ [Next]_vars => VertexInv'
  BY VertexInvKeeps
<1>3. QED
  BY <1>1, <1>2, PTL DEF Spec

\* An entity's row is never there before its vertex, until a purge of the
\* project drops the space.
THEOREM RowsHaveVertices == Spec => []RowHasVertex
<1>1. VertexInv => RowHasVertex
  BY DEF VertexInv
<1>2. QED
  BY <1>1, VertexInvariance, PTL

-----------------------------------------------------------------------------
(* The community a run is at is the least that is left.                    *)

\* A set of natural numbers has a least one.
LEMMA LeastOf ==
  ASSUME NEW T, T \subseteq Nat, T # {}
  PROVE  \E k \in T : \A j \in T : k <= j
<1>1. DEFINE Less == {s \in Nat \X Nat : s[1] < s[2]}
<1>2. IsWellFoundedOn(Less, Nat)
  BY NatLessThanWellFounded DEF OpToRel
<1>3. PICK k \in T : \A j \in T : <<j, k>> \notin Less
  <2> HIDE DEF Less
  <2>1. QED
    BY <1>2, WFMin
<1>4. ASSUME NEW j \in T PROVE k <= j
  <2>1. <<j, k>> \in Nat \X Nat
    OBVIOUS
  <2>2. ~(<<j, k>>[1] < <<j, k>>[2])
    BY <1>3, <2>1
  <2>3. QED
    BY <2>2
<1>5. QED
  BY <1>4

\* CHOOSE picks it.
LEMMA CurrentIsLeft ==
  ASSUME NEW r, todo[r] \subseteq Nat, todo[r] # {}
  PROVE  Current(r) \in todo[r]
BY LeastOf DEF Current

-----------------------------------------------------------------------------
(* Types.  TypeOK, taken apart into what is in the stores, and each run.   *)

StoresTyped ==
  /\ space \in {"none", "created", "usable", "tagged", "ready"}
  /\ verts \in [Entity -> Batch \cup {None, "bare"}]
  /\ links \subseteq Entity \X Entity /\ mentions \subseteq Batch \X Entity
  /\ rows \in [Entity -> Batch \cup {None}]
  /\ file \in [Batch -> Clusterings]
  /\ contexts \in [Community -> SUBSET Entity]
  /\ comms \subseteq Community
  /\ pages \subseteq Community \X Title
  /\ pageRows \subseteq Community \X Title
  /\ indexed \subseteq Batch
  /\ last = [b \in Batch |-> last[b]]
  /\ \A b \in Batch : last[b].answer.ents \subseteq Entity
  /\ disturbed \subseteq Run /\ settled \subseteq Batch /\ dropped \in BOOLEAN
  /\ submits \in 0..MaxSubmits /\ purges \in 0..MaxPurges

RunsKeyed ==
  /\ pc = [r \in Run |-> pc[r]] /\ skip = [r \in Run |-> skip[r]]
  /\ batch = [r \in Run |-> batch[r]] /\ answer = [r \in Run |-> answer[r]]
  /\ todo = [r \in Run |-> todo[r]] /\ records = [r \in Run |-> records[r]]
  /\ page = [r \in Run |-> page[r]] /\ asked = [r \in Run |-> asked[r]]
  /\ blind = [r \in Run |-> blind[r]]

RunTyped(r) ==
  /\ pc[r] \in Labels /\ skip[r] \in BOOLEAN /\ records[r] \in Clusterings
  /\ blind[r] \in BOOLEAN
  /\ IF pc[r] = "idle" THEN batch[r] = None ELSE batch[r] \in Batch
  /\ answer[r] \in [ents : SUBSET Entity, edges : SUBSET (Entity \X Entity)]
  /\ page[r] \in Seq(Title)
  /\ pc[r] \in {"page", "page_row"} <=> page[r] # <<>>
  /\ pc[r] \in {"page", "page_row"} => todo[r] # {}
  /\ pc[r] = "mention" => todo[r] \subseteq Entity \X Parts
  /\ pc[r] = "edges" => todo[r] \subseteq Entity \X Entity
  /\ pc[r] \in Filed => todo[r] \subseteq DOMAIN records[r]
  /\ pc[r] \notin {"mention", "edges"} \cup Filed => todo[r] \subseteq Entity

Typed == StoresTyped /\ RunsKeyed /\ \A r \in Run : RunTyped(r)

\* The parts are TypeOK and Keyed.
LEMMA TypedIsTypeOK == Typed <=> TypeOK /\ Keyed
<1>1. ASSUME NEW r \in Run
      PROVE  (todo[r] \subseteq
                CASE pc[r] = "mention" -> Entity \X Parts
                  [] pc[r] = "edges" -> Entity \X Entity
                  [] pc[r] \in {"context", "wiki", "page", "page_row"}
                       -> DOMAIN records[r]
                  [] OTHER -> Entity)
             <=> /\ pc[r] = "mention" => todo[r] \subseteq Entity \X Parts
                 /\ pc[r] = "edges" => todo[r] \subseteq Entity \X Entity
                 /\ pc[r] \in Filed => todo[r] \subseteq DOMAIN records[r]
                 /\ pc[r] \notin {"mention", "edges"} \cup Filed =>
                      todo[r] \subseteq Entity
  <2>1. Filed = {"context", "wiki", "page", "page_row"}
    BY DEF Filed, Paging
  <2>2. CASE pc[r] = "edges"
    BY <2>1, <2>2
  <2>3. CASE pc[r] \in Filed
    BY <2>1, <2>3
  <2>4. CASE pc[r] \notin {"mention", "edges"} \cup Filed
    BY <2>1, <2>4
  <2>5. CASE pc[r] = "mention"
    BY <2>1, <2>5
  <2>6. QED
    BY <2>2, <2>3, <2>4, <2>5
<1>2. ASSUME Typed PROVE TypeOK /\ Keyed
  <2>1. /\ pc \in [Run -> Labels] /\ skip \in [Run -> BOOLEAN]
        /\ records \in [Run -> Clusterings] /\ blind \in [Run -> BOOLEAN]
    BY <1>2 DEF Typed, RunsKeyed, RunTyped
  <2>2. ASSUME NEW r \in Run
        PROVE  /\ batch[r] \in IF pc[r] = "idle" THEN {None} ELSE Batch
               /\ answer[r] \in [ents  : SUBSET Entity,
                         edges : SUBSET (Entity \X Entity)]
               /\ todo[r] \subseteq
                    CASE pc[r] = "mention" -> Entity \X Parts
                      [] pc[r] = "edges" -> Entity \X Entity
                      [] pc[r] \in {"context", "wiki", "page", "page_row"}
                           -> DOMAIN records[r]
                      [] OTHER -> Entity
               /\ page[r] \in Seq(Title)
               /\ pc[r] \in {"page", "page_row"} <=> page[r] # <<>>
               /\ pc[r] \in {"page", "page_row"} => todo[r] # {}
    <3>1. RunTyped(r)
      BY <1>2 DEF Typed
    <3>2. /\ pc[r] = "mention" => todo[r] \subseteq Entity \X Parts
          /\ pc[r] = "edges" => todo[r] \subseteq Entity \X Entity
          /\ pc[r] \in Filed => todo[r] \subseteq DOMAIN records[r]
          /\ pc[r] \notin {"mention", "edges"} \cup Filed =>
               todo[r] \subseteq Entity
      BY <3>1 DEF RunTyped
    <3>3. QED
      BY <1>1, <3>1, <3>2 DEF RunTyped
  <2>3. QED
    BY <1>2, <2>1, <2>2 DEF Typed, StoresTyped, RunsKeyed, TypeOK, Keyed
<1>3. ASSUME TypeOK, Keyed PROVE Typed
  <2>1. StoresTyped /\ RunsKeyed
    BY <1>3 DEF TypeOK, Keyed, StoresTyped, RunsKeyed
  <2>2. ASSUME NEW r \in Run PROVE RunTyped(r)
    <3>1. /\ batch[r] \in IF pc[r] = "idle" THEN {None} ELSE Batch
          /\ answer[r] \in [ents  : SUBSET Entity,
                            edges : SUBSET (Entity \X Entity)]
          /\ page[r] \in Seq(Title)
          /\ pc[r] \in {"page", "page_row"} <=> page[r] # <<>>
          /\ pc[r] \in Labels /\ skip[r] \in BOOLEAN
          /\ records[r] \in Clusterings /\ blind[r] \in BOOLEAN
      BY <1>3 DEF TypeOK
    <3>2. todo[r] \subseteq
            CASE pc[r] = "mention" -> Entity \X Parts
              [] pc[r] = "edges" -> Entity \X Entity
              [] pc[r] \in {"context", "wiki", "page", "page_row"}
                   -> DOMAIN records[r]
              [] OTHER -> Entity
      BY <1>3 DEF TypeOK
    <3>3. pc[r] \in {"page", "page_row"} => todo[r] # {}
      BY <1>3 DEF Keyed
    <3>4. QED
      BY <1>1, <3>1, <3>2, <3>3 DEF RunTyped
  <2>3. QED
    BY <2>1, <2>2 DEF Typed
<1>4. QED
  BY <1>2, <1>3

-----------------------------------------------------------------------------
(* What a step of one run leaves of the others, and of the batches whose   *)
(* last run is over.                                                       *)

LEMMA LabelSets ==
  /\ Paging = {"wiki", "page", "page_row"}
  /\ Filed = {"context", "wiki", "page", "page_row"}
  /\ Edged = {"export", "file"} \cup Filed
  /\ Recorded = {"edges"} \cup Edged
  /\ Answered = {"rows"} \cup Recorded
  /\ Mentioned = {"agent", "entities"} \cup Answered
  /\ \A l \in Labels : l \in Begun <=> l \notin {"idle", "submit"}
<1>1. /\ Paging = {"wiki", "page", "page_row"}
      /\ Filed = {"context", "wiki", "page", "page_row"}
      /\ Edged = {"export", "file"} \cup Filed
      /\ Recorded = {"edges"} \cup Edged
      /\ Answered = {"rows"} \cup Recorded
      /\ Mentioned = {"agent", "entities"} \cup Answered
  BY DEF Paging, Filed, Edged, Recorded, Answered, Mentioned
<1>2. \A l \in Labels : l \in Begun <=> l \notin {"idle", "submit"}
  BY <1>1 DEF Begun, Labels
<1>3. QED
  BY <1>1, <1>2

OthersRest(r) == \A q \in Run \ {r} :
  /\ pc'[q] = pc[q] /\ batch'[q] = batch[q] /\ skip'[q] = skip[q]
  /\ answer'[q] = answer[q] /\ todo'[q] = todo[q]
  /\ records'[q] = records[q] /\ page'[q] = page[q] /\ asked'[q] = asked[q]
  /\ blind'[q] = blind[q]

\* Nothing is taken out of a store,
Grown ==
  /\ \A e \in Entity : /\ verts[e] # None => verts'[e] # None
                       /\ rows[e] # None => rows'[e] # None
  /\ links \subseteq links' /\ mentions \subseteq mentions'
  /\ comms \subseteq comms' /\ indexed \subseteq indexed'
  /\ pages \subseteq pages' /\ pageRows \subseteq pageRows'

\* and the blobs of a batch are the same as before.
Kept(b) == /\ file'[b] = file[b]
           /\ \A k \in Cluster : contexts'[<<b, k>>] = contexts[<<b, k>>]

Fine(r) == InGraph(r) /\ InCommunities(r) /\ InWiki(r)

LEMMA IInvIs ==
  IInv <=> /\ Typed
           /\ \A r \in Run : pc[r] \in {"idle", "submit"} => asked[r] = {}
           /\ \A r \in Run \ disturbed : pc[r] \in Begun =>
                OnlyOf(batch[r], r) /\ Fine(r)
           /\ \A b \in settled : /\ Complete(b)
                                 /\ \A s \in Run : batch[s] = b =>
                                      pc[s] = "submit"
BY TypedIsTypeOK DEF IInv, Fine, IndexedIsComplete

\* The clusters of a clustering are numbered.
LEMMA ClustersOf ==
  ASSUME NEW f \in Clusterings
  PROVE  /\ DOMAIN f \subseteq Cluster
         /\ \A k \in DOMAIN f : f[k] \subseteq Entity
<1>1. PICK n \in 0..MaxClusters : f \in [1..n -> SUBSET Entity]
  BY DEF Clusterings
<1>2. 1..n \subseteq Cluster
  BY ConstantsAssumption DEF Cluster
<1>3. QED
  BY <1>1, <1>2

\* A run is as far as it was when it rests and the stores grow.
LEMMA RestIsFine ==
  ASSUME Typed, NEW q \in Run, Fine(q), Grown, Kept(batch[q]), pc[q] \in Begun,
         pc'[q] = pc[q], batch'[q] = batch[q],
         answer'[q] = answer[q], todo'[q] = todo[q],
         records'[q] = records[q], page'[q] = page[q], asked'[q] = asked[q],
         blind'[q] = blind[q]
  PROVE  Fine(q)'
<1>1. RunTyped(q)
  BY DEF Typed
<1>2. InGraph(q)'
  <2>1. answer[q].ents \subseteq Entity
    BY <1>1 DEF RunTyped
  <2>2. QED
    BY <2>1 DEF Fine, InGraph, Grown
<1>3. InCommunities(q)'
  <2>1. DOMAIN records[q] \subseteq Cluster
    BY <1>1, ClustersOf DEF RunTyped
  <2>2. QED
    BY <2>1 DEF Fine, InCommunities, Grown, Kept
<1>4. InWiki(q)'
  <2>1. Current(q)' = Current(q) /\ ThisPage(q)' = ThisPage(q)
    BY DEF Current, ThisPage
  <2>2. \A b, k, t : Stored(b, k, t) => Stored(b, k, t)'
    BY DEF Stored, Grown
  <2>3. QED
    BY <2>1, <2>2 DEF Fine, InWiki, Grown
<1>5. QED
  BY <1>2, <1>3, <1>4 DEF Fine

\* So is a batch whose last run is over.
LEMMA RestIsComplete ==
  ASSUME Typed, NEW b \in Batch, Complete(b), Grown, Kept(b),
         last'[b] = last[b]
  PROVE  Complete(b)'
<1>1. file[b] \in Clusterings /\ last[b].answer.ents \subseteq Entity
  BY DEF Typed, StoresTyped
<1>2. DOMAIN last[b].records \subseteq Cluster
  BY <1>1, ClustersOf DEF Complete
<1>3. QED
  BY <1>1, <1>2 DEF Complete, Grown, Kept

\* The run r is of the batch b, and at work.
At(r, b) == pc[r] \in Begun /\ batch[r] = b

\* A step of the run r, from all that is particular to it.
LEMMA StepKeeps ==
  ASSUME IInv, NEW r \in Run, OthersRest(r), Grown,
         StoresTyped', RunsKeyed', RunTyped(r)',
         \A b \in Batch : Kept(b) \/ At(r, b),
         disturbed \ {r} \subseteq disturbed',
         pc'[r] \in {"idle", "submit"} => asked'[r] = {},
         r \notin disturbed' /\ pc'[r] \in Begun =>
           OnlyOf(batch[r], r)' /\ Fine(r)',
         \A p \in Run \ (disturbed' \cup {r}) :
           pc[p] \in Begun /\ batch'[r] = batch[p] =>
             pc'[r] = "submit" \/ At(r, batch[p]),
         \A b \in settled' \cap settled :
           /\ last'[b] = last[b]
           /\ batch'[r] = b => pc'[r] = "submit" \/ At(r, b),
         \A b \in settled' \ settled :
           /\ Complete(b)'
           /\ \A s \in Run : batch'[s] = b => pc'[s] = "submit"
  PROVE  IInv'
<1>1. Typed /\ Typed'
  <2>1. Typed
    BY IInvIs
  <2>2. ASSUME NEW q \in Run PROVE RunTyped(q)'
    BY <2>1, <2>2 DEF Typed, RunTyped, OthersRest
  <2>3. QED
    BY <2>1, <2>2 DEF Typed
<1>2. ASSUME NEW q \in Run, pc'[q] \in {"idle", "submit"} PROVE asked'[q] = {}
  BY <1>2, IInvIs DEF OthersRest
<1>3. ASSUME NEW q \in Run \ disturbed', pc'[q] \in Begun
      PROVE  OnlyOf(batch[q], q)' /\ Fine(q)'
  <2>1. CASE q = r
    BY <1>3, <2>1
  <2>2. CASE q # r
    <3>1. /\ pc'[q] = pc[q] /\ batch'[q] = batch[q]
          /\ answer'[q] = answer[q] /\ todo'[q] = todo[q]
          /\ records'[q] = records[q] /\ page'[q] = page[q]
          /\ asked'[q] = asked[q] /\ blind'[q] = blind[q]
      BY <2>2 DEF OthersRest
    <3>2. q \notin disturbed /\ pc[q] \in Begun
      BY <1>3, <2>2, <3>1
    <3>3. OnlyOf(batch[q], q) /\ Fine(q)
      BY <3>2, IInvIs
    <3>4. ~At(r, batch[q])
      BY <2>2, <3>3 DEF OnlyOf, At, Begun, Mentioned, Answered, Recorded,
                        Edged, Filed, Paging
    <3>5. batch[q] \in Batch
      <4>1. pc[q] # "idle" /\ RunTyped(q)
        BY <1>1, <3>2, LabelSets DEF Typed, RunTyped
      <4>2. QED
        BY <4>1 DEF RunTyped
    <3>6. Fine(q)'
      BY <1>1, <3>1, <3>2, <3>3, <3>4, <3>5, RestIsFine
    <3>7. ASSUME NEW s \in Run \ {q}, batch'[s] = batch'[q]
          PROVE  pc'[s] = "submit"
      <4>1. CASE s = r
        BY <1>3, <2>2, <3>1, <3>2, <3>4, <3>7, <4>1
      <4>2. CASE s # r
        BY <3>1, <3>3, <3>7, <4>2 DEF OnlyOf, OthersRest
      <4>3. QED
        BY <4>1, <4>2
    <3>8. QED
      BY <3>6, <3>7 DEF OnlyOf
  <2>3. QED
    BY <2>1, <2>2
<1>4. ASSUME NEW b \in settled'
      PROVE  Complete(b)' /\ \A s \in Run : batch'[s] = b => pc'[s] = "submit"
  <2>1. CASE b \notin settled
    BY <1>4, <2>1
  <2>2. CASE b \in settled
    <3>1. /\ Complete(b)
          /\ \A s \in Run : batch[s] = b => pc[s] = "submit"
      BY <2>2, IInvIs
    <3>2. ~At(r, b)
      BY <3>1, LabelSets DEF At, Begun
    <3>3. b \in Batch
      BY <1>1, <2>2 DEF Typed, StoresTyped
    <3>4. Complete(b)'
      BY <1>1, <1>4, <2>2, <3>1, <3>2, <3>3, RestIsComplete
    <3>5. ASSUME NEW s \in Run, batch'[s] = b PROVE pc'[s] = "submit"
      <4>1. CASE s = r
        BY <1>4, <2>2, <3>2, <3>5, <4>1
      <4>2. CASE s # r
        BY <3>1, <3>5, <4>2 DEF OthersRest
      <4>3. QED
        BY <4>1, <4>2
    <3>6. QED
      BY <3>4, <3>5
  <2>3. QED
    BY <2>1, <2>2
<1>5. QED
  <2>1. (Typed => TypeOK /\ Keyed)'
    BY TypedIsTypeOK, PTL
  <2>2. QED
    BY <1>1, <1>2, <1>3, <1>4, <2>1 DEF IInv, Fine, IndexedIsComplete

-----------------------------------------------------------------------------
(* Kinds of steps of a run.                                                *)

\* A step in the middle of a run, which is not the run's first or last.
Moves(r) ==
  /\ pc[r] \in Begun /\ pc'[r] \in Begun /\ OthersRest(r) /\ RunsKeyed'
  /\ batch'[r] = batch[r] /\ skip'[r] = skip[r]
  /\ UNCHANGED histVars \/ (UNCHANGED <<submits, purges, disturbed, settled,
                                        last, dropped>> /\ pc[r] \in Paging)

LEMMA MovesKeep ==
  ASSUME IInv, NEW r \in Run, Moves(r), Grown, StoresTyped', RunTyped(r)',
         \A b \in Batch \ {batch[r]} : Kept(b), Fine(r) => Fine(r)'
  PROVE  IInv'
<1>1. UNCHANGED <<disturbed, settled, last>>
  BY DEF Moves, histVars
<1>2. pc'[r] \notin {"idle", "submit"}
  BY DEF Moves, Begun, Mentioned, Answered, Recorded, Edged, Filed, Paging
<1>3. /\ \A b \in Batch : Kept(b) \/ At(r, b)
      /\ \A p \in Run : batch'[r] = batch[p] => At(r, batch[p])
      /\ \A b \in settled : batch'[r] = b => At(r, b)
  BY DEF Moves, At
<1>4. ASSUME r \notin disturbed PROVE OnlyOf(batch[r], r)' /\ Fine(r)'
  <2>1. OnlyOf(batch[r], r) /\ Fine(r)
    BY <1>4, IInvIs DEF Moves
  <2>2. QED
    BY <2>1 DEF Moves, OnlyOf, OthersRest
<1>5. QED
  BY <1>1, <1>2, <1>3, <1>4, StepKeeps DEF Moves

\* What a run writes to its own variables only.
LEMMA StoresRest ==
  ASSUME IInv, UNCHANGED <<storeVars, submits, purges, disturbed, settled,
                           last, dropped>>
  PROVE  StoresTyped' /\ Grown /\ \A b : Kept(b)
<1>1. StoresTyped
  BY IInvIs DEF Typed
<1>2. QED
  BY <1>1 DEF storeVars, graphVars, wikiVars, StoresTyped, Grown, Kept

\* A run that is over, done or not.
LEMMA ResetRun ==
  ASSUME IInv, NEW r \in Run, Reset(r)
  PROVE  /\ OthersRest(r) /\ RunsKeyed' /\ RunTyped(r)'
         /\ pc'[r] = "idle" /\ batch'[r] = None /\ asked'[r] = {}
         /\ disturbed' = disturbed \ {r}
<1>1. RunsKeyed
  BY IInvIs DEF Typed
<1>2. /\ pc'[r] = "idle" /\ batch'[r] = None /\ asked'[r] = {}
      /\ skip'[r] = FALSE /\ answer'[r] = NoAnswer /\ todo'[r] = {}
      /\ records'[r] = <<>> /\ page'[r] = <<>> /\ disturbed' = disturbed \ {r}
      /\ blind'[r] = FALSE
  BY <1>1 DEF Reset, Goto, RunsKeyed
<1>3. OthersRest(r) /\ RunsKeyed'
  BY <1>1 DEF Reset, Goto, RunsKeyed, OthersRest
<1>4. <<>> \in Clusterings
  <2>1. <<>> \in [1..0 -> SUBSET Entity] /\ 0 \in 0..MaxClusters
    BY ConstantsAssumption
  <2>2. QED
    BY <2>1 DEF Clusterings
<1>5. RunTyped(r)'
  <2>1. /\ "idle" \in Labels /\ "idle" \notin {"mention", "edges"} \cup Filed
        /\ "idle" \notin {"page", "page_row"}
    BY DEF Labels, Filed, Paging
  <2>2. /\ NoAnswer \in [ents : SUBSET Entity,
                         edges : SUBSET (Entity \X Entity)]
        /\ <<>> \in Seq(Title)
    BY DEF NoAnswer
  <2>3. QED
    BY <1>2, <1>4, <2>1, <2>2 DEF RunTyped
<1>6. QED
  BY <1>2, <1>3, <1>5

LEMMA RaiseKeepsIInv ==
  ASSUME IInv, NEW r \in Run, Raise(r)
  PROVE  IInv'
<1>1. /\ OthersRest(r) /\ RunsKeyed' /\ RunTyped(r)'
      /\ pc'[r] = "idle" /\ batch'[r] = None /\ asked'[r] = {}
      /\ disturbed' = disturbed \ {r}
  BY ResetRun DEF Raise
<1>2. UNCHANGED <<storeVars, submits, purges, settled, last, dropped>>
  BY DEF Raise
<1>3. Typed
  BY IInvIs
<1>4. StoresTyped' /\ Grown /\ \A b : Kept(b)
  <2>1. StoresTyped
    BY <1>3 DEF Typed
  <2>2. QED
    BY <1>1, <1>2, <2>1
    DEF storeVars, graphVars, wikiVars, StoresTyped, Grown, Kept
<1>5. \A p \in Run : pc[p] \in Begun => batch[p] # None
  BY <1>3, LabelSets, ConstantsAssumption DEF Typed, RunTyped
<1>6. \A b \in settled : b # None
  BY <1>3, ConstantsAssumption DEF Typed, StoresTyped
<1>7. pc'[r] \notin Begun
  BY <1>1 DEF Begun, Mentioned, Answered, Recorded, Edged, Filed, Paging
<1>8. QED
  BY <1>1, <1>2, <1>4, <1>5, <1>6, <1>7, StepKeeps

\* Before its file a run owes nothing to communities and wiki,
LEMMA NotFiledIsFine ==
  ASSUME NEW r, InWiki(r), pc[r] \notin Paging,
         pc'[r] \notin {"file"} \cup Filed, asked'[r] = asked[r]
  PROVE  InCommunities(r)' /\ InWiki(r)'
BY LabelSets DEF InCommunities, InWiki

\* and after its edges it is through with the graph,
LEMMA GraphIsFine ==
  ASSUME Typed, NEW r \in Run, InGraph(r), Grown,
         pc[r] \in Edged, pc'[r] \in Edged,
         answer'[r] = answer[r], batch'[r] = batch[r]
  PROVE  InGraph(r)'
<1>1. RunTyped(r)
  BY DEF Typed
<1>2. /\ pc'[r] \in Edged \ {"mention", "entities", "edges"}
      /\ pc[r] \in Mentioned \ {"mention", "entities", "edges"}
      /\ pc[r] \in Answered /\ pc[r] \in Recorded
  BY DEF Edged, Mentioned, Answered, Recorded, Filed, Paging
<1>3. answer[r].ents \subseteq Entity
  BY <1>1 DEF RunTyped
<1>4. QED
  BY <1>2, <1>3 DEF InGraph, Grown

\* as it is with the communities when it comes to the wiki.
LEMMA CommunitiesAreFine ==
  ASSUME Typed, NEW r \in Run, InCommunities(r), Grown, Kept(batch[r]),
         pc[r] \in Paging, pc'[r] \in Paging, answer'[r] = answer[r],
         records'[r] = records[r], batch'[r] = batch[r], blind'[r] = blind[r]
  PROVE  InCommunities(r)'
<1>1. RunTyped(r)
  BY DEF Typed
<1>2. /\ pc[r] \in Filed /\ pc[r] # "context"
      /\ pc'[r] \in Filed /\ pc'[r] # "context"
  BY DEF Filed, Paging
<1>3. DOMAIN records[r] \subseteq Cluster
  BY <1>1, ClustersOf DEF RunTyped
<1>4. QED
  BY <1>2, <1>3 DEF InCommunities, Grown, Kept

\* What the proofs below read off the state before a step.
LEMMA RunIs ==
  ASSUME IInv, NEW r \in Run
  PROVE  /\ Typed /\ StoresTyped /\ RunsKeyed /\ RunTyped(r)
         /\ batch[r] \in Batch \cup {None}
         /\ pc[r] # "idle" => batch[r] \in Batch
<1>1. Typed
  BY IInvIs
<1>2. QED
  BY <1>1 DEF Typed, RunTyped

-----------------------------------------------------------------------------
(* Submission and the space.                                               *)

LEMMA CheckIdleKeepsIInv ==
  ASSUME IInv, NEW r \in Run, NEW b \in Batch, NEW noAgent \in BOOLEAN,
         CheckIdle(r, b, noAgent)
  PROVE  IInv'
<1>1. StoresTyped /\ RunsKeyed /\ RunTyped(r)
  BY RunIs
<1>2. /\ pc[r] = "idle" /\ pc'[r] = "submit"
      /\ batch'[r] = b /\ skip'[r] = noAgent /\ answer'[r] = answer[r]
      /\ todo'[r] = todo[r] /\ records'[r] = records[r] /\ page'[r] = page[r]
      /\ blind'[r] = blind[r]
      /\ UNCHANGED <<disturbed, settled, asked, last, dropped, purges>>
      /\ UNCHANGED storeVars
  BY <1>1 DEF CheckIdle, Goto, RunsKeyed
<1>3. OthersRest(r) /\ RunsKeyed'
  BY <1>1 DEF CheckIdle, Goto, RunsKeyed, OthersRest
<1>4. RunTyped(r)'
  <2>1. /\ "submit" \in Labels /\ "submit" \notin {"mention", "edges"} \cup Filed
        /\ "idle" \notin {"mention", "edges"} \cup Filed
        /\ {"idle", "submit"} \cap {"page", "page_row"} = {}
    BY DEF Labels, Filed, Paging
  <2>2. QED
    BY <1>1, <1>2, <2>1 DEF RunTyped
<1>5. StoresTyped'
  <2>1. submits' \in 0..MaxSubmits
    BY <1>1, ConstantsAssumption DEF CheckIdle, StoresTyped
  <2>2. QED
    BY <1>1, <1>2, <2>1 DEF StoresTyped, storeVars, graphVars, wikiVars
<1>6. Grown /\ \A c : Kept(c)
  BY <1>2 DEF Grown, Kept, storeVars, graphVars, wikiVars
<1>7. asked'[r] = {}
  BY <1>2, IInvIs
<1>8. "submit" \notin Begun
  BY DEF Begun, Mentioned, Answered, Recorded, Edged, Filed, Paging
<1>9. QED
  BY <1>2, <1>3, <1>4, <1>5, <1>6, <1>7, <1>8, StepKeeps

\* The others of the batch that have begun are disturbed from here on.
LEMMA SubmitKeepsIInv ==
  ASSUME IInv, NEW r \in Run, Submit(r)
  PROVE  IInv'
<1> DEFINE busy == {s \in Run \ {r} : batch[s] = batch[r] /\ pc[s] # "submit"}
<1>1. StoresTyped /\ RunsKeyed /\ RunTyped(r) /\ batch[r] \in Batch
  BY RunIs DEF Submit
<1>2. /\ pc[r] = "submit" /\ pc'[r] = "create" /\ batch'[r] = batch[r]
      /\ skip'[r] = skip[r] /\ answer'[r] = answer[r]
      /\ todo'[r] = todo[r] /\ records'[r] = records[r] /\ page'[r] = page[r]
      /\ asked'[r] = asked[r] /\ blind'[r] = blind[r] /\ UNCHANGED storeVars
      /\ UNCHANGED <<submits, purges, dropped>>
      /\ settled' = settled \ {batch[r]}
      /\ last' = [last EXCEPT ![batch[r]] = Nothing]
      /\ disturbed' = disturbed \cup busy
                        \cup (IF busy = {} THEN {} ELSE {r})
  BY <1>1 DEF Submit, Goto, RunsKeyed, runVars
<1>3. OthersRest(r) /\ RunsKeyed'
  BY <1>1 DEF Submit, Goto, RunsKeyed, OthersRest, runVars
<1>4. RunTyped(r)'
  <2>1. /\ "create" \in Labels /\ "create" \notin {"mention", "edges"} \cup Filed
        /\ "submit" \notin {"mention", "edges"} \cup Filed
        /\ {"create", "submit"} \cap {"page", "page_row"} = {}
    BY DEF Labels, Filed, Paging
  <2>2. QED
    BY <1>1, <1>2, <2>1 DEF RunTyped
<1>5. StoresTyped'
  <2>1. disturbed' \subseteq Run /\ settled' \subseteq Batch
    BY <1>1, <1>2 DEF StoresTyped
  <2>2. /\ last' = [b \in Batch |-> last'[b]]
        /\ \A b \in Batch : last'[b].answer.ents \subseteq Entity
    BY <1>1, <1>2 DEF StoresTyped, Nothing, NoAnswer
  <2>3. QED
    BY <1>1, <1>2, <2>1, <2>2 DEF StoresTyped, storeVars, graphVars, wikiVars
<1>6. Grown /\ \A c : Kept(c)
  BY <1>2 DEF Grown, Kept, storeVars, graphVars, wikiVars
<1>7. r \notin disturbed' => OnlyOf(batch[r], r)' /\ Fine(r)'
  <2>1. asked'[r] = {}
    BY <1>2, IInvIs
  <2>2. Fine(r)'
    <3>1. "create" \notin {"mention", "entities", "file", "page_row"}
                          \cup Mentioned
                          \cup Answered \cup Recorded \cup Filed \cup Paging
      BY DEF Mentioned, Answered, Recorded, Edged, Filed, Paging
    <3>2. QED
      BY <1>2, <2>1, <3>1 DEF Fine, InGraph, InCommunities, InWiki
  <2>3. ASSUME r \notin disturbed' PROVE OnlyOf(batch[r], r)'
    <3>1. busy = {}
      BY <1>2, <2>3
    <3>2. QED
      BY <1>2, <1>3, <3>1 DEF OnlyOf, OthersRest
  <2>4. QED
    BY <2>2, <2>3
<1>8. ASSUME NEW p \in Run \ (disturbed' \cup {r}), pc[p] \in Begun
      PROVE  batch'[r] # batch[p]
  <2>1. pc[p] # "submit"
    BY <1>8 DEF Begun, Mentioned, Answered, Recorded, Edged, Filed, Paging
  <2>2. QED
    BY <1>2, <1>8, <2>1
<1>9. \A b \in settled' : b # batch[r] /\ last'[b] = last[b]
  BY <1>1, <1>2 DEF StoresTyped
<1>10. QED
  <2>1. disturbed \ {r} \subseteq disturbed' /\ settled' \subseteq settled
    BY <1>2
  <2>2. pc'[r] \notin {"idle", "submit"}
    BY <1>2
  <2> HIDE DEF busy
  <2>3. QED
    BY <1>2, <1>3, <1>4, <1>5, <1>6, <1>7, <1>8, <1>9, <2>1, <2>2, StepKeeps

\* A step of a run that takes it from one label to another, and leaves it
\* nothing or something to do.
LEMMA GotoMoves ==
  ASSUME IInv, NEW r \in Run, NEW l \in Begun, NEW t, pc[r] \in Begun,
         pc' = [pc EXCEPT ![r] = l], todo' = [todo EXCEPT ![r] = t],
         UNCHANGED <<runVars, histVars>>
  PROVE  /\ Moves(r) /\ pc'[r] = l /\ todo'[r] = t
         /\ UNCHANGED <<batch, skip, answer, records, blind, page, asked>>
<1>1. RunsKeyed
  BY RunIs
<1>2. pc'[r] = l /\ todo'[r] = t
  BY <1>1 DEF RunsKeyed
<1>3. OthersRest(r) /\ RunsKeyed'
  BY <1>1 DEF RunsKeyed, OthersRest, runVars, histVars
<1>4. QED
  BY <1>2, <1>3 DEF Moves, runVars, histVars

\* The same, when the blobs rest as well.
LEMMA GotoKeeps ==
  ASSUME IInv, NEW r \in Run, NEW l \in Begun, NEW t, pc[r] \in Begun,
         pc' = [pc EXCEPT ![r] = l], todo' = [todo EXCEPT ![r] = t],
         UNCHANGED <<runVars, histVars, file, contexts>>,
         Grown, StoresTyped',
         t \subseteq IF l = "mention" THEN Entity \X Parts
                     ELSE IF l = "edges" THEN Entity \X Entity
                     ELSE IF l \in Filed THEN DOMAIN records[r] ELSE Entity,
         l \in {"page", "page_row"} => t # {},
         pc[r] \in {"page", "page_row"} <=> l \in {"page", "page_row"},
         Fine(r) => Fine(r)'
  PROVE  IInv'
<1>1. /\ Moves(r) /\ pc'[r] = l /\ todo'[r] = t
      /\ UNCHANGED <<batch, skip, answer, records, blind, page, asked>>
  BY GotoMoves
<1>2. /\ l \in Labels \ {"idle"} /\ pc[r] # "idle"
      /\ {"mention", "edges"} \cap Filed = {}
  BY DEF Labels, Begun, Mentioned, Answered, Recorded, Edged, Filed, Paging
<1>3. RunTyped(r)'
  <2>1. RunTyped(r)
    BY RunIs
  <2>2. QED
    BY <1>1, <1>2, <2>1 DEF RunTyped
<1>4. \A b : Kept(b)
  BY DEF Kept
<1>5. QED
  BY <1>1, <1>3, <1>4, MovesKeep

\* Up to the mentions, a run has nothing in the stores.
LEMMA SpaceKeepsIInv ==
  ASSUME IInv, NEW r \in Run, EnsureSpace(r)
  PROVE  IInv'
<1>1. /\ StoresTyped /\ RunsKeyed /\ RunTyped(r)
      /\ todo = [todo EXCEPT ![r] = todo[r]]
  BY RunIs DEF RunsKeyed
<1>2. ASSUME NEW l \in {"usable", "ddl", "ready"},
             pc[r] \in {"create", "usable", "ddl"},
             pc' = [pc EXCEPT ![r] = l],
             UNCHANGED <<verts, links, mentions, rows, wikiVars, indexed,
                         runVars, todo, histVars>>,
             space' \in {"created", "usable", "tagged", "ready"}
      PROVE  IInv'
  <2>1. /\ l \in Begun /\ pc[r] \in Begun
        /\ {pc[r], l} \cap (
             {"mention", "entities", "edges", "file", "page", "page_row"}
             \cup Mentioned \cup Answered \cup Recorded \cup Filed \cup Paging)
             = {}
    BY <1>2 DEF Begun, Mentioned, Answered, Recorded, Edged, Filed, Paging
  <2>2. Grown /\ StoresTyped'
    BY <1>1, <1>2 DEF Grown, StoresTyped, wikiVars, histVars
  <2>3. todo[r] \subseteq Entity
    BY <1>1, <2>1 DEF RunTyped
  <2>4. pc'[r] = l /\ asked'[r] = asked[r]
    BY <1>1, <1>2 DEF RunsKeyed, histVars
  <2>5. Fine(r) => Fine(r)'
    <3>1. Fine(r) => InCommunities(r)' /\ InWiki(r)'
      BY <2>1, <2>4, NotFiledIsFine DEF Fine
    <3>2. InGraph(r)'
      BY <2>1, <2>4 DEF InGraph
    <3>3. QED
      BY <3>1, <3>2 DEF Fine
  <2>6. QED
    BY <1>1, <1>2, <2>1, <2>2, <2>3, <2>5, GotoKeeps DEF wikiVars
<1>3. CASE CreateSpace(r)
  BY <1>1, <1>2, <1>3 DEF CreateSpace, Goto, StoresTyped
<1>4. CASE SpaceUsable(r)
  BY <1>1, <1>2, <1>4
  DEF SpaceUsable, Usable, Goto, StoresTyped, storeVars, graphVars
<1>5. CASE CreateSchema(r)
  BY <1>1, <1>2, <1>5, RaiseKeepsIInv DEF CreateSchema, Usable, Goto
<1>6. CASE SchemaReady(r)
  <2>1. /\ pc[r] = "ready" /\ pc' = [pc EXCEPT ![r] = "mention"]
        /\ todo' = [todo EXCEPT ![r] = Links[batch[r]] \X Parts]
        /\ UNCHANGED <<storeVars, runVars, histVars>>
    BY <1>6 DEF SchemaReady, Goto
  <2>2. /\ "mention" \in Begun /\ pc[r] \in Begun
        /\ "mention" \notin {"entities", "edges", "file", "page", "page_row"}
             \cup Mentioned \cup Answered \cup Recorded \cup Filed \cup Paging
        /\ "ready" \notin {"page", "page_row"} \cup Paging
    BY <2>1 DEF Begun, Mentioned, Answered, Recorded, Edged, Filed, Paging
  <2>3. Grown /\ StoresTyped'
    BY <2>1, StoresRest DEF histVars
  <2>4. Links[batch[r]] \X Parts \subseteq Entity \X Parts
    BY <2>1, RunIs, ConstantsAssumption
  <2>5. /\ pc'[r] = "mention" /\ todo'[r] = Links[batch[r]] \X Parts
        /\ batch'[r] = batch[r] /\ asked'[r] = asked[r]
    BY <1>1, <2>1 DEF RunsKeyed, runVars, histVars
  <2>6. Fine(r) => Fine(r)'
    <3>1. Fine(r) => InCommunities(r)' /\ InWiki(r)'
      BY <2>1, <2>2, <2>5, NotFiledIsFine DEF Fine
    <3>2. InGraph(r)'
      BY <2>2, <2>5 DEF InGraph, Parts
    <3>3. QED
      BY <3>1, <3>2 DEF Fine
  <2>7. UNCHANGED <<file, contexts>>
    BY <2>1 DEF storeVars, wikiVars
  <2>8. QED
    BY <2>1, <2>2, <2>3, <2>4, <2>6, <2>7, GotoKeeps
<1>7. CASE GiveUp(r)
  BY <1>7, RaiseKeepsIInv DEF GiveUp
<1>8. QED
  BY <1>3, <1>4, <1>5, <1>6, <1>7 DEF EnsureSpace

-----------------------------------------------------------------------------
(* The graph: a phase is over when nothing is left to do, and all that was *)
(* to do is written.                                                       *)

LEMMA PhaseLabels ==
  /\ {"mention", "agent", "entities", "rows", "edges", "export"}
       \subseteq Begun
  /\ {"mention", "agent", "entities", "rows", "edges", "export"} \cap
       ({"file", "page", "page_row"} \cup Filed \cup Paging) = {}
  /\ {"agent", "entities", "rows", "edges", "export"} \subseteq Mentioned
  /\ {"rows", "edges", "export"} \subseteq Answered
  /\ {"edges", "export"} \subseteq Recorded
  /\ "mention" \notin Mentioned \cup Answered \cup Recorded
  /\ "agent" \notin Answered \cup Recorded
  /\ "entities" \notin Answered \cup Recorded
  /\ "rows" \notin Recorded
BY DEF Begun, Mentioned, Answered, Recorded, Edged, Filed, Paging

\* A step between phases, or in one.
LEMMA PhaseKeeps ==
  ASSUME IInv, NEW r \in Run, NEW t,
         NEW l \in {"mention", "agent", "entities", "rows", "edges", "export"},
         pc[r] \in {"mention", "agent", "entities", "rows", "edges"},
         pc' = [pc EXCEPT ![r] = l], todo' = [todo EXCEPT ![r] = t],
         UNCHANGED <<runVars, histVars, file, contexts>>,
         Grown, StoresTyped',
         t \subseteq IF l = "mention" THEN Entity \X Parts
                     ELSE IF l = "edges" THEN Entity \X Entity ELSE Entity,
         pc'[r] = l /\ todo'[r] = t /\ batch'[r] = batch[r]
           /\ answer'[r] = answer[r] => (InGraph(r) => InGraph(r)')
  PROVE  IInv'
<1>1. RunsKeyed
  BY RunIs
<1>2. /\ pc'[r] = l /\ todo'[r] = t /\ batch'[r] = batch[r]
      /\ answer'[r] = answer[r] /\ asked'[r] = asked[r]
  BY <1>1 DEF RunsKeyed, runVars, histVars
<1>3. /\ l \in Begun /\ l \notin {"file"} \cup Filed
      /\ pc[r] \in Begun /\ pc[r] \notin Paging
      /\ l \notin {"page", "page_row"} /\ pc[r] \notin {"page", "page_row"}
  BY PhaseLabels
<1>4. Fine(r) => Fine(r)'
  BY <1>2, <1>3, NotFiledIsFine DEF Fine
<1>5. QED
  BY <1>3, <1>4, GotoKeeps

LEMMA UpsertMentionKeepsIInv ==
  ASSUME IInv, NEW r \in Run, NEW e \in Entity,
         UpsertMentioned(r, e) \/ UpsertMention(r, e)
  PROVE  IInv'
<1>1. /\ StoresTyped /\ RunsKeyed /\ RunTyped(r) /\ batch[r] \in Batch
      /\ pc = [pc EXCEPT ![r] = pc[r]]
  BY RunIs DEF RunsKeyed, UpsertMentioned, UpsertMention, Statement
<1>2. PICK x :
      /\ pc[r] = "mention" /\ todo' = [todo EXCEPT ![r] = todo[r] \ {x}]
      /\ pc' = [pc EXCEPT ![r] = "mention"]
      /\ UNCHANGED <<links, space, rows, wikiVars, indexed, runVars, histVars>>
      /\ \/ /\ verts' = [verts EXCEPT ![e] = IF @ = None THEN "bare" ELSE @]
            /\ x = <<e, "vertex">> /\ mentions' = mentions
         \/ /\ mentions' = mentions \cup {<<batch[r], e>>}
            /\ x = <<e, "edge">> /\ verts' = verts
  BY <1>1 DEF UpsertMentioned, UpsertMention, Statement
<1>3. Grown
  BY <1>1, <1>2 DEF Grown, StoresTyped, wikiVars
<1>4. StoresTyped'
  <2>1. verts' \in [Entity -> Batch \cup {None, "bare"}]
    BY <1>1, <1>2 DEF StoresTyped
  <2>2. mentions' \subseteq Batch \X Entity
    BY <1>1, <1>2 DEF StoresTyped
  <2>3. QED
    BY <1>1, <1>2, <2>1, <2>2 DEF StoresTyped, wikiVars, histVars
<1>5. todo[r] \ {x} \subseteq Entity \X Parts
  BY <1>1, <1>2, PhaseLabels DEF RunTyped
<1>6. ASSUME pc'[r] = "mention", todo'[r] = todo[r] \ {x},
             batch'[r] = batch[r], InGraph(r)
      PROVE  InGraph(r)'
  <2>1. \A d \in Links[batch[r]] :
          <<batch[r], d>> \in mentions \/ <<d, "edge">> \in todo[r]
    BY <1>2, <1>6, PhaseLabels DEF InGraph
  <2>2. \A d \in Links[batch[r]] :
          <<batch[r], d>> \in mentions' \/ <<d, "edge">> \in todo[r] \ {x}
    <3>1. CASE x = <<e, "vertex">> /\ mentions' = mentions
      <4>1. \A d : <<d, "edge">> # x
        BY <3>1
      <4>2. QED
        BY <2>1, <3>1, <4>1
    <3>2. CASE x = <<e, "edge">>
               /\ mentions' = mentions \cup {<<batch[r], e>>}
      <4>1. ASSUME NEW d, <<d, "edge">> = x PROVE d = e
        BY <3>2, <4>1
      <4>2. QED
        BY <2>1, <3>2, <4>1
    <3>3. QED
      BY <1>2, <3>1, <3>2
  <2>3. QED
    BY <1>6, <2>2, PhaseLabels DEF InGraph
<1>7. QED
  BY <1>2, <1>3, <1>4, <1>5, <1>6, PhaseKeeps DEF wikiVars

LEMMA UpsertEntityKeepsIInv ==
  ASSUME IInv, NEW r \in Run, NEW e \in Entity, UpsertEntity(r, e)
  PROVE  IInv'
<1>1. /\ StoresTyped /\ RunsKeyed /\ RunTyped(r) /\ batch[r] \in Batch
      /\ pc = [pc EXCEPT ![r] = pc[r]]
  BY RunIs DEF RunsKeyed, UpsertEntity, Statement
<1>2. /\ pc[r] = "entities" /\ todo' = [todo EXCEPT ![r] = todo[r] \ {e}]
      /\ pc' = [pc EXCEPT ![r] = "entities"]
      /\ verts' = [verts EXCEPT ![e] = IF @ = None THEN batch[r] ELSE @]
      /\ UNCHANGED <<links, mentions, space, rows, wikiVars, indexed, runVars,
                     histVars>>
  BY <1>1 DEF UpsertEntity, Statement
<1>3. batch[r] # None
  BY <1>1, ConstantsAssumption
<1>4. verts'[e] # None /\ Grown
  BY <1>1, <1>2, <1>3 DEF Grown, StoresTyped, wikiVars
<1>5. StoresTyped'
  <2>1. verts' \in [Entity -> Batch \cup {None, "bare"}]
    BY <1>1, <1>2 DEF StoresTyped
  <2>2. QED
    BY <1>1, <1>2, <2>1 DEF StoresTyped, wikiVars, histVars
<1>6. todo[r] \ {e} \subseteq Entity /\ answer[r].ents \subseteq Entity
  BY <1>1, <1>2, PhaseLabels DEF RunTyped
<1>7. ASSUME pc'[r] = "entities", todo'[r] = todo[r] \ {e},
             batch'[r] = batch[r], answer'[r] = answer[r], InGraph(r)
      PROVE  InGraph(r)'
  BY <1>2, <1>4, <1>6, <1>7, PhaseLabels DEF InGraph, Grown
<1>8. QED
  BY <1>2, <1>4, <1>5, <1>6, <1>7, PhaseKeeps DEF wikiVars

LEMMA UpsertEdgeKeepsIInv ==
  ASSUME IInv, NEW r \in Run, NEW x \in Entity \X Entity, UpsertEdge(r, x)
  PROVE  IInv'
<1>1. /\ StoresTyped /\ RunsKeyed /\ RunTyped(r)
      /\ pc = [pc EXCEPT ![r] = pc[r]]
  BY RunIs DEF RunsKeyed
<1>2. /\ pc[r] = "edges" /\ todo' = [todo EXCEPT ![r] = todo[r] \ {x}]
      /\ pc' = [pc EXCEPT ![r] = "edges"] /\ links' = links \cup {x}
      /\ UNCHANGED <<verts, mentions, space, rows, wikiVars, indexed, runVars,
                     histVars>>
  BY <1>1 DEF UpsertEdge, Statement
<1>3. Grown /\ StoresTyped'
  BY <1>1, <1>2 DEF Grown, StoresTyped, wikiVars, histVars
<1>4. todo[r] \ {x} \subseteq Entity \X Entity
  BY <1>1, <1>2 DEF RunTyped
<1>5. ASSUME pc'[r] = "edges", todo'[r] = todo[r] \ {x},
             batch'[r] = batch[r], answer'[r] = answer[r], InGraph(r)
      PROVE  InGraph(r)'
  BY <1>2, <1>5, PhaseLabels DEF InGraph
<1>6. QED
  BY <1>2, <1>3, <1>4, <1>5, PhaseKeeps DEF wikiVars

LEMMA EndOfPhaseKeepsIInv ==
  ASSUME IInv, NEW r \in Run, EndMentions(r) \/ EndEntities(r) \/ EndEdges(r)
  PROVE  IInv'
<1>1. /\ RunTyped(r) /\ todo = [todo EXCEPT ![r] = todo[r]]
  BY RunIs DEF RunsKeyed
<1>2. /\ todo[r] = {} /\ UNCHANGED <<storeVars, runVars, histVars, todo>>
      /\ \/ pc[r] = "mention" /\ pc' = [pc EXCEPT ![r] = "agent"]
         \/ pc[r] = "entities" /\ pc' = [pc EXCEPT ![r] = "rows"]
         \/ pc[r] = "edges" /\ pc' = [pc EXCEPT ![r] = "export"]
  BY DEF EndMentions, EndEntities, EndEdges, PhaseEnds, Goto
<1>3. Grown /\ StoresTyped' /\ UNCHANGED <<file, contexts>>
  BY <1>2, StoresRest DEF histVars, storeVars, wikiVars
<1>4. UNCHANGED <<verts, rows, links, mentions>>
  BY <1>2 DEF storeVars, graphVars
<1>5. CASE pc[r] = "mention" /\ pc' = [pc EXCEPT ![r] = "agent"]
  <2>1. ASSUME pc'[r] = "agent", todo'[r] = todo[r], batch'[r] = batch[r],
               InGraph(r)
        PROVE  InGraph(r)'
    BY <1>2, <1>4, <1>5, <2>1, PhaseLabels DEF InGraph
  <2>2. QED
    BY <1>1, <1>2, <1>3, <1>5, <2>1, PhaseKeeps
<1>6. CASE pc[r] = "entities" /\ pc' = [pc EXCEPT ![r] = "rows"]
  <2>1. ASSUME pc'[r] = "rows", todo'[r] = todo[r], batch'[r] = batch[r],
               answer'[r] = answer[r], InGraph(r)
        PROVE  InGraph(r)'
    BY <1>2, <1>4, <1>6, <2>1, PhaseLabels DEF InGraph
  <2>2. QED
    BY <1>1, <1>2, <1>3, <1>6, <2>1, PhaseKeeps
<1>7. CASE pc[r] = "edges" /\ pc' = [pc EXCEPT ![r] = "export"]
  <2>1. ASSUME pc'[r] = "export", todo'[r] = todo[r], batch'[r] = batch[r],
               answer'[r] = answer[r], InGraph(r)
        PROVE  InGraph(r)'
    BY <1>2, <1>4, <1>7, <2>1, PhaseLabels DEF InGraph
  <2>2. QED
    BY <1>1, <1>2, <1>3, <1>7, <2>1, PhaseKeeps
<1>8. QED
  BY <1>2, <1>5, <1>6, <1>7

LEMMA ExtractSemanticKeepsIInv ==
  ASSUME IInv, NEW r \in Run, NEW a, ExtractSemantic(r, a)
  PROVE  IInv'
<1>1. /\ StoresTyped /\ RunsKeyed /\ RunTyped(r) /\ batch[r] \in Batch
  BY RunIs DEF ExtractSemantic
<1>2. /\ pc[r] = "agent" /\ pc'[r] = "entities"
      /\ answer'[r] = a /\ todo'[r] = a.ents /\ batch'[r] = batch[r]
      /\ skip'[r] = skip[r] /\ records'[r] = records[r] /\ page'[r] = page[r]
      /\ asked'[r] = asked[r] /\ blind'[r] = blind[r]
      /\ UNCHANGED <<storeVars, histVars>>
  BY <1>1 DEF ExtractSemantic, Goto, RunsKeyed, histVars
<1>3. OthersRest(r) /\ RunsKeyed'
  BY <1>1 DEF ExtractSemantic, Goto, RunsKeyed, OthersRest, histVars
<1>4. Grown /\ StoresTyped' /\ \A b : Kept(b)
  BY <1>2, StoresRest DEF histVars
<1>5. a \in [ents : SUBSET Entity, edges : SUBSET (Entity \X Entity)]
  BY <1>1, ConstantsAssumption DEF ExtractSemantic, NoAnswer
<1>6. RunTyped(r)'
  <2>1. /\ "entities" \in Labels /\ "entities" \notin {"mention", "edges"} \cup Filed
        /\ {"entities", "agent"} \cap {"page", "page_row"} = {}
    BY DEF Labels, Filed, Paging
  <2>2. QED
    BY <1>1, <1>2, <1>5, <2>1 DEF RunTyped
<1>7. Moves(r)
  BY <1>2, <1>3, PhaseLabels DEF Moves
<1>8. ASSUME Fine(r) PROVE Fine(r)'
  <2>1. InCommunities(r)' /\ InWiki(r)'
    BY <1>2, <1>8, PhaseLabels, NotFiledIsFine DEF Fine
  <2>2. InGraph(r)'
    BY <1>2, <1>8, PhaseLabels DEF Fine, InGraph, storeVars, graphVars
  <2>3. QED
    BY <2>1, <2>2 DEF Fine
<1>9. QED
  BY <1>4, <1>6, <1>7, <1>8, MovesKeep

LEMMA SyncEntitiesKeepsIInv ==
  ASSUME IInv, NEW r \in Run, SyncEntities(r)
  PROVE  IInv'
<1>1. StoresTyped /\ RunTyped(r) /\ batch[r] \in Batch
  BY RunIs DEF SyncEntities
<1>2. /\ pc[r] = "rows" /\ pc' = [pc EXCEPT ![r] = "edges"]
      /\ rows' = [e \in Entity |->
                    IF e \in answer[r].ents THEN batch[r] ELSE rows[e]]
      /\ todo' = [todo EXCEPT ![r] = answer[r].edges]
      /\ UNCHANGED <<space, verts, links, mentions, wikiVars, indexed, runVars,
                     histVars>>
  BY DEF SyncEntities, Goto, graphVars
<1>3. batch[r] # None
  BY <1>1, ConstantsAssumption
<1>4. /\ answer[r].ents \subseteq Entity
      /\ answer[r].edges \subseteq Entity \X Entity
  BY <1>1 DEF RunTyped
<1>5. /\ \A e \in answer[r].ents : rows'[e] # None
      /\ Grown
  BY <1>2, <1>3, <1>4 DEF Grown, wikiVars
<1>6. StoresTyped'
  BY <1>1, <1>2 DEF StoresTyped, wikiVars, histVars
<1>7. ASSUME pc'[r] = "edges", todo'[r] = answer[r].edges,
             batch'[r] = batch[r], answer'[r] = answer[r], InGraph(r)
      PROVE  InGraph(r)'
  BY <1>2, <1>5, <1>7, PhaseLabels DEF InGraph
<1>8. QED
  BY <1>2, <1>4, <1>5, <1>6, <1>7, PhaseKeeps DEF wikiVars

LEMMA GraphPipelineKeepsIInv ==
  ASSUME IInv, NEW r \in Run, RunGraphPipeline(r)
  PROVE  IInv'
<1>1. CASE UpsertSemanticEdges(r)
  BY <1>1, UpsertEntityKeepsIInv, UpsertEdgeKeepsIInv, EndOfPhaseKeepsIInv,
     SyncEntitiesKeepsIInv DEF UpsertSemanticEdges
<1>2. CASE StatementFails(r)
  BY <1>2, RaiseKeepsIInv DEF StatementFails
<1>3. QED
  BY <1>1, <1>2, SubmitKeepsIInv, SpaceKeepsIInv, UpsertMentionKeepsIInv,
     EndOfPhaseKeepsIInv, ExtractSemanticKeepsIInv DEF RunGraphPipeline

-----------------------------------------------------------------------------
(* Communities.                                                            *)

LEMMA CommunityLabels ==
  /\ {"export", "file", "context", "wiki", "page", "page_row"} \subseteq
       Begun \cap Edged \cap Labels
  /\ {"export", "file"} \cap (Filed \cup Paging \cup {"page", "page_row"}) = {}
  /\ {"context", "wiki", "page", "page_row"} = Filed
  /\ {"wiki", "page", "page_row"} = Paging
  /\ "edges" \notin Filed
BY DEF Begun, Mentioned, Answered, Recorded, Edged, Filed, Paging, Labels

\* A community holds the entity it is connected to, so where there is an edge
\* to see there is a community.
LEMMA DetectedIsSome ==
  ASSUME NEW E, E \subseteq Entity \X Entity, E # {}, NEW f \in Detected(E)
  PROVE  f # <<>>
<1>1. PICK x \in E : UNION {f[k] : k \in DOMAIN f} = Component(x[1], E)
  BY Zenon DEF Detected
<1>2. x[1] \in Component(x[1], E)
  BY DEF Component
<1>3. PICK k : k \in DOMAIN f
  BY <1>1, <1>2
<1>4. DOMAIN <<>> = {}
  OBVIOUS
<1>5. QED
  BY <1>3, <1>4, Zenon

\* What the agent found is there for the export to read.
LEMMA ExportedIsSome ==
  ASSUME NEW r \in Run, RunTyped(r), StoresTyped, InGraph(r),
         pc[r] = "export", HasEdge(answer[r])
  PROVE  Exported(r) # {}
<1>1. PICK x \in answer[r].edges : {x[1], x[2]} \subseteq answer[r].ents
  BY DEF HasEdge
<1>2. "export" \in Recorded /\ "export" \in {"entities"} \cup Answered
  BY DEF Answered, Recorded, Edged
<1>3. x \in links /\ verts[x[1]] # None /\ verts[x[2]] # None
  BY <1>1, <1>2 DEF InGraph
<1>4. x \in Exported(r)
  BY <1>1, <1>3 DEF Exported
<1>5. QED
  BY <1>4

LEMMA ExportAndDetectKeepsIInv ==
  ASSUME IInv, NEW r \in Run, NEW f \in Clusterings, ExportAndDetect(r, f)
  PROVE  IInv'
<1>1. Typed /\ StoresTyped /\ RunsKeyed /\ RunTyped(r)
  BY RunIs
<1>2. PICK E \in {Exported(r), {}} :
        f \in Detected(E) /\ blind' = [blind EXCEPT ![r] = E # Exported(r)]
  BY DEF ExportAndDetect
<1>3. blind'[r] = (E # Exported(r))
  BY <1>1, <1>2 DEF RunsKeyed
<1>4. /\ pc[r] = "export" /\ pc'[r] = "file" /\ records'[r] = f
      /\ batch'[r] = batch[r] /\ skip'[r] = skip[r] /\ answer'[r] = answer[r]
      /\ todo'[r] = todo[r] /\ page'[r] = page[r] /\ asked'[r] = asked[r]
      /\ blind'[r] \in BOOLEAN /\ UNCHANGED <<storeVars, histVars>>
  BY <1>1, <1>3 DEF ExportAndDetect, Goto, RunsKeyed, histVars
<1>5. OthersRest(r) /\ RunsKeyed'
  BY <1>1, <1>2 DEF ExportAndDetect, Goto, RunsKeyed, OthersRest, histVars
<1>6. Grown /\ StoresTyped' /\ \A b : Kept(b)
  BY <1>4, StoresRest DEF histVars
<1>7. RunTyped(r)'
  BY <1>1, <1>4, CommunityLabels DEF RunTyped
<1>8. Moves(r)
  BY <1>4, <1>5, CommunityLabels DEF Moves
<1>9. ASSUME Fine(r) PROVE Fine(r)'
  <2>1. InGraph(r)'
    BY <1>1, <1>4, <1>6, <1>9, CommunityLabels, GraphIsFine DEF Fine
  <2>2. ASSUME HasEdge(answer[r]), ~blind'[r] PROVE f # <<>>
    <3>1. Exported(r) # {}
      BY <1>1, <1>4, <1>9, <2>2, ExportedIsSome DEF Fine
    <3>2. Exported(r) \subseteq Entity \X Entity
      BY <1>1 DEF Exported, StoresTyped
    <3>3. f \in Detected(Exported(r))
      BY <1>2, <1>3, <2>2
    <3>4. QED
      BY <3>1, <3>2, <3>3, DetectedIsSome
  <2>3. InCommunities(r)'
    BY <1>4, <2>2, CommunityLabels DEF InCommunities
  <2>4. InWiki(r)'
    BY <1>4, <1>9, CommunityLabels DEF Fine, InWiki
  <2>5. QED
    BY <2>1, <2>3, <2>4 DEF Fine
<1>10. QED
  BY <1>6, <1>7, <1>8, <1>9, MovesKeep

LEMMA WriteCommunitiesKeepsIInv ==
  ASSUME IInv, NEW r \in Run, WriteCommunities(r)
  PROVE  IInv'
<1>1. /\ Typed /\ StoresTyped /\ RunsKeyed /\ RunTyped(r)
      /\ batch[r] \in Batch /\ records[r] \in Clusterings
  BY RunIs DEF WriteCommunities, RunTyped
<1>2. /\ pc[r] = "file" /\ pc' = [pc EXCEPT ![r] = "context"]
      /\ todo' = [todo EXCEPT ![r] = DOMAIN records[r]]
      /\ file' = [file EXCEPT ![batch[r]] = records[r]]
      /\ UNCHANGED <<graphVars, rows, contexts, comms, pages, pageRows,
                     indexed, runVars, histVars>>
  BY DEF WriteCommunities, Goto
<1>3. /\ Moves(r) /\ pc'[r] = "context" /\ todo'[r] = DOMAIN records[r]
      /\ UNCHANGED <<batch, skip, answer, records, blind, page, asked>>
  BY <1>2, CommunityLabels, GotoMoves
<1>4. Grown /\ \A b \in Batch \ {batch[r]} : Kept(b)
  BY <1>1, <1>2 DEF Grown, Kept, graphVars, StoresTyped
<1>5. StoresTyped'
  BY <1>1, <1>2 DEF StoresTyped, graphVars, histVars
<1>6. RunTyped(r)'
  BY <1>1, <1>2, <1>3, CommunityLabels DEF RunTyped
<1>7. ASSUME Fine(r) PROVE Fine(r)'
  <2>1. InGraph(r)'
    BY <1>1, <1>2, <1>3, <1>4, <1>7, CommunityLabels, GraphIsFine DEF Fine
  <2>2. file'[batch[r]] = records[r]
    BY <1>1, <1>2 DEF StoresTyped
  <2>3. InCommunities(r)'
    BY <1>2, <1>3, <1>7, <2>2, CommunityLabels DEF Fine, InCommunities
  <2>4. InWiki(r)'
    BY <1>2, <1>3, <1>7, CommunityLabels DEF Fine, InWiki
  <2>5. QED
    BY <2>1, <2>3, <2>4 DEF Fine
<1>8. QED
  BY <1>3, <1>4, <1>5, <1>6, <1>7, MovesKeep

LEMMA WriteContextKeepsIInv ==
  ASSUME IInv, NEW r \in Run, WriteContext(r), Usable
  PROVE  IInv'
<1>1. /\ Typed /\ StoresTyped /\ RunsKeyed /\ RunTyped(r)
      /\ batch[r] \in Batch /\ records[r] \in Clusterings
      /\ pc = [pc EXCEPT ![r] = pc[r]]
  BY RunIs DEF WriteContext, RunTyped, RunsKeyed
<1> DEFINE k == Current(r)
<1>2. /\ pc[r] = "context" /\ pc' = [pc EXCEPT ![r] = "context"]
      /\ todo[r] # {} /\ todo' = [todo EXCEPT ![r] = todo[r] \ {k}]
      /\ contexts' = [contexts EXCEPT ![<<batch[r], k>>] = records[r][k]]
      /\ UNCHANGED <<graphVars, rows, file, comms, pages, pageRows,
                     indexed, runVars, histVars>>
  BY <1>1 DEF WriteContext
<1>3. /\ k \in DOMAIN records[r] /\ k \in Cluster
      /\ records[r][k] \subseteq Entity
  <2>1. /\ todo[r] \subseteq DOMAIN records[r]
        /\ DOMAIN records[r] \subseteq Cluster
        /\ \A c \in DOMAIN records[r] : records[r][c] \subseteq Entity
    BY <1>1, <1>2, CommunityLabels, ClustersOf DEF RunTyped
  <2>2. todo[r] \subseteq Nat
    BY <2>1, ConstantsAssumption DEF Cluster
  <2>3. k \in todo[r]
    BY <1>2, <2>2, CurrentIsLeft
  <2>4. QED
    BY <2>1, <2>3
<1> HIDE DEF k
<1>4. PICK t : t = todo[r] \ {k}
  OBVIOUS
<1>5. /\ Moves(r) /\ pc'[r] = "context" /\ todo'[r] = t
      /\ UNCHANGED <<batch, skip, answer, records, blind, page, asked>>
  BY <1>2, <1>4, CommunityLabels, GotoMoves
<1>6. Grown /\ \A b \in Batch \ {batch[r]} : Kept(b)
  BY <1>1, <1>2, <1>3 DEF Grown, Kept, graphVars, StoresTyped, Community
<1>7. StoresTyped'
  <2>1. contexts' \in [Community -> SUBSET Entity]
    BY <1>1, <1>2, <1>3 DEF StoresTyped
  <2>2. QED
    BY <1>1, <1>2, <2>1 DEF StoresTyped, graphVars, histVars
<1>8. RunTyped(r)'
  BY <1>1, <1>2, <1>4, <1>5, CommunityLabels DEF RunTyped
<1>9. ASSUME Fine(r) PROVE Fine(r)'
  <2>1. InGraph(r)'
    BY <1>1, <1>2, <1>5, <1>6, <1>9, CommunityLabels, GraphIsFine DEF Fine
  <2>2. InCommunities(r)'
    <3>1. ASSUME NEW c \in DOMAIN records[r]
          PROVE  contexts'[<<batch[r], c>>] = records[r][c] \/ c \in t
      <4>1. <<batch[r], c>> \in Community
        BY <1>1, <3>1, ClustersOf DEF Community
      <4>2. contexts[<<batch[r], c>>] = records[r][c] \/ c \in todo[r]
        BY <1>2, <1>9, <3>1, CommunityLabels DEF Fine, InCommunities
      <4>3. CASE c = k
        BY <1>1, <1>2, <4>1, <4>3 DEF StoresTyped
      <4>4. CASE c # k
        <5>1. contexts'[<<batch[r], c>>] = contexts[<<batch[r], c>>]
          BY <1>1, <1>2, <4>1, <4>4 DEF StoresTyped
        <5>2. QED
          BY <1>4, <4>2, <4>4, <5>1
      <4>5. QED
        BY <4>3, <4>4
    <3>2. file[batch[r]] = records[r]
      BY <1>2, <1>9, CommunityLabels DEF Fine, InCommunities
    <3>3. HasEdge(answer[r]) /\ ~blind[r] => records[r] # <<>>
      BY <1>2, <1>9, CommunityLabels DEF Fine, InCommunities
    <3>4. QED
      BY <1>2, <1>5, <3>1, <3>2, <3>3, CommunityLabels DEF InCommunities
  <2>3. InWiki(r)'
    BY <1>2, <1>5, <1>9, CommunityLabels DEF Fine, InWiki
  <2>4. QED
    BY <2>1, <2>2, <2>3 DEF Fine
<1>10. QED
  BY <1>5, <1>6, <1>7, <1>8, <1>9, MovesKeep

LEMMA UpsertCommunitiesKeepsIInv ==
  ASSUME IInv, NEW r \in Run, UpsertCommunities(r)
  PROVE  IInv'
<1>1. /\ Typed /\ StoresTyped /\ RunsKeyed /\ RunTyped(r)
      /\ batch[r] \in Batch /\ DOMAIN records[r] \subseteq Cluster
  BY RunIs, ClustersOf DEF UpsertCommunities, RunTyped
<1>2. /\ pc[r] = "context" /\ pc' = [pc EXCEPT ![r] = "wiki"]
      /\ todo[r] = {} /\ todo' = [todo EXCEPT ![r] = DOMAIN records[r]]
      /\ comms' = comms \cup ({batch[r]} \X DOMAIN records[r])
      /\ UNCHANGED <<graphVars, rows, file, contexts, pages, pageRows,
                     indexed, runVars, histVars>>
  BY DEF UpsertCommunities, Goto
<1>3. /\ Moves(r) /\ pc'[r] = "wiki" /\ todo'[r] = DOMAIN records[r]
      /\ UNCHANGED <<batch, skip, answer, records, blind, page, asked>>
  BY <1>2, CommunityLabels, GotoMoves
<1>4. Grown /\ \A b : Kept(b)
  BY <1>2 DEF Grown, Kept, graphVars
<1>5. StoresTyped'
  <2>1. comms' \subseteq Community
    BY <1>1, <1>2 DEF StoresTyped, Community
  <2>2. QED
    BY <1>1, <1>2, <2>1 DEF StoresTyped, graphVars, histVars
<1>6. ASSUME Fine(r) PROVE Fine(r)'
  <2>1. InGraph(r)'
    BY <1>1, <1>2, <1>3, <1>4, <1>6, CommunityLabels, GraphIsFine DEF Fine
  <2>2. InCommunities(r)'
    BY <1>2, <1>3, <1>6, CommunityLabels DEF Fine, InCommunities
  <2>3. InWiki(r)'
    BY <1>2, <1>3, <1>6, CommunityLabels DEF Fine, InWiki
  <2>4. QED
    BY <2>1, <2>2, <2>3 DEF Fine
<1>7. QED
  BY <1>2, <1>4, <1>5, <1>6, CommunityLabels, GotoKeeps

LEMMA CommunityPipelineKeepsIInv ==
  ASSUME IInv, NEW r \in Run, RunCommunityPipeline(r)
  PROVE  IInv'
<1>1. CASE WriteContext(r)
  BY <1>1, WriteContextKeepsIInv, RaiseKeepsIInv DEF WriteContext
<1>2. CASE ExportFails(r)
  BY <1>2, RaiseKeepsIInv DEF ExportFails
<1>3. QED
  BY <1>1, <1>2, ExportAndDetectKeepsIInv, WriteCommunitiesKeepsIInv,
     UpsertCommunitiesKeepsIInv DEF RunCommunityPipeline

-----------------------------------------------------------------------------
(* Wiki: of the communities that are not left, and of the current one once *)
(* the wiki-synthesizer was asked, each page is stored or on the list.     *)

\* The community a run is at, and the page it has next.
LEMMA CurrentIsCommunity ==
  ASSUME IInv, NEW r \in Run, pc[r] \in Paging, todo[r] # {}
  PROVE  /\ Current(r) \in todo[r] /\ Current(r) \in DOMAIN records[r]
         /\ <<batch[r], Current(r)>> \in Community
<1>1. RunTyped(r) /\ batch[r] \in Batch
  BY RunIs, CommunityLabels
<1>2. /\ todo[r] \subseteq DOMAIN records[r]
      /\ DOMAIN records[r] \subseteq Cluster
  BY <1>1, ClustersOf, CommunityLabels DEF RunTyped
<1>3. todo[r] \subseteq Nat
  BY <1>2, ConstantsAssumption DEF Cluster
<1>4. Current(r) \in todo[r]
  BY <1>3, CurrentIsLeft
<1>5. QED
  BY <1>1, <1>2, <1>4 DEF Community

LEMMA SynthesizeKeepsIInv ==
  ASSUME IInv, NEW r \in Run, NEW p, Synthesize(r, p)
  PROVE  IInv'
<1> DEFINE k == Current(r)
<1>1. /\ Typed /\ StoresTyped /\ RunsKeyed /\ RunTyped(r)
      /\ pc = [pc EXCEPT ![r] = pc[r]] /\ todo = [todo EXCEPT ![r] = todo[r]]
  BY RunIs DEF RunsKeyed
<1>2. /\ pc[r] = "wiki" /\ todo[r] # {}
      /\ page'[r] = p /\ asked'[r] = asked[r] \cup {<<k, p>>}
      /\ IF p = <<>> THEN todo'[r] = todo[r] \ {k} /\ pc'[r] = "wiki"
         ELSE todo'[r] = todo[r] /\ pc'[r] = "page"
      /\ batch'[r] = batch[r] /\ skip'[r] = skip[r] /\ answer'[r] = answer[r]
      /\ records'[r] = records[r] /\ blind'[r] = blind[r]
      /\ UNCHANGED <<storeVars, submits, purges, disturbed, settled, last,
                     dropped>>
  BY <1>1 DEF Synthesize, Goto, RunsKeyed
<1>3. OthersRest(r) /\ RunsKeyed'
  BY <1>1 DEF Synthesize, Goto, RunsKeyed, OthersRest
<1>4. Grown /\ StoresTyped' /\ \A b : Kept(b)
  BY <1>2, StoresRest
<1>5. k \in todo[r] /\ k \in DOMAIN records[r]
  BY <1>2, CurrentIsCommunity, CommunityLabels
<1>6. p \in Seq(Title)
  <2>1. <<Stub>> \in Seq(Title)
    BY ConstantsAssumption
  <2>2. QED
    BY <2>1, ConstantsAssumption DEF Synthesize
<1>7. RunTyped(r)'
  BY <1>1, <1>2, <1>6, CommunityLabels DEF RunTyped
<1>8. Moves(r)
  BY <1>2, <1>3, CommunityLabels DEF Moves
<1>9. \A c : (\E q \in asked'[r] : q[1] = c) <=>
                 (\E q \in asked[r] : q[1] = c) \/ c = k
  <2>1. asked'[r] = asked[r] \cup {<<k, p>>} /\ <<k, p>>[1] = k
    BY <1>2
  <2> HIDE DEF k
  <2>2. QED
    BY <2>1
<1>10. ASSUME Fine(r) PROVE Fine(r)'
  <2>1. InGraph(r)' /\ InCommunities(r)'
    BY <1>1, <1>2, <1>4, <1>10, CommunityLabels, GraphIsFine,
       CommunitiesAreFine
    DEF Fine
  <2>2. /\ \A c \in DOMAIN records[r] :
             (\E q \in asked[r] : q[1] = c) <=> c \notin todo[r]
        /\ \A q \in asked[r] : q[1] \in DOMAIN records[r]
        /\ \A q \in asked[r] : \A i \in DOMAIN q[2] :
             Stored(batch[r], q[1], q[2][i])
    BY <1>2, <1>10, CommunityLabels DEF Fine, InWiki
  <2>3. \A b, c, t : Stored(b, c, t)' <=> Stored(b, c, t)
    BY <1>2 DEF Stored, storeVars, wikiVars
  <2>4. CASE p = <<>>
    <3>1. \A c \in DOMAIN records[r] :
            (\E q \in asked'[r] : q[1] = c) <=> c \notin todo'[r]
      BY <1>5, <1>9, <2>2, <2>4, <1>2
    <3>2. \A q \in asked'[r] : q[1] \in DOMAIN records[r]
      BY <1>2, <1>5, <2>2
    <3>3. \A q \in asked'[r] : \A i \in DOMAIN q[2] :
            Stored(batch[r], q[1], q[2][i])
      BY <1>2, <2>2, <2>4
    <3>4. InWiki(r)'
      BY <1>2, <2>3, <2>4, <3>1, <3>2, <3>3, CommunityLabels DEF InWiki
    <3>5. QED
      BY <2>1, <3>4 DEF Fine
  <2>5. CASE p # <<>>
    <3>1. Current(r)' = k
      BY <1>2, <2>5 DEF Current
    <3>2. \A c \in DOMAIN records[r] :
            (\E q \in asked'[r] : q[1] = c) <=> c \notin todo'[r] \/ c = k
      BY <1>2, <1>5, <1>9, <2>2, <2>5
    <3>3. \A q \in asked'[r] : q[1] \in DOMAIN records[r]
      BY <1>2, <1>5, <2>2
    <3>4. \A q \in asked'[r] : \A i \in DOMAIN q[2] :
            \/ Stored(batch[r], q[1], q[2][i])
            \/ q[1] = k /\ \E j \in DOMAIN page'[r] : page'[r][j] = q[2][i]
      BY <1>2, <2>2
    <3> HIDE DEF k
    <3>5. InWiki(r)'
      BY <1>2, <2>3, <2>5, <3>1, <3>2, <3>3, <3>4, CommunityLabels DEF InWiki
    <3>6. QED
      BY <2>1, <3>5 DEF Fine
  <2>6. QED
    BY <2>4, <2>5
<1>11. QED
  BY <1>4, <1>7, <1>8, <1>10, MovesKeep

\* A page that is there for the run to store.
LEMMA PageIs ==
  ASSUME IInv, NEW r \in Run, pc[r] \in {"page", "page_row"}
  PROVE  /\ page[r] \in Seq(Title) /\ page[r] # <<>> /\ todo[r] # {}
         /\ Head(page[r]) = page[r][1] /\ ThisPage(r) \in Community \X Title
         /\ ThisPage(r) = <<<<batch[r], Current(r)>>, page[r][1]>>
<1>1. page[r] \in Seq(Title) /\ page[r] # <<>> /\ todo[r] # {}
  BY RunIs DEF RunTyped
<1>2. Head(page[r]) = page[r][1] /\ Head(page[r]) \in Title
  BY <1>1
<1>3. <<batch[r], Current(r)>> \in Community
  BY <1>1, CurrentIsCommunity, CommunityLabels
<1>4. QED
  BY <1>1, <1>2, <1>3 DEF ThisPage

LEMMA WriteWikiPageKeepsIInv ==
  ASSUME IInv, NEW r \in Run, WriteWikiPage(r)
  PROVE  IInv'
<1>1. /\ Typed /\ StoresTyped /\ RunsKeyed /\ RunTyped(r)
      /\ todo = [todo EXCEPT ![r] = todo[r]]
  BY RunIs DEF RunsKeyed
<1>2. /\ pc[r] = "page" /\ pc' = [pc EXCEPT ![r] = "page_row"]
      /\ pages' = pages \cup {ThisPage(r)}
      /\ UNCHANGED <<graphVars, rows, file, contexts, comms, pageRows,
                     indexed, runVars, todo, histVars>>
  BY DEF WriteWikiPage, Goto
<1>3. /\ Moves(r) /\ pc'[r] = "page_row" /\ todo'[r] = todo[r]
      /\ UNCHANGED <<batch, skip, answer, records, blind, page, asked>>
  BY <1>1, <1>2, CommunityLabels, GotoMoves
<1>4. Grown /\ \A b : Kept(b)
  BY <1>2 DEF Grown, Kept, graphVars
<1>5. StoresTyped'
  <2>1. pages' \subseteq Community \X Title
    BY <1>1, <1>2, PageIs DEF StoresTyped
  <2>2. QED
    BY <1>1, <1>2, <2>1 DEF StoresTyped, graphVars, histVars
<1>6. ASSUME Fine(r) PROVE Fine(r)'
  <2>1. InGraph(r)' /\ InCommunities(r)'
    BY <1>1, <1>2, <1>3, <1>4, <1>6, CommunityLabels, GraphIsFine,
       CommunitiesAreFine DEF Fine
  <2>2. Current(r)' = Current(r) /\ ThisPage(r)' = ThisPage(r)
    BY <1>2, <1>3 DEF Current, ThisPage
  <2>3. \A b, c, t : Stored(b, c, t) => Stored(b, c, t)'
    BY <1>2 DEF Stored
  <2>4. InWiki(r)'
    BY <1>2, <1>3, <1>6, <2>2, <2>3, CommunityLabels DEF Fine, InWiki
  <2>5. QED
    BY <2>1, <2>4 DEF Fine
<1>7. todo[r] # {} /\ todo[r] \subseteq DOMAIN records[r]
  BY <1>1, <1>2, CommunityLabels DEF RunTyped
<1>8. QED
  BY <1>1, <1>2, <1>4, <1>5, <1>6, <1>7, CommunityLabels, GotoKeeps

\* The page the run is at is stored for good; the others are on the list yet.
LEMMA IndexWikiPageKeepsIInv ==
  ASSUME IInv, NEW r \in Run, IndexWikiPage(r)
  PROVE  IInv'
<1> DEFINE k == Current(r)
<1>1. /\ Typed /\ StoresTyped /\ RunsKeyed /\ RunTyped(r)
  BY RunIs
<1>2. /\ pc[r] = "page_row" /\ page'[r] = Tail(page[r])
      /\ pageRows' = pageRows \cup {ThisPage(r)}
      /\ IF Len(page[r]) = 1 THEN todo'[r] = todo[r] \ {k} /\ pc'[r] = "wiki"
         ELSE todo'[r] = todo[r] /\ pc'[r] = "page"
      /\ batch'[r] = batch[r] /\ skip'[r] = skip[r] /\ answer'[r] = answer[r]
      /\ records'[r] = records[r] /\ asked'[r] = asked[r]
      /\ blind'[r] = blind[r]
      /\ UNCHANGED <<graphVars, rows, file, contexts, comms, pages, indexed,
                     histVars>>
  BY <1>1 DEF IndexWikiPage, Goto, RunsKeyed, histVars
<1>3. OthersRest(r) /\ RunsKeyed'
  BY <1>1 DEF IndexWikiPage, Goto, RunsKeyed, OthersRest, histVars
<1>4. /\ page[r] \in Seq(Title) /\ page[r] # <<>> /\ todo[r] # {}
      /\ ThisPage(r) \in Community \X Title
      /\ ThisPage(r) = <<<<batch[r], k>>, page[r][1]>>
  BY <1>2, PageIs
<1>5. Grown /\ StoresTyped' /\ \A b : Kept(b)
  BY <1>1, <1>2, <1>4 DEF Grown, Kept, StoresTyped, graphVars, histVars
<1>6. /\ Tail(page[r]) \in Seq(Title)
      /\ Tail(page[r]) = <<>> <=> Len(page[r]) = 1
      /\ \A j \in DOMAIN page[r] : j # 1 =>
           /\ j - 1 \in DOMAIN Tail(page[r])
           /\ Tail(page[r])[j - 1] = page[r][j]
  <2>1. Len(page[r]) \in Nat \ {0} /\ DOMAIN page[r] = 1..Len(page[r])
    BY <1>4
  <2>2. Tail(page[r]) \in Seq(Title) /\ Len(Tail(page[r])) = Len(page[r]) - 1
    BY <1>4
  <2>3. Tail(page[r]) = <<>> <=> Len(page[r]) = 1
    <3>1. Tail(page[r]) # <<>> => Len(Tail(page[r])) \in Nat \ {0}
      BY <2>2, EmptySeq
    <3>2. Len(<<>>) = 0
      BY EmptySeq
    <3>3. Tail(page[r]) = <<>> => Len(Tail(page[r])) = 0
      BY <3>2, Zenon
    <3>4. Len(page[r]) = 1 <=> Len(Tail(page[r])) = 0
      BY <2>1, <2>2
    <3>5. QED
      BY <3>1, <3>3, <3>4
  <2>4. ASSUME NEW j \in DOMAIN page[r], j # 1
        PROVE  /\ j - 1 \in DOMAIN Tail(page[r])
               /\ Tail(page[r])[j - 1] = page[r][j]
    BY <1>4, <2>1, <2>2, <2>4
  <2>5. QED
    BY <2>2, <2>3, <2>4
<1>7. RunTyped(r)'
  BY <1>1, <1>2, <1>4, <1>6, CommunityLabels DEF RunTyped
<1>8. Moves(r)
  BY <1>2, <1>3, CommunityLabels DEF Moves
<1>9. ASSUME Fine(r) PROVE Fine(r)'
  <2>1. InGraph(r)' /\ InCommunities(r)'
    BY <1>1, <1>2, <1>5, <1>9, CommunityLabels, GraphIsFine,
       CommunitiesAreFine DEF Fine
  <2>2. /\ \A c \in DOMAIN records[r] :
             (\E q \in asked[r] : q[1] = c) <=> c \notin todo[r] \/ c = k
        /\ \A q \in asked[r] : q[1] \in DOMAIN records[r]
        /\ \A q \in asked[r] : \A i \in DOMAIN q[2] :
             \/ Stored(batch[r], q[1], q[2][i])
             \/ q[1] = k /\ \E j \in DOMAIN page[r] : page[r][j] = q[2][i]
        /\ ThisPage(r) \in pages
    BY <1>2, <1>9, CommunityLabels DEF Fine, InWiki
  <2>3. /\ \A b, c, t : Stored(b, c, t) => Stored(b, c, t)'
        /\ <<<<batch[r], k>>, page[r][1]>> \in pages' \cap pageRows'
    BY <1>2, <1>4, <2>2 DEF Stored
  <2>4. ASSUME NEW q \in asked[r], NEW i \in DOMAIN q[2]
        PROVE  \/ Stored(batch[r], q[1], q[2][i])'
               \/ /\ q[1] = k
                  /\ \E j \in DOMAIN Tail(page[r]) :
                       Tail(page[r])[j] = q[2][i]
    <3>1. CASE Stored(batch[r], q[1], q[2][i])
      BY <1>2, <2>3, <3>1
    <3>2. CASE q[1] = k /\ \E j \in DOMAIN page[r] : page[r][j] = q[2][i]
      <4>1. PICK j \in DOMAIN page[r] : page[r][j] = q[2][i]
        BY <3>2
      <4>2. CASE j = 1
        BY <1>2, <2>3, <3>2, <4>1, <4>2 DEF Stored
      <4>3. CASE j # 1
        BY <1>6, <3>2, <4>1, <4>3
      <4>4. QED
        BY <4>2, <4>3
    <3>3. QED
      BY <2>2, <3>1, <3>2
  <2>5. CASE Len(page[r]) = 1
    <3>1. \A c \in DOMAIN records[r] :
            (\E q \in asked[r] : q[1] = c) <=> c \notin todo'[r]
      BY <1>2, <2>2, <2>5
    <3>2. DOMAIN Tail(page[r]) = {}
      BY <1>6, <2>5
    <3>3. QED
      BY <1>2, <2>1, <2>2, <2>4, <2>5, <3>1, <3>2, CommunityLabels
      DEF Fine, InWiki
  <2>6. CASE Len(page[r]) # 1
    <3>1. Current(r)' = k
      BY <1>2, <2>6 DEF Current
    <3> HIDE DEF k
    <3>2. QED
      BY <1>2, <2>1, <2>2, <2>4, <2>6, <3>1, CommunityLabels DEF Fine, InWiki
  <2>7. QED
    BY <2>5, <2>6
<1>10. QED
  BY <1>5, <1>7, <1>8, <1>9, MovesKeep

LEMMA WikiPipelineKeepsIInv ==
  ASSUME IInv, NEW r \in Run, RunWikiPipeline(r)
  PROVE  IInv'
BY SynthesizeKeepsIInv, WriteWikiPageKeepsIInv, IndexWikiPageKeepsIInv
DEF RunWikiPipeline, StoreWikiPages

-----------------------------------------------------------------------------
(* The end of a run, what no run does, and the whole.                      *)

\* A run of its own is through with everything.
LEMMA DoneIsComplete ==
  ASSUME IInv, NEW r \in Run \ disturbed, pc[r] = "wiki", todo[r] = {}
  PROVE  /\ OnlyOf(batch[r], r)
         /\ \A e \in answer[r].ents : verts[e] # None /\ rows[e] # None
         /\ answer[r].edges \subseteq links
         /\ {batch[r]} \X Links[batch[r]] \subseteq mentions
         /\ HasEdge(answer[r]) /\ ~blind[r] => records[r] # <<>>
         /\ file[batch[r]] = records[r]
         /\ \A k \in DOMAIN records[r] :
              /\ contexts[<<batch[r], k>>] = records[r][k]
              /\ <<batch[r], k>> \in comms
         /\ {p[1] : p \in asked[r]} = DOMAIN records[r]
         /\ \A p \in asked[r] : \A i \in DOMAIN p[2] :
              <<<<batch[r], p[1]>>, p[2][i]>> \in pages \cap pageRows
<1>1. /\ pc[r] \in Begun /\ pc[r] \in Mentioned /\ pc[r] \in Answered
      /\ pc[r] \in Recorded /\ pc[r] \in Filed /\ pc[r] \in Paging
  BY DEF Begun, Mentioned, Answered, Recorded, Edged, Filed, Paging
<1>2. OnlyOf(batch[r], r) /\ InGraph(r) /\ InCommunities(r) /\ InWiki(r)
  BY <1>1, IInvIs DEF Fine
<1>3. /\ \A e \in answer[r].ents : verts[e] # None /\ rows[e] # None
      /\ answer[r].edges \subseteq links
      /\ \A e \in Links[batch[r]] : <<batch[r], e>> \in mentions
  BY <1>1, <1>2 DEF InGraph
<1>4. {batch[r]} \X Links[batch[r]] \subseteq mentions
  BY <1>3
<1>5. /\ HasEdge(answer[r]) /\ ~blind[r] => records[r] # <<>>
      /\ file[batch[r]] = records[r]
      /\ \A k \in DOMAIN records[r] :
           /\ contexts[<<batch[r], k>>] = records[r][k]
           /\ <<batch[r], k>> \in comms
  BY <1>1, <1>2 DEF InCommunities
<1>6. /\ \A k \in DOMAIN records[r] : \E p \in asked[r] : p[1] = k
      /\ \A p \in asked[r] : p[1] \in DOMAIN records[r]
      /\ \A p \in asked[r] : \A i \in DOMAIN p[2] :
           Stored(batch[r], p[1], p[2][i])
  BY <1>1, <1>2 DEF InWiki
<1>7. QED
  BY <1>2, <1>3, <1>4, <1>5, <1>6, SMTT(30) DEF Stored

LEMMA MarkIndexedKeepsIInv ==
  ASSUME IInv, NEW r \in Run, MarkIndexed(r)
  PROVE  IInv'
<1>1. /\ StoresTyped /\ RunTyped(r) /\ batch[r] \in Batch
  BY RunIs DEF MarkIndexed
<1>2. /\ OthersRest(r) /\ RunsKeyed' /\ RunTyped(r)'
      /\ pc'[r] = "idle" /\ batch'[r] = None /\ asked'[r] = {}
      /\ disturbed' = disturbed \ {r}
  BY ResetRun DEF MarkIndexed
<1>3. /\ pc[r] = "wiki" /\ todo[r] = {}
      /\ indexed' = indexed \cup {batch[r]}
      /\ settled' = IF r \in disturbed THEN settled
                    ELSE settled \cup {batch[r]}
      /\ last' = IF r \in disturbed THEN last
                 ELSE [last EXCEPT ![batch[r]] = [answer |-> answer[r],
                                                  records |-> records[r],
                                                  asked |-> asked[r],
                                                  blind |-> blind[r]]]
      /\ UNCHANGED <<graphVars, rows, wikiVars, submits, purges, dropped>>
  BY DEF MarkIndexed
<1>4. PICK l : l = [answer |-> answer[r], records |-> records[r],
                    asked |-> asked[r], blind |-> blind[r]]
  OBVIOUS
<1>5. /\ l.answer = answer[r] /\ l.records = records[r] /\ l.asked = asked[r]
      /\ l.blind = blind[r]
      /\ last' = IF r \in disturbed THEN last
                 ELSE [last EXCEPT ![batch[r]] = l]
  BY <1>3, <1>4
<1>6. Grown /\ \A b : Kept(b)
  BY <1>3 DEF Grown, Kept, graphVars, wikiVars
<1>7. StoresTyped'
  <2>1. answer[r].ents \subseteq Entity
    BY <1>1 DEF RunTyped
  <2>2. /\ last' = [b \in Batch |-> last'[b]]
        /\ \A b \in Batch : last'[b].answer.ents \subseteq Entity
    BY <1>1, <1>5, <2>1 DEF StoresTyped
  <2>3. /\ indexed' \subseteq Batch /\ settled' \subseteq Batch
        /\ disturbed' \subseteq Run
    BY <1>1, <1>2, <1>3 DEF StoresTyped
  <2>4. QED
    BY <1>1, <1>3, <2>2, <2>3 DEF StoresTyped, graphVars, wikiVars
<1>8. ASSUME NEW b \in settled PROVE last'[b] = last[b] /\ b # None
  <2>1. b # batch[r]
    <3>1. \A s \in Run : batch[s] = b => pc[s] = "submit"
      BY IInvIs
    <3>2. QED
      BY <1>3, <3>1
  <2>2. b \in Batch
    BY <1>1 DEF StoresTyped
  <2>3. QED
    BY <1>1, <1>5, <2>1, <2>2, ConstantsAssumption DEF StoresTyped
<1>9. ASSUME NEW b \in settled' \ settled
      PROVE  /\ Complete(b)'
             /\ \A s \in Run : batch'[s] = b => pc'[s] = "submit"
  <2>1. b = batch[r] /\ r \notin disturbed /\ b # None
    BY <1>1, <1>3, <1>9, ConstantsAssumption
  <2>2. last'[b] = l
    BY <1>1, <1>5, <2>1 DEF StoresTyped
  <2>3. /\ OnlyOf(b, r)
        /\ \A e \in answer[r].ents : verts[e] # None /\ rows[e] # None
        /\ answer[r].edges \subseteq links
        /\ {b} \X Links[b] \subseteq mentions
        /\ HasEdge(answer[r]) /\ ~blind[r] => records[r] # <<>>
        /\ file[b] = records[r]
        /\ \A k \in DOMAIN records[r] :
             contexts[<<b, k>>] = records[r][k] /\ <<b, k>> \in comms
        /\ {p[1] : p \in asked[r]} = DOMAIN records[r]
        /\ \A p \in asked[r] : \A i \in DOMAIN p[2] :
             <<<<b, p[1]>>, p[2][i]>> \in pages \cap pageRows
    BY <1>3, <2>1, DoneIsComplete
  <2>4. /\ b \in indexed'
        /\ UNCHANGED <<verts, rows, links, mentions, file, contexts, comms,
                       pages, pageRows>>
    BY <1>3, <2>1 DEF graphVars, wikiVars
  <2>5. Complete(b)'
    BY <1>5, <2>2, <2>3, <2>4 DEF Complete
  <2>6. ASSUME NEW s \in Run, batch'[s] = b PROVE pc'[s] = "submit"
    <3>1. s # r
      BY <1>2, <2>1, <2>6
    <3>2. QED
      BY <1>2, <2>3, <2>6, <3>1 DEF OnlyOf, OthersRest
  <2>7. QED
    BY <2>5, <2>6
<1>10. "idle" \notin Begun
  BY DEF Begun, Mentioned, Answered, Recorded, Edged, Filed, Paging
<1>11. \A p \in Run : pc[p] \in Begun => batch[p] # None
  <2>1. Typed
    BY RunIs
  <2>2. QED
    BY <2>1, LabelSets, ConstantsAssumption DEF Typed, RunTyped
<1>12. QED
  BY <1>2, <1>6, <1>7, <1>8, <1>9, <1>10, <1>11, StepKeeps

\* The runs rest.
LEMMA RunsRest ==
  ASSUME IInv, UNCHANGED <<pc, runVars, todo, asked>>
  PROVE  /\ RunsKeyed' /\ \A q \in Run : RunTyped(q)'
         /\ \A q \in Run : pc'[q] \in {"idle", "submit"} => asked'[q] = {}
<1>1. RunsKeyed /\ \A q \in Run : RunTyped(q)
  BY IInvIs DEF Typed
<1>2. RunsKeyed' /\ \A q \in Run : RunTyped(q)'
  BY <1>1 DEF RunsKeyed, RunTyped, runVars
<1>3. QED
  BY <1>2, IInvIs

LEMMA IInvNext ==
  ASSUME Typed',
         \A q \in Run : pc'[q] \in {"idle", "submit"} => asked'[q] = {},
         \A q \in Run \ disturbed' : pc'[q] \in Begun =>
           OnlyOf(batch[q], q)' /\ Fine(q)',
         \A b \in settled' : /\ Complete(b)'
                             /\ \A s \in Run : batch'[s] = b =>
                                  pc'[s] = "submit"
  PROVE  IInv'
<1>1. (Typed => TypeOK /\ Keyed)'
  BY TypedIsTypeOK, PTL
<1>2. QED
  BY <1>1 DEF IInv, Fine, IndexedIsComplete

\* A purge comes across every run that has begun.
LEMMA DisturbKeepsIInv ==
  ASSUME IInv, Disturb, UNCHANGED <<pc, runVars, todo>>,
         StoresTyped => StoresTyped'
  PROVE  IInv'
<1>1. /\ settled' = {} /\ disturbed' = {r \in Run : pc[r] # "idle"}
      /\ UNCHANGED asked
  BY DEF Disturb
<1>2. StoresTyped'
  BY IInvIs DEF Typed
<1>3. /\ RunsKeyed' /\ \A q \in Run : RunTyped(q)'
      /\ \A q \in Run : pc'[q] \in {"idle", "submit"} => asked'[q] = {}
  BY <1>1, RunsRest
<1>4. \A q \in Run \ disturbed' : pc'[q] \notin Begun
  BY <1>1 DEF Begun, Mentioned, Answered, Recorded, Edged, Filed, Paging
<1>5. QED
  BY <1>1, <1>2, <1>3, <1>4, IInvNext DEF Typed

LEMMA PurgesKeepIInv ==
  ASSUME IInv, DropSpace \/ DeleteWikiTree
  PROVE  IInv'
<1>1. /\ Disturb /\ UNCHANGED <<pc, runVars, todo>>
  BY DEF DropSpace, DeleteWikiTree
<1>2. ASSUME StoresTyped PROVE StoresTyped'
  <2>1. /\ disturbed' \subseteq Run /\ settled' \subseteq Batch
        /\ submits' \in 0..MaxSubmits /\ purges' \in 0..MaxPurges
    BY <1>1, <1>2, ConstantsAssumption DEF Disturb, StoresTyped
  <2>2. /\ last' = [b \in Batch |-> last'[b]]
        /\ \A b \in Batch : last'[b].answer.ents \subseteq Entity
    BY <1>1 DEF Disturb, Nothing, NoAnswer
  <2>3. CASE DropSpace
    BY <1>2, <2>1, <2>2, <2>3 DEF DropSpace, StoresTyped, wikiVars
  <2>4. CASE DeleteWikiTree
    BY <1>2, <2>1, <2>2, <2>4 DEF DeleteWikiTree, StoresTyped, graphVars
  <2>5. QED
    BY <2>3, <2>4
<1>3. QED
  BY <1>1, <1>2, DisturbKeepsIInv

LEMMA OthersKeepIInv ==
  ASSUME IInv, CatchUp \/ UNCHANGED vars
  PROVE  IInv'
<1>1. /\ UNCHANGED <<verts, links, mentions, rows, wikiVars, indexed, pc,
                     runVars, todo, histVars>>
      /\ space' = space \/ space' \in {"usable", "ready"}
  BY DEF CatchUp, vars, storeVars, graphVars
<1>2. Typed /\ StoresTyped
  BY IInvIs DEF Typed
<1>3. StoresTyped' /\ Grown /\ \A b : Kept(b)
  BY <1>1, <1>2 DEF StoresTyped, Grown, Kept, wikiVars, histVars
<1>4. /\ RunsKeyed' /\ \A q \in Run : RunTyped(q)'
      /\ \A q \in Run : pc'[q] \in {"idle", "submit"} => asked'[q] = {}
  BY <1>1, RunsRest DEF histVars
<1>5. ASSUME NEW q \in Run \ disturbed', pc'[q] \in Begun
      PROVE  OnlyOf(batch[q], q)' /\ Fine(q)'
  <2>1. /\ UNCHANGED <<pc, batch, answer, todo, records, blind, page, asked>>
        /\ disturbed' = disturbed
    BY <1>1 DEF runVars, histVars
  <2>2. OnlyOf(batch[q], q) /\ Fine(q)
    BY <1>5, <2>1, IInvIs
  <2>3. Fine(q)'
    BY <1>2, <1>3, <1>5, <2>1, <2>2, RestIsFine
  <2>4. QED
    BY <2>1, <2>2, <2>3 DEF OnlyOf
<1>6. ASSUME NEW b \in settled'
      PROVE  Complete(b)' /\ \A s \in Run : batch'[s] = b => pc'[s] = "submit"
  <2>1. /\ UNCHANGED <<pc, batch, last, settled>>
    BY <1>1 DEF runVars, histVars
  <2>2. /\ Complete(b) /\ b \in Batch
        /\ \A s \in Run : batch[s] = b => pc[s] = "submit"
    BY <1>2, <1>6, <2>1, IInvIs DEF StoresTyped
  <2>3. Complete(b)'
    BY <1>2, <1>3, <2>1, <2>2, RestIsComplete
  <2>4. QED
    BY <2>1, <2>2, <2>3
<1>7. QED
  BY <1>3, <1>4, <1>5, <1>6, IInvNext DEF Typed

LEMMA IInvKeeps ==
  ASSUME IInv, [Next]_vars
  PROVE  IInv'
<1>1. CASE \E r \in Run : \E b \in Batch, noAgent \in BOOLEAN :
             CheckIdle(r, b, noAgent)
  BY <1>1, CheckIdleKeepsIInv
<1>2. CASE \E r \in Run : RunStep(r)
  BY <1>2, GraphPipelineKeepsIInv, CommunityPipelineKeepsIInv,
     WikiPipelineKeepsIInv, MarkIndexedKeepsIInv DEF RunStep
<1>3. CASE \E r \in Run : Die(r)
  BY <1>3, RaiseKeepsIInv DEF Die
<1>4. CASE DropSpace \/ DeleteWikiTree
  BY <1>4, PurgesKeepIInv
<1>5. CASE CatchUp \/ UNCHANGED vars
  BY <1>5, OthersKeepIInv
<1>6. QED
  BY <1>1, <1>2, <1>3, <1>4, <1>5 DEF Next

LEMMA IInvStart ==
  ASSUME Init
  PROVE  IInv
<1>1. <<>> \in Clusterings
  <2>1. <<>> \in [1..0 -> SUBSET Entity] /\ 0 \in 0..MaxClusters
    BY ConstantsAssumption
  <2>2. QED
    BY <2>1 DEF Clusterings
<1>2. StoresTyped
  <2>1. /\ last = [b \in Batch |-> last[b]]
        /\ \A b \in Batch : last[b].answer.ents \subseteq Entity
    BY DEF Init, Nothing, NoAnswer
  <2>2. submits \in 0..MaxSubmits /\ purges \in 0..MaxPurges
    BY ConstantsAssumption DEF Init
  <2>3. /\ file \in [Batch -> Clusterings]
        /\ contexts \in [Community -> SUBSET Entity]
    BY <1>1 DEF Init
  <2>4. /\ verts \in [Entity -> Batch \cup {None, "bare"}]
        /\ rows \in [Entity -> Batch \cup {None}]
    BY DEF Init
  <2>5. QED
    BY <2>1, <2>2, <2>3, <2>4 DEF Init, StoresTyped
<1>3. RunsKeyed
  BY DEF Init, RunsKeyed
<1>4. ASSUME NEW r \in Run PROVE RunTyped(r) /\ pc[r] = "idle" /\ asked[r] = {}
  <2>1. /\ "idle" \in Labels /\ "idle" \notin {"mention", "edges"} \cup Filed
        /\ "idle" \notin {"page", "page_row"}
    BY DEF Labels, Filed, Paging
  <2>2. /\ NoAnswer \in [ents : SUBSET Entity,
                         edges : SUBSET (Entity \X Entity)]
        /\ <<>> \in Seq(Title)
    BY DEF NoAnswer
  <2>3. QED
    BY <1>1, <2>1, <2>2 DEF Init, RunTyped
<1>5. "idle" \notin Begun
  BY DEF Begun, Mentioned, Answered, Recorded, Edged, Filed, Paging
<1>6. settled = {}
  BY DEF Init
<1>7. QED
  BY <1>2, <1>3, <1>4, <1>5, <1>6, IInvIs DEF Typed

\* How far a run has come with what it has to write, at every label.
THEOREM Invariance == Spec => []IInv
<1>1. Init => IInv
  BY IInvStart
<1>2. IInv /\ [Next]_vars => IInv'
  BY IInvKeeps
<1>3. QED
  BY <1>1, <1>2, PTL DEF Spec

\* The stores and the runs of a project hold what TypeOK says.
THEOREM TypeCorrect == Spec => []TypeOK
<1>1. IInv => TypeOK
  BY DEF IInv
<1>2. QED
  BY <1>1, Invariance, PTL

\* A batch is indexed_graph only with what its last run found behind it,
\* whatever the runs of other batches, pods that die, purges, and queries that
\* fail do; and with communities where the agent found an edge, unless the
\* query of the export was one of those that fail.  Nothing is said of a batch
\* two of whose runs met, or whose run met a purge.
THEOREM IndexedBatchIsComplete == Spec => []IndexedIsComplete
<1>1. IInv => IndexedIsComplete
  BY DEF IInv
<1>2. QED
  BY <1>1, Invariance, PTL
=============================================================================
