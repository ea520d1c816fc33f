-------------------------- MODULE AgentCacheProofs --------------------------
(***************************************************************************)
(* What a call returns and what the cache holds are of the content the     *)
(* caller hashed, for any callers, contents, retries, rewrites and         *)
(* failures.                                                               *)
(*                                                                         *)
(* Neither property is inductive.  What the writers between their two puts *)
(* have in common makes them so: as long as no input is rewritten under a  *)
(* call, all calls that are under way hashed one and the same content, so  *)
(* that whatever of their puts come last, they put the same.  Of an entry  *)
(* that a death left in halves, the meta is of a content the input has had *)
(* already, so that it is believed again only when that one comes back.    *)
(***************************************************************************)
EXTENDS AgentCache, TLAPS

\* Calls that are under way hashed what the input is now.
OneInput == \A c \in Caller : pc[c] # "idle" => sha[c] = input

\* A job that was started read it.
JobsCurrent ==
  \A c \in Caller :
    pc[c] = "wait" /\ job[c].status \in {"running", "succeeded", "failed"}
      => job[c].from = input

\* What a call has got is of what it hashed, and a call that comes to its
\* puts has got it.
ResultsCurrent ==
  \A c \in Caller :
    /\ result[c] \in {None, sha[c]}
    /\ pc[c] \in {"put", "put_meta"} => result[c] = sha[c]

\* An artifact whose meta is still to be put, or was compared, is current.
ArtifactCurrent ==
  (\E c \in Caller : pc[c] \in {"put_meta", "fetch"}) => artifact = input

\* An entry nobody is writing and nobody died over is whole.
Whole ==
  ~halfWritten /\ (\A c \in Caller : pc[c] # "put_meta") => artifact = meta

\* The meta is of a content the input has had, and that one is gone for good.
MetaIsOfThePast ==
  ~returned => input \notin past /\ meta \in past \cup {input, None}

Retrying ==
  \A c \in Caller :
    pc[c] \in {"look", "validate", "submit"} => tries[c] < MaxRetries

Agreement ==
  /\ OneInput /\ JobsCurrent /\ ResultsCurrent /\ ArtifactCurrent
  /\ Whole /\ MetaIsOfThePast /\ (meta = input => artifact = input)

CacheInv ==
  /\ TypeOK
  /\ Retrying
  /\ Undisturbed => Agreement

-----------------------------------------------------------------------------
LEMMA Start == Init => CacheInv
<1> SUFFICES ASSUME Init PROVE CacheInv
  OBVIOUS
<1>1. TypeOK
  <2>1. NoJob \in Job
    BY DEF NoJob, Job
  <2>2. tries \in [Caller -> 0..MaxRetries] /\ job \in [Caller -> Job]
    BY <2>1, ConstantsAssumption DEF Init
  <2>3. rewrites \in 0..MaxRewrites /\ failures \in 0..MaxFailures
    BY ConstantsAssumption DEF Init
  <2>4. moved \in BOOLEAN /\ halfWritten \in BOOLEAN
    BY DEF Init
  <2>5. QED
    BY <2>2, <2>3, <2>4 DEF Init, TypeOK, Labels
<1>2. Retrying /\ Agreement
  BY DEF Init, Retrying, Agreement, OneInput, JobsCurrent, ResultsCurrent,
         ArtifactCurrent, Whole,
      MetaIsOfThePast, NoJob
<1>3. QED
  BY <1>1, <1>2 DEF CacheInv

\* A call that raises leaves nothing behind that another one could trip over.
LEMMA RaiseKeeps ==
  ASSUME CacheInv, NEW c \in Caller,
         Raise(c), pc[c] # "put_meta", UNCHANGED <<blobVars, envVars>>
  PROVE  CacheInv'
<1>1. TypeOK' /\ Retrying'
  BY DEF CacheInv, TypeOK, Retrying, Labels, Job, NoJob, Raise, Goto,
      blobVars,
         envVars, pastVars
<1>2. ASSUME Undisturbed' PROVE Agreement'
  BY <1>2 DEF CacheInv, TypeOK, Undisturbed, Agreement, OneInput,
      JobsCurrent, ResultsCurrent, ArtifactCurrent, Whole,
      MetaIsOfThePast, Raise, Goto,
      NoJob, blobVars, envVars, pastVars
<1>3. QED
  BY <1>1, <1>2 DEF CacheInv

LEMMA HashKeeps ==
  ASSUME CacheInv, NEW c \in Caller, NEW force \in BOOLEAN,
         Hash(c, force)
  PROVE  CacheInv'
<1>1. TypeOK' /\ Retrying'
  BY ConstantsAssumption DEF CacheInv, TypeOK, Retrying, Labels, Job, Hash,
      Goto, blobVars, envVars, pastVars, NoJob
<1>2. ASSUME Undisturbed' PROVE Agreement'
  BY <1>2 DEF CacheInv, TypeOK, Undisturbed, Agreement, OneInput,
      JobsCurrent, ResultsCurrent, ArtifactCurrent, Whole,
      MetaIsOfThePast, Hash, Goto,
      blobVars, envVars, pastVars, NoJob
<1>3. QED
  BY <1>1, <1>2 DEF CacheInv

LEMMA LookKeeps ==
  ASSUME CacheInv, NEW c \in Caller,
         Look(c)
  PROVE  CacheInv'
<1>1. TypeOK' /\ Retrying'
  BY ConstantsAssumption DEF CacheInv, TypeOK, Retrying, Labels, Job, Look,
      Goto, blobVars, envVars, pastVars
<1>2. ASSUME Undisturbed' PROVE Agreement'
  BY <1>2 DEF CacheInv, TypeOK, Undisturbed, Agreement, OneInput,
      JobsCurrent, ResultsCurrent, ArtifactCurrent, Whole,
      MetaIsOfThePast, Look, Goto,
      blobVars, envVars, pastVars
<1>3. QED
  BY <1>1, <1>2 DEF CacheInv

LEMMA ValidateKeeps ==
  ASSUME CacheInv, NEW c \in Caller,
         Validate(c)
  PROVE  CacheInv'
<1>1. TypeOK' /\ Retrying'
  BY ConstantsAssumption DEF CacheInv, TypeOK, Retrying, Labels, Job,
      Validate, Goto, blobVars, envVars, pastVars
<1>2. ASSUME Undisturbed' PROVE Agreement'
  BY <1>2 DEF CacheInv, TypeOK, Undisturbed, Agreement, OneInput,
      JobsCurrent, ResultsCurrent, ArtifactCurrent, Whole,
      MetaIsOfThePast, Validate,
      Goto, blobVars, envVars, pastVars
<1>3. QED
  BY <1>1, <1>2 DEF CacheInv

LEMMA ReturnCachedKeeps ==
  ASSUME CacheInv, NEW c \in Caller,
         ReturnCached(c)
  PROVE  CacheInv'
<1>1. TypeOK' /\ Retrying'
  BY ConstantsAssumption DEF CacheInv, TypeOK, Retrying, Labels, Job,
      ReturnCached, Return, blobVars, envVars, pastVars, Goto
<1>2. ASSUME Undisturbed' PROVE Agreement'
  BY <1>2 DEF CacheInv, TypeOK, Undisturbed, Agreement, OneInput,
      JobsCurrent, ResultsCurrent, ArtifactCurrent, Whole,
      MetaIsOfThePast,
      ReturnCached, Return, blobVars, envVars, pastVars, Goto
<1>3. QED
  BY <1>1, <1>2 DEF CacheInv

LEMMA SubmitKeeps ==
  ASSUME CacheInv, NEW c \in Caller,
         Submit(c)
  PROVE  CacheInv'
<1>1. CASE mode = "async_suspend"
  <2>1. Raise(c) /\ pc[c] = "submit" /\ UNCHANGED <<blobVars, envVars>>
    BY <1>1 DEF Submit
  <2>2. QED
    BY <2>1, RaiseKeeps
<1>2. CASE mode # "async_suspend"
  <2>1. /\ pc[c] = "submit" /\ pc' = [pc EXCEPT ![c] = "wait"]
        /\ job' = [job EXCEPT ![c] = [@ EXCEPT !.status = "queued"]]
        /\ UNCHANGED <<sha, tries, result, blobVars, envVars>>
    BY <1>2 DEF Submit, Goto
  <2>2. job'[c].status = "queued" /\ job' \in [Caller -> Job]
    BY <2>1 DEF CacheInv, TypeOK, Job
  <2>3. \A d \in Caller \ {c} : job'[d] = job[d]
    BY <2>1 DEF CacheInv, TypeOK
  <2>4. TypeOK' /\ Retrying'
    BY <2>1, <2>2 DEF CacheInv, TypeOK, Retrying, Labels, blobVars, envVars,
        pastVars
  <2>5. ASSUME Undisturbed' PROVE Agreement'
    BY <2>1, <2>2, <2>3, <2>5
    DEF CacheInv, TypeOK, Undisturbed, Agreement, OneInput, JobsCurrent,
        ResultsCurrent, ArtifactCurrent, Whole,
      MetaIsOfThePast, blobVars, envVars, pastVars
  <2>6. QED
    BY <2>4, <2>5 DEF CacheInv
<1>3. QED
  BY <1>1, <1>2

LEMMA BusyKeeps ==
  ASSUME CacheInv, NEW c \in Caller,
         Busy(c)
  PROVE  CacheInv'
<1>1. TypeOK' /\ Retrying'
  BY ConstantsAssumption DEF CacheInv, TypeOK, Retrying, Labels, Job, Busy,
      Goto, blobVars, envVars, pastVars
<1>2. ASSUME Undisturbed' PROVE Agreement'
  BY <1>2 DEF CacheInv, TypeOK, Undisturbed, Agreement, OneInput,
      JobsCurrent, ResultsCurrent, ArtifactCurrent, Whole,
      MetaIsOfThePast, Busy, Goto,
      blobVars, envVars, pastVars
<1>3. QED
  BY <1>1, <1>2 DEF CacheInv

LEMMA RequestFailsKeeps ==
  ASSUME CacheInv, NEW c \in Caller,
         RequestFails(c)
  PROVE  CacheInv'
<1>1. TypeOK' /\ Retrying'
  BY ConstantsAssumption DEF CacheInv, TypeOK, Retrying, Labels, Job,
      RequestFails, Raise, blobVars, pastVars, Goto, NoJob
<1>2. ASSUME Undisturbed' PROVE Agreement'
  BY <1>2 DEF CacheInv, TypeOK, Undisturbed, Agreement, OneInput,
      JobsCurrent, ResultsCurrent, ArtifactCurrent, Whole,
      MetaIsOfThePast,
      RequestFails, Raise, blobVars, pastVars, Goto, NoJob
<1>3. QED
  BY <1>1, <1>2 DEF CacheInv

LEMMA AgentStartsKeeps ==
  ASSUME CacheInv, NEW c \in Caller,
         AgentStarts(c)
  PROVE  CacheInv'
<1>1. TypeOK' /\ Retrying'
  BY ConstantsAssumption DEF CacheInv, TypeOK, Retrying, Labels, Job,
      AgentStarts, blobVars, envVars, pastVars
<1>2. ASSUME Undisturbed' PROVE Agreement'
  BY <1>2 DEF CacheInv, TypeOK, Undisturbed, Agreement, OneInput,
      JobsCurrent, ResultsCurrent, ArtifactCurrent, Whole,
      MetaIsOfThePast,
      AgentStarts, blobVars, envVars, pastVars
<1>3. QED
  BY <1>1, <1>2 DEF CacheInv

LEMMA AgentEndsKeeps ==
  ASSUME CacheInv, NEW c \in Caller, NEW status \in {"succeeded", "failed"},
         AgentEnds(c, status)
  PROVE  CacheInv'
<1>1. TypeOK' /\ Retrying'
  BY ConstantsAssumption DEF CacheInv, TypeOK, Retrying, Labels, Job,
      AgentEnds, blobVars, envVars, pastVars
<1>2. ASSUME Undisturbed' PROVE Agreement'
  BY <1>2 DEF CacheInv, TypeOK, Undisturbed, Agreement, OneInput,
      JobsCurrent, ResultsCurrent, ArtifactCurrent, Whole,
      MetaIsOfThePast, AgentEnds,
      blobVars, envVars, pastVars
<1>3. QED
  BY <1>1, <1>2 DEF CacheInv

LEMMA AnswerKeeps ==
  ASSUME CacheInv, NEW c \in Caller,
         Answer(c)
  PROVE  CacheInv'
<1>1. CASE job[c].status = "failed"
  <2>1. Raise(c) /\ pc[c] = "wait" /\ UNCHANGED <<blobVars, envVars>>
    BY <1>1 DEF Answer
  <2>2. QED
    BY <2>1, RaiseKeeps
<1>2. CASE job[c].status # "failed"
  <2>1. /\ pc[c] = "wait" /\ job[c].status = "succeeded"
        /\ pc' = [pc EXCEPT ![c] = "put"]
        /\ result' = [result EXCEPT ![c] = job[c].from]
        /\ UNCHANGED <<sha, tries, job, blobVars, envVars>>
    BY <1>2 DEF Answer, Goto
  <2>2. TypeOK' /\ Retrying'
    BY <2>1 DEF CacheInv, TypeOK, Retrying, Labels, Job, blobVars, envVars,
        pastVars
  <2>3. ASSUME Undisturbed' PROVE Agreement'
    BY <2>1, <2>3
    DEF CacheInv, TypeOK, Undisturbed, Agreement, OneInput, JobsCurrent,
        ResultsCurrent, ArtifactCurrent, Whole,
      MetaIsOfThePast, blobVars, envVars, pastVars
  <2>4. QED
    BY <2>2, <2>3 DEF CacheInv
<1>3. QED
  BY <1>1, <1>2

LEMMA GiveUpKeeps ==
  ASSUME CacheInv, NEW c \in Caller,
         GiveUp(c)
  PROVE  CacheInv'
BY RaiseKeeps DEF GiveUp

LEMMA PutArtifactKeeps ==
  ASSUME CacheInv, NEW c \in Caller,
         PutArtifact(c)
  PROVE  CacheInv'
<1>1. TypeOK' /\ Retrying'
  BY ConstantsAssumption DEF CacheInv, TypeOK, Retrying, Labels, Job,
      PutArtifact, Goto, envVars, pastVars
<1>2. ASSUME Undisturbed' PROVE Agreement'
  BY <1>2 DEF CacheInv, TypeOK, Undisturbed, Agreement, OneInput,
      JobsCurrent, ResultsCurrent, ArtifactCurrent, Whole,
      MetaIsOfThePast,
      PutArtifact, Goto, envVars, pastVars
<1>3. QED
  BY <1>1, <1>2 DEF CacheInv

LEMMA PutMetaKeeps ==
  ASSUME CacheInv, NEW c \in Caller,
         PutMeta(c)
  PROVE  CacheInv'
<1>1. TypeOK' /\ Retrying'
  BY ConstantsAssumption DEF CacheInv, TypeOK, Retrying, Labels, Job,
      PutMeta, Goto, envVars, pastVars
<1>2. ASSUME Undisturbed' PROVE Agreement'
  BY <1>2 DEF CacheInv, TypeOK, Undisturbed, Agreement, OneInput,
      JobsCurrent, ResultsCurrent, ArtifactCurrent, Whole,
      MetaIsOfThePast, PutMeta,
      Goto, envVars, pastVars
<1>3. QED
  BY <1>1, <1>2 DEF CacheInv

LEMMA DieKeeps ==
  ASSUME CacheInv, NEW c \in Caller,
         Die(c)
  PROVE  CacheInv'
<1>1. TypeOK' /\ Retrying'
  BY ConstantsAssumption DEF CacheInv, TypeOK, Retrying, Labels, Job, Die,
      Goto, blobVars, pastVars, NoJob
<1>2. ASSUME Undisturbed' PROVE Agreement'
  BY <1>2 DEF CacheInv, TypeOK, Undisturbed, Agreement, OneInput,
      JobsCurrent, ResultsCurrent, ArtifactCurrent, Whole,
      MetaIsOfThePast, Die, Goto,
      blobVars, pastVars, NoJob
<1>3. QED
  BY <1>1, <1>2 DEF CacheInv

\* Nobody is under way, so nothing but the meta can be of the new content; and
\* it is not, unless the entry is whole or that content is an old one.
LEMMA RewriteKeeps ==
  ASSUME CacheInv, NEW v \in Version,
         Rewrite(v)
  PROVE  CacheInv'
<1>1. TypeOK' /\ Retrying'
  BY ConstantsAssumption DEF CacheInv, TypeOK, Retrying, Labels, Job,
      Rewrite, callVars
<1>2. ASSUME Undisturbed' PROVE Agreement'
  <2>1. /\ v # input /\ input' = v /\ past' = past \cup {input}
        /\ returned' = (returned \/ v \in past) /\ halfWritten' = halfWritten
        /\ UNCHANGED <<artifact, meta, pc, sha, job, result>>
        /\ \A c \in Caller : pc[c] = "idle"
    BY <1>2 DEF Rewrite, Undisturbed, callVars
  <2>2. Agreement /\ v # None
    BY <1>2, <2>1, ConstantsAssumption DEF CacheInv, TypeOK, Undisturbed,
        Rewrite
  <2>3. Whole' /\ MetaIsOfThePast'
    BY <2>1, <2>2 DEF Agreement, Whole, MetaIsOfThePast
  <2>4. meta' = input' => artifact' = input'
    <3>1. CASE halfWritten
      BY <1>2, <2>1, <2>2, <3>1 DEF Undisturbed, Agreement, MetaIsOfThePast
    <3>2. CASE ~halfWritten
      BY <2>1, <2>2, <3>2 DEF Agreement, Whole
    <3>3. QED
      BY <3>1, <3>2
  <2>5. OneInput' /\ JobsCurrent' /\ ResultsCurrent' /\ ArtifactCurrent'
    BY <2>1, <2>2
    DEF Agreement, OneInput, JobsCurrent, ResultsCurrent, ArtifactCurrent
  <2>6. QED
    BY <2>3, <2>4, <2>5 DEF Agreement
<1>3. QED
  BY <1>1, <1>2 DEF CacheInv

LEMMA StutterKeeps == CacheInv /\ UNCHANGED vars => CacheInv'
BY DEF vars, blobVars, callVars, envVars, pastVars, CacheInv, TypeOK,
    Retrying,
       Undisturbed, Agreement, OneInput, JobsCurrent, ResultsCurrent,
       ArtifactCurrent, Whole,
      MetaIsOfThePast

LEMMA NextKeeps == CacheInv /\ [Next]_vars => CacheInv'
<1> SUFFICES ASSUME CacheInv, [Next]_vars PROVE CacheInv'
  OBVIOUS
<1>1. CASE UNCHANGED vars
  BY <1>1, StutterKeeps
<1>2. ASSUME NEW v \in Version, Rewrite(v) PROVE CacheInv'
  BY <1>2, RewriteKeeps
<1>3. ASSUME NEW c \in Caller, NEW force \in BOOLEAN,
             \/ LoadOrInvokeGraphSemantic(c, force)
             \/ LoadOrInvokeWikiSynthesize(c, force)
      PROVE  CacheInv'
  BY <1>3, HashKeeps DEF LoadOrInvokeGraphSemantic, LoadOrInvokeWikiSynthesize
<1>4. ASSUME NEW c \in Caller, CallStep(c) PROVE CacheInv'
  <2>1. CASE LoadCachedAgentOutput(c)
    BY <2>1, LookKeeps, ValidateKeeps, ReturnCachedKeeps
    DEF LoadCachedAgentOutput
  <2>2. CASE InvokeAgent(c)
    BY <2>2, SubmitKeeps, BusyKeeps, AnswerKeeps, GiveUpKeeps DEF InvokeAgent
  <2>3. CASE WriteCachedAgentOutput(c)
    BY <2>3, PutArtifactKeeps, PutMetaKeeps DEF WriteCachedAgentOutput
  <2>4. QED
    BY <1>4, <2>1, <2>2, <2>3 DEF CallStep
<1>5. ASSUME NEW c \in Caller,
             \/ RequestFails(c) \/ Die(c) \/ AgentStarts(c)
             \/ \E status \in {"succeeded", "failed"} : AgentEnds(c, status)
      PROVE  CacheInv'
  BY <1>5, RequestFailsKeeps, DieKeeps, AgentStartsKeeps, AgentEndsKeeps
<1>6. QED
  BY <1>1, <1>2, <1>3, <1>4, <1>5 DEF Next

-----------------------------------------------------------------------------
\* The inductive invariant of the cache holds in every reachable state.
THEOREM CacheInvariance == Spec => []CacheInv
<1>1. Init => CacheInv
  BY Start
<1>2. CacheInv /\ [Next]_vars => CacheInv'
  BY NextKeeps
<1>3. QED
  BY <1>1, <1>2, PTL DEF Spec

\* Every variable keeps to its type; the retries of a busy agent are counted
\* (invoke_agent).
THEOREM CacheTyped == Spec => []TypeOK
<1>1. CacheInv => TypeOK
  BY DEF CacheInv
<1>2. QED
  BY <1>1, CacheInvariance, PTL

\* A call never answers for another input than the one it hashed, unless the
\* input was rewritten under a call, or a caller died between its two puts
\* and the input was given back a content it had before.
THEOREM CacheCurrent == Spec => []CachedIsCurrent
<1>1. CacheInv => CachedIsCurrent
  BY DEF CacheInv, Agreement, ResultsCurrent, CachedIsCurrent
<1>2. QED
  BY <1>1, CacheInvariance, PTL

\* The meta never vouches for the present input over the answer of another
\* one, under the same two exceptions (_write_cached_agent_output).
THEOREM CacheVouches == Spec => []MetaVouches
<1>1. CacheInv => MetaVouches
  BY DEF CacheInv, Agreement, MetaVouches
<1>2. QED
  BY <1>1, CacheInvariance, PTL
=============================================================================
