----------------------------- MODULE AgentCache -----------------------------
(***************************************************************************)
(* One cached answer of an agent, and the pods that ask for it.  The cache *)
(* is two blobs: the artifact, which is the answer, and the meta, which    *)
(* holds the sha256 of the input the answer was made from.  Both are put   *)
(* one after the other and no lock is held.  The agent is given the key of *)
(* the input, never its bytes: it reads the key when it comes to run, and  *)
(* what it finds there may not be what the caller hashed.                  *)
(*                                                                         *)
(* The input is the chunks file of a batch (graph-extractor) or the graph  *)
(* context of a community (wiki-synthesizer); every run of the batch       *)
(* writes it again.  Contents are told apart by a version.                 *)
(***************************************************************************)
EXTENDS Naturals

CONSTANTS
  Caller,      \* pods of GraphRAG runs
  Version,     \* contents the input may have
  None,        \* no blob, no answer
  MaxRetries,  \* invoke_agent's max_retries, 5 in the code
  MaxRewrites, \* bound: how often the input is written again
  MaxFailures  \* bound: how many calls break or pods die in a behaviour

ASSUME ConstantsAssumption ==
  /\ None \notin Version
  /\ MaxRetries \in Nat \ {0}
  /\ MaxRewrites \in Nat /\ MaxFailures \in Nat

VARIABLES
  kind,        \* which agent the cache entry is of
  mode,        \* settings.pipeline_agent_invoke_mode
  input,       \* the content at chunks_key or graph_context_key
  artifact,    \* the version the answer kept at artifact_key was made from
  meta,        \* chunks_sha256 or graph_context_sha256 of the blob at meta_key
  pc,          \* where a caller is
  sha,         \* the version it hashed
  tries,       \* requests answered 429 or 503 so far
  job,         \* what the agent is at for it, and the version it read
  result,      \* the version its answer was made from
  rewrites, failures,
  moved,       \* history: the input was rewritten under a call
  halfWritten, \* history: a caller died between its two puts
  past,        \* history: the contents the input had before
  returned     \* history: it was given back one of them

blobVars == <<input, artifact, meta>>
callVars == <<pc, sha, tries, job, result>>
pastVars == <<past, returned>>
envVars  == <<kind, mode, rewrites, failures, moved, halfWritten, pastVars>>
vars     == <<blobVars, callVars, envVars>>

Labels == {"idle", "look", "validate", "fetch", "submit", "wait",
           "put", "put_meta"}
Job == [status : {"none", "queued", "running", "succeeded", "failed"},
        from : Version \cup {None}]
NoJob == [status |-> "none", from |-> None]

TypeOK ==
  /\ kind \in {"graph-extractor", "wiki-synthesizer"}
  /\ mode \in {"sync", "async_poll", "async_suspend"}
  /\ input \in Version
  /\ artifact \in Version \cup {None}
  /\ meta \in Version \cup {None}
  /\ pc \in [Caller -> Labels]
  /\ sha \in [Caller -> Version \cup {None}]
  /\ tries \in [Caller -> 0..MaxRetries]
  /\ job \in [Caller -> Job]
  /\ result \in [Caller -> Version \cup {None}]
  /\ rewrites \in 0..MaxRewrites /\ failures \in 0..MaxFailures
  /\ moved \in BOOLEAN /\ halfWritten \in BOOLEAN
  /\ past \subseteq Version /\ returned \in BOOLEAN

Init ==
  /\ kind \in {"graph-extractor", "wiki-synthesizer"}
  /\ mode \in {"sync", "async_poll", "async_suspend"}
  /\ input \in Version
  /\ artifact = None /\ meta = None
  /\ pc = [c \in Caller |-> "idle"]
  /\ sha = [c \in Caller |-> None]
  /\ tries = [c \in Caller |-> 0]
  /\ job = [c \in Caller |-> NoJob]
  /\ result = [c \in Caller |-> None]
  /\ rewrites = 0 /\ failures = 0
  /\ moved = FALSE /\ halfWritten = FALSE
  /\ past = {} /\ returned = FALSE

-----------------------------------------------------------------------------
(* The control of a call.  Variants of a definition, each with a mistake   *)
(* the checks must notice, stand before it.                                *)

Goto(c, l) == pc' = [pc EXCEPT ![c] = l]

\* A call that raises: its caller keeps nothing of it, nor of its job.
Raise(c) ==
  /\ Goto(c, "idle")
  /\ job' = [job EXCEPT ![c] = NoJob]
  /\ UNCHANGED <<sha, tries, result>>

Return(c, from) ==
  /\ Goto(c, "idle")
  /\ result' = [result EXCEPT ![c] = from]
  /\ UNCHANGED <<sha, tries, job>>

\* What both entry points start with: the input is hashed; force_agent goes
\* past the cache.
Hash(c, force) ==
  /\ pc[c] = "idle"
  /\ sha' = [sha EXCEPT ![c] = input]
  /\ Goto(c, IF force THEN "submit" ELSE "look")
  /\ tries' = [tries EXCEPT ![c] = 0]
  /\ job' = [job EXCEPT ![c] = NoJob]
  /\ result' = [result EXCEPT ![c] = None]
  /\ UNCHANGED <<blobVars, envVars>>

LoadOrInvokeGraphSemantic(c, force) ==
  kind = "graph-extractor" /\ Hash(c, force)

LoadOrInvokeWikiSynthesize(c, force) ==
  kind = "wiki-synthesizer" /\ Hash(c, force)

-----------------------------------------------------------------------------
(* _load_cached_agent_output: two exists, the meta, the artifact.          *)

Look(c) ==
  /\ pc[c] = "look"
  /\ Goto(c, IF artifact = None \/ meta = None THEN "submit" ELSE "validate")
  /\ UNCHANGED <<blobVars, sha, tries, job, result, envVars>>

\* Any meta is good enough, whatever input it is of.
MetaNotCompared(c) ==
  /\ pc[c] = "validate"
  /\ Goto(c, "fetch")
  /\ UNCHANGED <<blobVars, sha, tries, job, result, envVars>>

Validate(c) ==
  /\ pc[c] = "validate"
  /\ Goto(c, IF meta = sha[c] THEN "fetch" ELSE "submit")
  /\ UNCHANGED <<blobVars, sha, tries, job, result, envVars>>

ReturnCached(c) ==
  /\ pc[c] = "fetch"
  /\ Return(c, artifact)
  /\ UNCHANGED <<blobVars, envVars>>

-----------------------------------------------------------------------------
(* invoke_agent, and the agent.                                            *)

\* The agent takes the request.  In the mode async_suspend the call raises
\* once it has submitted a job nobody will ask for.
Submit(c) ==
  /\ pc[c] = "submit"
  /\ IF mode = "async_suspend"
     THEN Raise(c)
     ELSE /\ Goto(c, "wait")
          /\ job' = [job EXCEPT ![c].status = "queued"]
          /\ UNCHANGED <<sha, tries, result>>
  /\ UNCHANGED <<blobVars, envVars>>

\* The attempts are not counted.
BusyWithoutEnd(c) ==
  /\ pc[c] = "submit"
  /\ tries' = [tries EXCEPT ![c] = @ + 1]
  /\ UNCHANGED <<blobVars, pc, sha, job, result, envVars>>

\* 429 or 503: the request is posted again after a delay, and the last one
\* of them raises.
Busy(c) ==
  /\ pc[c] = "submit"
  /\ tries' = [tries EXCEPT ![c] = @ + 1]
  /\ Goto(c, IF tries'[c] < MaxRetries THEN "submit" ELSE "idle")
  /\ UNCHANGED <<blobVars, sha, job, result, envVars>>

\* Any other status, and a transport error of any of the call's requests.
RequestFails(c) ==
  /\ pc[c] \in {"submit", "wait"} /\ failures < MaxFailures
  /\ failures' = failures + 1
  /\ Raise(c)
  /\ UNCHANGED <<blobVars, kind, mode, rewrites, moved, halfWritten, pastVars>>

\* The agent reads the key it was given.
AgentStarts(c) ==
  /\ job[c].status = "queued"
  /\ job' = [job EXCEPT ![c] = [status |-> "running", from |-> input]]
  /\ UNCHANGED <<blobVars, pc, sha, tries, result, envVars>>

AgentEnds(c, status) ==
  /\ job[c].status = "running"
  /\ job' = [job EXCEPT ![c].status = status]
  /\ UNCHANGED <<blobVars, pc, sha, tries, result, envVars>>

\* The response of the one request, or of the poll that finds the job over.
Answer(c) ==
  /\ pc[c] = "wait" /\ job[c].status \in {"succeeded", "failed"}
  /\ IF job[c].status = "failed"
     THEN Raise(c)
     ELSE /\ Goto(c, "put")
          /\ result' = [result EXCEPT ![c] = job[c].from]
          /\ UNCHANGED <<sha, tries, job>>
  /\ UNCHANGED <<blobVars, envVars>>

\* The deadline is looked at only when a poll has found the job over.
WaitForTheJob(c) ==
  /\ pc[c] = "wait" /\ job[c].status = "failed"
  /\ Raise(c)
  /\ UNCHANGED <<blobVars, envVars>>

\* pipeline_agent_job_max_wait_s, or the timeout of the one request, is over.
\* What the agent makes of the job later reaches nobody.
GiveUp(c) ==
  /\ pc[c] = "wait"
  /\ Raise(c)
  /\ UNCHANGED <<blobVars, envVars>>

-----------------------------------------------------------------------------
(* _write_cached_agent_output, and what befalls a call.                    *)

PutArtifact(c) ==
  /\ pc[c] = "put"
  /\ artifact' = result[c]
  /\ Goto(c, "put_meta")
  /\ UNCHANGED <<input, meta, sha, tries, job, result, envVars>>

PutMeta(c) ==
  /\ pc[c] = "put_meta"
  /\ meta' = sha[c]
  /\ Goto(c, "idle")
  /\ UNCHANGED <<input, artifact, sha, tries, job, result, envVars>>

\* The pod dies, or a call to the blob store fails.
Die(c) ==
  /\ pc[c] # "idle" /\ failures < MaxFailures
  /\ failures' = failures + 1
  /\ halfWritten' = (halfWritten \/ pc[c] = "put_meta")
  /\ Goto(c, "idle")
  /\ result' = [result EXCEPT ![c] = None]
  /\ job' = [job EXCEPT ![c] = NoJob]
  /\ UNCHANGED <<blobVars, sha, tries, kind, mode, rewrites, moved, pastVars>>

\* Another run of the batch puts the input again.
Rewrite(v) ==
  /\ rewrites < MaxRewrites /\ v # input
  /\ input' = v
  /\ rewrites' = rewrites + 1
  /\ moved' = (moved \/ \E c \in Caller : pc[c] # "idle")
  /\ returned' = (returned \/ v \in past)
  /\ past' = past \cup {input}
  /\ UNCHANGED <<artifact, meta, callVars, kind, mode, failures, halfWritten>>

LoadCachedAgentOutput(c) == Look(c) \/ Validate(c) \/ ReturnCached(c)

InvokeAgent(c) == Submit(c) \/ Busy(c) \/ Answer(c) \/ GiveUp(c)

\* The meta is put first and the artifact after it.
WriteMetaFirst(c) ==
  \/ /\ pc[c] = "put"
     /\ meta' = sha[c]
     /\ Goto(c, "put_meta")
     /\ UNCHANGED <<input, artifact, sha, tries, job, result, envVars>>
  \/ /\ pc[c] = "put_meta"
     /\ artifact' = result[c]
     /\ Goto(c, "idle")
     /\ UNCHANGED <<input, meta, sha, tries, job, result, envVars>>

WriteCachedAgentOutput(c) == PutArtifact(c) \/ PutMeta(c)

CallStep(c) ==
  LoadCachedAgentOutput(c) \/ InvokeAgent(c) \/ WriteCachedAgentOutput(c)

Next ==
  \/ \E c \in Caller :
       \/ \E force \in BOOLEAN : \/ LoadOrInvokeGraphSemantic(c, force)
                                 \/ LoadOrInvokeWikiSynthesize(c, force)
       \/ CallStep(c) \/ RequestFails(c) \/ Die(c)
       \/ AgentStarts(c)
       \/ \E status \in {"succeeded", "failed"} : AgentEnds(c, status)
  \/ \E v \in Version : Rewrite(v)

Spec == Init /\ [][Next]_vars

\* The agents promise nothing; the callers run on, and their deadline comes.
FairSpec == Spec /\ \A c \in Caller : WF_vars(CallStep(c))

-----------------------------------------------------------------------------
(* Properties.                                                             *)

\* Two things put another content's answer into an entry: the input is written
\* again under a call, or a caller died between its two puts and the input was
\* given back a content it had before, which the old meta still vouches for.
Undisturbed == ~moved /\ ~(halfWritten /\ returned)

\* What a call returns, from the cache or from the agent, was made from the
\* input the call hashed, however calls overlap and whatever earlier ones left
\* when they ended, gave up or died.
CachedIsCurrent ==
  Undisturbed => \A c \in Caller : pc[c] = "idle" => result[c] \in {None, sha[c]}

\* At no moment, between two puts and after a death between them included, does
\* the meta vouch for the content the input has now while the artifact next to
\* it is another one's: _write_cached_agent_output puts the artifact first, so
\* that half an entry is one that nobody believes.
MetaVouches == Undisturbed => (meta = input => artifact = input)

\* A call ends, returning or raising, though the agent may never answer:
\* the retries are counted and every wait has a deadline.
CallEnds == \A c \in Caller : pc[c] # "idle" ~> pc[c] = "idle"
=============================================================================
