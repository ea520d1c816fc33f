-------------------------- MODULE GraphExtraction ---------------------------
(***************************************************************************)
(* One job of the graph extractor over the chunks of a document: groups of *)
(* chunks one after the other, the batches of a group at once behind a     *)
(* semaphore, and every batch an LLM cannot answer cut in two and asked    *)
(* again.  The coroutines of asyncio.gather are not cancelled when one of  *)
(* them raises: what is under way or waiting when the job fails goes on.   *)
(***************************************************************************)
EXTENDS Chunking, FiniteSets

CONSTANTS
  Document,    \* documents a job may be for: chunker |-> "pymupdf" or
               \* "blocks", and boxes, the sequence of their roles and texts
  Workers,     \* max_concurrent_workers
  MinSplit     \* min_split_chars

\* No visible character of a document is in two places of its text.
Numbered(boxes) ==
  \A a, b \in DOMAIN boxes :
    \A i \in DOMAIN boxes[a].text, j \in DOMAIN boxes[b].text :
      boxes[a].text[i] = boxes[b].text[j] =>
        IsBlank(boxes[a].text[i]) \/ (a = b /\ i = j)

ASSUME ConstantsAssumption ==
  /\ \A d \in Document : /\ d.chunker \in {"pymupdf", "blocks"}
                         /\ d.boxes \in Seq([role : Role, text : Seq(Int)])
                         /\ Numbered(d.boxes)
  /\ Workers \in Nat /\ MinSplit \in Nat

VARIABLES
  doc,         \* the document
  pc,          \* where the job is
  groups,      \* chunk_groups: a sequence of sequences of batches
  group,       \* the group it is at
  waiting,     \* batches of the group behind the semaphore
  calls,       \* requests at the LLM: batch, text, attempt
  broken,      \* batches one of whose calls raised
  answered,    \* texts the LLM gave a graph for
  lost         \* texts given up as too short to cut

vars == <<doc, pc, groups, group, waiting, calls, broken, answered, lost>>

ChunksOf(d) == IF d.chunker = "pymupdf" THEN ChunkFromPymupdfJson(d.boxes)
               ELSE ChunkFromBlocks(d.boxes)

Text(b) == groups[b[1]][b[2]]
InGroup(g) == {<<g, k>> : k \in DOMAIN groups[g]}

TypeOK ==
  /\ doc \in Document
  /\ pc \in {"load", "extract", "succeeded", "failed"}
  /\ group \in 0..Len(groups)
  /\ waiting \cup broken \subseteq UNION {InGroup(g) : g \in DOMAIN groups}
  /\ \A c \in calls : /\ c.batch \in UNION {InGroup(g) : g \in DOMAIN groups}
                      /\ c.attempt \in 1..2
                      /\ Chars(c.text) \subseteq Chars(Text(c.batch))
  /\ \A t \in answered \cup lost : t # <<>>

Init ==
  /\ doc \in Document
  /\ pc = "load"
  /\ groups = <<>> /\ group = 0
  /\ waiting = {} /\ calls = {} /\ broken = {}
  /\ answered = {} /\ lost = {}

-----------------------------------------------------------------------------
(* The job.  Variants of a definition, each with a mistake the checks must *)
(* notice, stand before it.                                                *)

\* The chunks file is fetched, grouped and batched, or it is not.
LoadChunks ==
  /\ pc = "load"
  /\ \/ /\ pc' = "extract"
        /\ \E chunks \in {ChunksOf(doc)} :
             \E lines \in {SplitChunkLineGroups(chunks)} :
               groups' = [g \in DOMAIN lines |-> SplitChunkBatches(lines[g])]
     \/ pc' = "failed" /\ UNCHANGED groups
  /\ UNCHANGED <<doc, group, waiting, calls, broken, answered, lost>>

GroupDone == waiting = {} /\ calls = {}

\* After the last group the next one is looked for.
StartPastTheLast ==
  /\ pc = "extract" /\ GroupDone
  /\ group' = group + 1
  /\ IF group < Len(groups)
     THEN waiting' = InGroup(group + 1) /\ UNCHANGED pc
     ELSE pc' = "succeeded" /\ UNCHANGED waiting
  /\ UNCHANGED <<doc, groups, calls, broken, answered, lost>>

StartGroup ==
  /\ pc = "extract" /\ GroupDone
  /\ group < Len(groups)
  /\ group' = group + 1
  /\ waiting' = InGroup(group + 1)
  /\ UNCHANGED <<doc, pc, groups, calls, broken, answered, lost>>

\* The parts are merged into one graph, which may hold text that has no UTF-8
\* form: then the job fails after all its answers.
Finish ==
  /\ pc = "extract" /\ GroupDone
  /\ group = Len(groups)
  /\ pc' \in {"succeeded", "failed"}
  /\ UNCHANGED <<doc, groups, group, waiting, calls, broken, answered, lost>>

\* A batch holds its permit until its own call is through, and that is when
\* one of its parts raises: the other parts go on without one.
Holders == {c.batch : c \in calls} \ broken
Permits == IF Workers > 1 THEN Workers ELSE 1

RunBatch(b) ==
  /\ b \in waiting
  /\ Cardinality(Holders) < Permits
  /\ waiting' = waiting \ {b}
  /\ calls' = calls \cup {[batch |-> b, text |-> Text(b), attempt |-> 1]}
  /\ UNCHANGED <<doc, pc, groups, group, broken, answered, lost>>

Answer(c) ==
  /\ calls' = calls \ {c}
  /\ answered' = answered \cup {c.text}
  /\ UNCHANGED <<doc, pc, groups, group, waiting, broken, lost>>

\* The call raises, its batch raises, the job fails.
Raise(c) ==
  /\ calls' = calls \ {c}
  /\ broken' = broken \cup {c.batch}
  /\ pc' = "failed"
  /\ UNCHANGED <<doc, groups, group, waiting, answered, lost>>

\* A text that cannot be answered in one piece.
Split(c) ==
  LET halves == SplitBatchText(c.text)
  IN IF Len(c.text) <= MinSplit
     THEN /\ calls' = calls \ {c}
          /\ lost' = lost \cup {c.text}
          /\ UNCHANGED <<doc, pc, groups, group, waiting, broken, answered>>
     ELSE IF ~Whole(halves)
     THEN Raise(c)
     ELSE /\ calls' = (calls \ {c}) \cup
                      {[batch |-> c.batch, text |-> halves[h],
                        attempt |-> 1] : h \in 1..2}
          /\ UNCHANGED <<doc, pc, groups, group, waiting, broken, answered,
                         lost>>

\* An empty answer is asked for again as often as it takes.
AskAgainForEver(c) ==
  /\ calls' = (calls \ {c}) \cup {[c EXCEPT !.attempt = 3 - @]}
  /\ UNCHANGED <<doc, pc, groups, group, waiting, broken, answered, lost>>

\* An empty answer is asked for once more, and then taken for a text that is
\* too long.
EmptyAnswer(c) ==
  IF c.attempt = 1
  THEN /\ calls' = (calls \ {c}) \cup {[c EXCEPT !.attempt = 2]}
       /\ UNCHANGED <<doc, pc, groups, group, waiting, broken, answered, lost>>
  ELSE Split(c)

\* What the LLM makes of a call: a graph; nothing; the length limit, or words
\* that are no JSON; an error of any other kind.
ExtractChunksText(c) == Answer(c) \/ EmptyAnswer(c) \/ Split(c) \/ Raise(c)

Next ==
  \/ LoadChunks \/ StartGroup \/ Finish
  \/ \E b \in waiting : RunBatch(b)
  \/ \E c \in calls : ExtractChunksText(c)

Spec == Init /\ [][Next]_vars

\* The event loop goes on, and every request ends: the client has a timeout.
FairSpec ==
  /\ Spec
  /\ WF_vars(LoadChunks) /\ WF_vars(StartGroup) /\ WF_vars(Finish)
  /\ WF_vars(\E b \in waiting : RunBatch(b))
  /\ WF_vars(\E c \in calls : ExtractChunksText(c))

-----------------------------------------------------------------------------
\* The text a chunker must keep: of its tables and its paragraphs.
Body(d) ==
  UNION {Chars(d.boxes[i].text) :
           i \in {j \in DOMAIN d.boxes :
                    d.boxes[j].role \in {"table", "paragraph"}}}

Disjoint(S) == \A s, t \in S : s # t => Chars(s) \cap Chars(t) = {}

\* Nothing of a document's body is dropped between the parser and the LLM,
\* and nothing asked twice: when the job succeeds every character was in one
\* text the LLM gave a graph for, or in one that was too short to cut.
TextAccounted ==
  /\ Disjoint(answered \cup lost \cup {c.text : c \in calls})
  /\ \A t \in lost : Len(t) <= MinSplit
  /\ pc = "succeeded" =>
       Body(doc) \subseteq UNION {Chars(t) : t \in answered \cup lost}

\* The job ends, and so do the calls it left behind, however often a text is
\* cut.
JobEnds == <>[](pc \in {"succeeded", "failed"} /\ GroupDone)
=============================================================================
