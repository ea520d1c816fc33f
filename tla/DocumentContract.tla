-------------------------- MODULE DocumentContract --------------------------
(***************************************************************************)
(* What the pipeline promises about each document, whatever it does behind *)
(* the promise.  A document is open, indexed or erased.                    *)
(*                                                                         *)
(* - The graph never holds a chunk that the database does not.             *)
(* - While a document is indexed its text does not change.                 *)
(* - It is erased only when nothing retrieval could reach is left of it,   *)
(*   nothing comes back while it is erased, and it leaves that state open, *)
(*   never straight to indexed.                                            *)
(*                                                                         *)
(* The promise covers a document as long as no conflicting operations meet *)
(* on it: the code takes no lock, so a contended document is not covered.  *)
(***************************************************************************)
CONSTANTS Doc, Chunk

VARIABLES
  status,    \* "open", "indexed" or "erased"
  text,      \* the chunks search can return
  graph,     \* the chunks the graph mentions
  contended  \* documents conflicting operations met on

vars == <<status, text, graph, contended>>

Init ==
  /\ status = [d \in Doc |-> "open"]
  /\ text = [d \in Doc |-> {}] /\ graph = [d \in Doc |-> {}]
  /\ contended = {}

KeepsContent(d) == text'[d] = text[d] /\ graph'[d] = graph[d]

\* Between two indexed states anything may be written, unlinked or deleted.
Work(d) ==
  /\ status[d] = "open" /\ status'[d] = "open"
  /\ text'[d] \subseteq Chunk /\ graph'[d] \subseteq text'[d]

Index(d) ==
  /\ status[d] = "open" /\ status'[d] = "indexed"
  /\ text[d] # {} /\ KeepsContent(d)

\* Mentions of an indexed document are added, or cut by a compensation.
Link(d) ==
  /\ status[d] = "indexed" /\ status'[d] = "indexed"
  /\ text'[d] = text[d] /\ graph'[d] \subseteq text[d]

Reopen(d) == status[d] = "indexed" /\ status'[d] = "open" /\ KeepsContent(d)

Erase(d) ==
  /\ status[d] = "open" /\ status'[d] = "erased"
  /\ text[d] = {} /\ graph[d] = {} /\ KeepsContent(d)

Restore(d) == status[d] = "erased" /\ status'[d] = "open" /\ KeepsContent(d)

Rests(d) == status'[d] = status[d] /\ KeepsContent(d)

Covered(d) ==
  Work(d) \/ Index(d) \/ Link(d) \/ Reopen(d) \/ Erase(d) \/ Restore(d) \/ Rests(d)

Next ==
  /\ contended \subseteq contended'
  /\ \A d \in Doc : d \in contended' \/ Covered(d)

Spec == Init /\ [][Next]_vars
=============================================================================
