-------------------------- MODULE ProjectInvariant --------------------------
(***************************************************************************)
(* The inductive invariant of ProjectLifecycle.  What a purge or a         *)
(* deletion leaves behind is decided call by call: which stores it has     *)
(* emptied, which documents it listed and has still to purge, and which of *)
(* them were touched since.  That only one workflow of a kind runs is      *)
(* decided when its request looks for an open run.                         *)
(***************************************************************************)
EXTENDS ProjectLifecycle

\* Where a purge or a deletion is that has listed the documents to purge, has
\* purged them, has deleted the wiki, the raw files, the embeddings, the space
\* and the parsed prefixes.
Unprefixed == {"data"}
Unspaced   == {"settle", "prefixes"} \cup Unprefixed
Uncached   == {"drop"} \cup Unspaced
Unrawed    == {"clear"} \cup Uncached
Unwikied   == {"raw"} \cup Unrawed
Emptying   == {"wiki"} \cup Unwikied
Purging    == {"purge", "finish"}

\* What the labels of a request say about it.
Controlled(r) ==
  /\ pc[r] = "idle" => status[r] = "none"
  /\ pc[r] \in Emptying => kind[r] \in Lifecycle
  /\ pc[r] \in {"list_ids", "again", "prefixes", "data"} => kind[r] = "delete"
  /\ present /\ Running(r) => status[r] = "submitted"

\* Of requests that do not overlap one is made at a time, and the one that has
\* looked for an open run of its kind still finds none.
Alone ==
  ~overlapped =>
    /\ \A q, r \in Run :
         pc[q] \in Requesting /\ pc[r] \in Requesting => q = r
    /\ \A q, r \in Run : pc[r] \in {"mark", "submit"} => ~Active(q, kind[r])

\* Something can only be left of a document that has, or had, a row; nothing
\* that is searched is left of one that is purged.
Kept(d) ==
  /\ present => \A s \in Store \ {"raw"} : d \in left[s] => state[d] # "none"
  /\ state[d] = "purged" => d \notin left["rows"] \cup left["parsed"]

\* What a purge or a deletion of the project has done about a document that
\* nobody has touched since it listed the documents.
Done(r, d) ==
  /\ pc[r] \in Purging /\ state[d] = "open" => d \in todo[r]
  /\ pc[r] \in Emptying => state[d] # "open"
  /\ pc[r] \in Unwikied => d \notin left["wiki"]
  /\ pc[r] \in Unrawed => d \notin left["raw"]
  /\ pc[r] \in Uncached => d \notin left["vectors"]
  /\ pc[r] \in Unspaced => d \notin left["space"]
  /\ pc[r] \in Unprefixed => d \notin left["parsed"] \cup left["pages"]

\* And a deletion, which remembers the documents with a row.
Remembered(r, d) ==
  pc[r] \in {"again", "list"} \cup Purging \cup Emptying /\ state[d] # "none"
  => d \in doc_ids[r]

IInv ==
  /\ TypeOK
  /\ \A r \in Run : Controlled(r)
  /\ Alone
  /\ OneOfAKind
  /\ \A d \in Doc : Kept(d)
  /\ \A r \in Run : kind[r] \in Lifecycle /\ present =>
       \A d \in Doc \ late[r] : /\ Done(r, d)
                                /\ kind[r] = "delete" => Remembered(r, d)
  /\ PurgedLeavesOnlyLate
  /\ DeletedLeavesNothing
=============================================================================
