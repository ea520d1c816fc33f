---------------------------- MODULE RawInvariant ----------------------------
(***************************************************************************)
(* The inductive invariant of RawFiles: what an upload, a collector, an    *)
(* ingest, a purge, a restore and a cleanup may rely on at each of their   *)
(* calls.  RowHasFile, FileAccounted and SkippedHasRow are not inductive   *)
(* by themselves: that a row has its file lies in where the file was seen  *)
(* or put before the row was inserted, that no file is lost in what the    *)
(* cleanup has listed so far, and that an upload may skip its row in which *)
(* other operation put the file it found.                                  *)
(***************************************************************************)
EXTENDS RawFiles

Storers   == {"upload", "collect", "build", "ingest"}
Exclusive == PurgeOps \cup CleanupOps \cup {"restore"}

\* The labels an operation can be at.
LabelsOf(o) ==
  CASE o = "upload"     -> {"gate", "put", "upsert", "recheck", "insert"}
    [] o = "ingest"     -> {"load", "gate", "upsert", "recheck", "insert",
                            "settle"}
    [] o = "collect"    -> {"put", "write"}
    [] o = "build"      -> {"write"}
    [] o \in PurgeOps   -> {"begin", "shred", "bury", "mark"}
    [] o = "restore"    -> {"unbury", "revive"}
    [] o \in CleanupOps -> {"list_docs", "list_raw", "delete"}
    [] OTHER            -> {"idle"}

\* What the variables of a worker may hold, whoever else is running.
Rowed(f)  == state[f[1]] # "none"
Listed(f) == f[2] \in Manual => Rowed(f)

Carrying(w) ==
  /\ op[w] \in Ops \cup {"none"}
  /\ pc[w] \in LabelsOf(op[w])
  /\ op[w] \in {"upload", "ingest", "restore"} \cup PurgeOps =>
       \E f \in File : items[w] = {f}
  /\ op[w] = "upload" => \A f \in items[w] : f[2] \in Manual
  /\ op[w] = "ingest" => \A f \in items[w] : Listed(f)
  /\ op[w] = "collect" =>
       todo[w] \subseteq items[w] /\ \A f \in items[w] : f[2] \notin Manual
  /\ op[w] \in {"build", "restore"} \cup PurgeOps =>
       \A f \in items[w] : Rowed(f)
  /\ pc[w] = "settle" => \A f \in items[w] : Rowed(f)
  /\ pc[w] \in {"list_docs", "list_raw"} => todo[w] = {}
  /\ pc[w] = "list_docs" => items[w] = {}
  /\ op[w] \notin {"collect"} \cup CleanupOps => todo[w] = {}
  /\ op[w] \in {"collect", "build"} => \E b \in Batch : batches[w] = {b}
  /\ op[w] \notin {"collect", "build"} \cup CleanupOps => batches[w] = {}
  /\ op[w] = "none" => items[w] = {}
  /\ op[w] # "upload" => ~seen[w]

\* A batch id belongs to whoever will write its manifest.
Owning(w) ==
  op[w] \in {"collect", "build"} =>
    \A b \in batches[w] :
      b \notin manifests /\ \A v \in Worker \ {w} : b \notin batches[v]

Manifested == \A b \in manifests : \A f \in lines[b] : Listed(f)

Concerns(w, d) == d \in About(op[w], items[w])

Exclusion ==
  \A v, w \in Worker : \A d \in Doc \ contended :
    v # w /\ Concerns(v, d) /\ Concerns(w, d) =>
      op[v] \in Storers /\ op[w] \in Storers

\* The stores, about a document that is not contended.
Content(d) ==
  /\ d \in tombstones => state[d] \in {"purging", "purged"}
  /\ "cleanup_all" \notin Ops /\ state[d] # "none" /\ d \notin shredded =>
       <<d, uri[d]>> \in raw

\* What a worker knows of a file it is about, between two calls.
Knows(w, f) ==
  /\ op[w] \in Storers \ {"collect"} /\ pc[w] \notin {"load", "gate"} =>
       f[1] \notin tombstones
  /\ pc[w] \in {"upsert", "recheck", "insert", "settle"} => f \in raw
  /\ pc[w] = "gate" /\ op[w] = "ingest" => f \in raw
  /\ pc[w] = "begin" => state[f[1]] # "purged"
  /\ pc[w] \in {"shred", "bury", "mark"} => state[f[1]] = "purging"
  /\ pc[w] = "revive" => f[1] \notin tombstones

\* What a cleanup knows of any file.
Sweeps(w, f) ==
  /\ pc[w] = "list_raw" =>
       (f \in items[w] <=> (op[w] = "cleanup" /\ Rowed(f)))
  /\ pc[w] = "delete" /\ f \in raw /\ ~Rowed(f) => f \in todo[w]
  /\ pc[w] = "delete" /\ op[w] = "cleanup" /\ f \in todo[w] => ~Rowed(f)

\* Without a failure: who will see to a file, and to the row of a skipped one.
Accounted(f) ==
  \/ Rowed(f)
  \/ \E b \in manifests : f \in lines[b]
  \/ \E w \in Worker : f \in items[w] \cup todo[w]

Writing(v, f) == op[v] = "upload" /\ ~seen[v] /\ items[v] = {f}

Skips(w, f) ==
  op[w] = "upload" /\ seen[w] /\ f \in items[w] =>
    Rowed(f) \/ \E v \in Worker \ {w} : Writing(v, f)

IInv ==
  /\ TypeOK
  /\ \A w \in Worker : Carrying(w) /\ Owning(w)
  /\ Manifested
  /\ Exclusion
  /\ \A d \in Doc \ contended : Content(d)
  /\ \A f \in File : f[1] \notin contended =>
       \A w \in Worker : /\ f \in items[w] => Knows(w, f)
                         /\ op[w] \in CleanupOps => Sweeps(w, f)
                         /\ crashes = 0 => Skips(w, f)
  /\ \A f \in raw : f[1] \notin contended /\ crashes = 0 => Accounted(f)
=============================================================================
