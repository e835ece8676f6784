------------------------------ MODULE DocStore ------------------------------
(***************************************************************************)
(* The stores that the two halves of ingestion share: the tables documents *)
(* and document_chunks (Postgres), the raw and parsed objects (MinIO), the *)
(* points of legal_docs_v1 (Qdrant) and the pending jobs (arq on Redis).   *)
(*                                                                         *)
(* One tenant is modelled.  A document is named by the upload request that *)
(* created it and by the content it holds: a request inserts at most one   *)
(* row per content, because the second occurrence finds the first          *)
(* (api/routes/files.py:114-117).                                          *)
(***************************************************************************)
EXTENDS Integers, FiniteSets, Sequences

CONSTANTS
  Requests,     \* POST /files requests, each performed at most once
  Contents,     \* distinct file contents, told apart by their sha256
  NChunks,      \* NChunks[c]: chunks that chunk_document makes of c
  QueueNames,   \* names of arq queues
  ApiQueue,     \* the queue get_arq_pool enqueues on
  WorkerQueue,  \* the queue WorkerSettings.queue_name polls
  MaxTries,     \* arq's max_tries: attempts at one job
  MaxFaults,    \* bound: awaited calls that raise, requests that die
  MaxCrashes    \* bound: runs that die with their worker

ASSUME ChunksAssumption == NChunks \in [Contents -> Nat]
ASSUME QueueAssumption == ApiQueue \in QueueNames /\ WorkerQueue \in QueueNames
ASSUME BoundAssumption ==
  /\ MaxTries \in Nat \ {0}
  /\ MaxFaults \in Nat
  /\ MaxCrashes \in Nat

DocId == Requests \X Contents

\* How many chunks a document has, and the points (or rows) that attempt a
\* has made once k of them exist: an index with the attempt that drew its uuid.
Size(d) == NChunks[d[2]]
Points(a, k) == (1 .. k) \X {a}

Status == {"absent", "pending", "parsing", "chunking", "embedding",
           "indexed", "failed"}

\* The columns of a documents row that ingestion writes.  n_chunks = 0 stands
\* for NULL; error, markdown_key and indexed_at are kept as set / not set.
Row == [status: Status, n_chunks: Nat, error: BOOLEAN,
        markdown_key: BOOLEAN, indexed_at: BOOLEAN]

NoRow == [status |-> "absent", n_chunks |-> 0, error |-> FALSE,
          markdown_key |-> FALSE, indexed_at |-> FALSE]

VARIABLES
  doc,      \* documents: DocId -> Row
  rows,     \* document_chunks of a document: <<chunk_index, attempt>>
  vectors,  \* Qdrant points with this doc_id: <<chunk_index, attempt>>
  objects,  \* MinIO: <<document, "raw">> and <<document, "parsed.md">>
  queue,    \* jobs waiting in each arq queue
  faults,   \* faults spent so far (bounded by MaxFaults)
  crashes   \* crashes spent so far (bounded by MaxCrashes)

storeVars == <<doc, rows, vectors, objects, queue, faults, crashes>>

StoreTypeOK ==
  /\ doc \in [DocId -> Row]
  /\ rows \in [DocId -> SUBSET (Nat \X Nat)]
  /\ vectors \in [DocId -> SUBSET (Nat \X Nat)]
  /\ objects \in SUBSET (DocId \X {"raw", "parsed.md"})
  /\ queue \in [QueueNames -> SUBSET DocId]
  /\ faults \in 0 .. MaxFaults
  /\ crashes \in 0 .. MaxCrashes

StoreInit ==
  /\ doc = [d \in DocId |-> NoRow]
  /\ rows = [d \in DocId |-> {}]
  /\ vectors = [d \in DocId |-> {}]
  /\ objects = {}
  /\ queue = [q \in QueueNames |-> {}]
  /\ faults = 0
  /\ crashes = 0

\* DocumentRepo.create leaves every optional column at its default.
NewRow == [NoRow EXCEPT !.status = "pending"]

\* DocumentRepo.set_status: a column is written only when the caller gives it,
\* so an earlier error stays on the row when the document is indexed later.
SetStatus(d, st, err, n, md) ==
  doc' = [doc EXCEPT ![d] =
            [status |-> st,
             n_chunks |-> IF n = 0 THEN @.n_chunks ELSE n,
             error |-> @.error \/ err,
             markdown_key |-> @.markdown_key \/ md,
             indexed_at |-> @.indexed_at \/ st = "indexed"]]

HasRow(d) == doc[d].status # "absent"

\* A call that may raise does so only while the bound on faults lasts.
SpendFault == faults < MaxFaults /\ faults' = faults + 1
=============================================================================
