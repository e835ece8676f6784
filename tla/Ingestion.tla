------------------------------ MODULE Ingestion ------------------------------
(***************************************************************************)
(* Upload requests and the jobs they enqueue, running together over the    *)
(* shared stores.                                                          *)
(***************************************************************************)
EXTENDS Upload, ProcessDocument

vars == <<storeVars, uploadVars, workerVars>>

Init == StoreInit /\ UploadInit /\ WorkerInit

Next ==
  \/ UploadNext /\ UNCHANGED workerVars
  \/ WorkerNext /\ UNCHANGED uploadVars

Spec == Init /\ [][Next]_vars

(***************************************************************************)
(* Fairness: a handler or a job that can take its next step does (both are *)
(* coroutines the event loop schedules), and an idle worker polls its      *)
(* queue.  Uploads themselves, faults, timeouts and crashes are not fair.  *)
(***************************************************************************)
Fairness ==
  /\ \A r \in Requests : WF_vars(RequestStep(r) /\ UNCHANGED workerVars)
  /\ \A d \in DocId :
       /\ WF_vars(JobStep(d) /\ UNCHANGED uploadVars)
       /\ SF_vars((Pick(d) \/ GiveUp(d)) /\ UNCHANGED uploadVars)

FairSpec == Spec /\ Fairness

TypeOK == StoreTypeOK /\ UploadTypeOK /\ WorkerTypeOK

-----------------------------------------------------------------------------
Running(d) == ~At(d, "idle")
Queued(d) == d \in queue[WorkerQueue]
Settled(d) == doc[d].status \in {"indexed", "failed"}

\* The three counts of docs/08-data-lifecycle.md section 10: while a document
\* is indexed, its points in Qdrant, its rows in document_chunks and n_chunks
\* agree, all chunks are there, and rows and points carry the same ids,
\* whatever raised, timed out or crashed in this attempt or an earlier one
\* (ingestion.py:82-99).
IndexedConsistent ==
  \A d \in DocId : doc[d].status = "indexed" =>
    /\ Size(d) > 0 /\ doc[d].n_chunks = Size(d) /\ doc[d].indexed_at
    /\ vectors[d] = rows[d]
    /\ \E a \in 1 .. MaxTries : rows[d] = Points(a, Size(d))

\* At no moment, not even in the middle of a run that follows a crash, does
\* the collection hold points of two attempts at one document, so a search
\* never meets one chunk twice (delete_doc_vectors before index_chunks,
\* ingestion.py:87-95).
OneGenerationOfPoints ==
  \A d \in DocId : \A p, q \in vectors[d] : p[2] = q[2]

\* A job that is queued or running has a committed row and its raw object: the
\* handler puts, then commits, then enqueues (files.py:119-145), so a worker on
\* another connection never meets a missing document.
JobHasRow ==
  \A d \in DocId :
    (Running(d) \/ \E q \in QueueNames : d \in queue[q]) =>
      HasRow(d) /\ <<d, "raw">> \in objects

\* A 202 response names only documents that are in the database, and every
\* document this request created was handed to arq (files.py:140-147), even
\* when other requests upload the same contents and fail meanwhile.
AcceptedIsDurable ==
  \A r \in Requests : rpc[r] = "accepted" =>
    \A d \in out[r] :
      /\ HasRow(d)
      /\ d[1] = r => Running(d) \/ tries[d] > 0 \/ d \in queue[ApiQueue]

\* A document whose status is past parsing has its parsed.md in the bucket and
\* the key of it on its row (ingestion.py:66-75).
MarkdownBehindStatus ==
  \A d \in DocId : doc[d].status \in {"chunking", "embedding", "indexed"} =>
    doc[d].markdown_key /\ <<d, "parsed.md">> \in objects

-----------------------------------------------------------------------------
\* The pipeline implements DocLifecycle: the five statuses of a run are one
\* phase, and only an indexed document's points count.
PhaseOf(d) ==
  IF doc[d].status \in {"parsing", "chunking", "embedding"}
    THEN "working" ELSE doc[d].status

HitsOf(d) == IF doc[d].status = "indexed" THEN vectors[d] ELSE {}

Lifecycle == INSTANCE DocLifecycle WITH
  Docs <- DocId,
  ContentOf <- [d \in DocId |-> d[2]],
  Length <- [d \in DocId |-> Size(d)],
  Versions <- 1 .. MaxTries,
  phase <- [d \in DocId |-> PhaseOf(d)],
  text <- rows,
  hits <- [d \in DocId |-> HitsOf(d)]

\* Every behaviour of requests and jobs is one of the abstract lifecycle: text
\* is published once, whole, with matching points, and never rewritten.
ImplementsLifecycle == Lifecycle!Spec

\* Every upload that starts is answered: requests that insert the same
\* contents in opposite orders wait for each other's rows, and Postgres's
\* deadlock detection lets one go on (files.py:92-136 under
\* uq_doc_checksum_per_tenant).
RequestsTerminate ==
  \A r \in Requests :
    (rpc[r] \notin {"new", "rejected"}) ~> (rpc[r] \in {"accepted", "error"})

\* While nothing raises or times out, a queued job whose deliveries outnumber
\* the crashes still to come brings its document to indexed, or to failed when
\* the document has no chunks: a run that starts again from any status, over the
\* points and objects of the run that died, gets through (ingestion.py:40-103).
CrashesAreSurvived ==
  \A d \in DocId :
    (Queued(d) /\ tries[d] + (MaxCrashes - crashes) < MaxTries)
      ~> \/ doc[d].status = (IF Size(d) = 0 THEN "failed" ELSE "indexed")
         \/ faults > 0

-----------------------------------------------------------------------------
\* docs/08-data-lifecycle.md:488-491: a retry after a failure leaves nothing
\* inconsistent for good.  Once no run and no delivery of the job is left, a
\* document with chunk rows has exactly the points those rows name.
RetryRepairs ==
  \A d \in DocId :
    (rows[d] # {} /\ ~Running(d) /\ ~Queued(d)) => vectors[d] = rows[d]
=============================================================================
