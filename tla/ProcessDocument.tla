--------------------------- MODULE ProcessDocument ---------------------------
(***************************************************************************)
(* The arq job process_document (worker/tasks/ingestion.py:36-111).  Each  *)
(* await of the job is an action; between two of them the run may raise,   *)
(* be cancelled by job_timeout, or die with its worker process, and the    *)
(* runs of other documents interleave (at most MaxJobs at a time).         *)
(*                                                                         *)
(* arq itself is external: a job leaves the queue for good when its        *)
(* function returns; a run that dies with its worker is delivered again,   *)
(* at most MaxTries times in all; two runs of one job never overlap (the   *)
(* in-progress marker outlives job_timeout), so a run is named by its      *)
(* document.  Whether a job that raised is delivered again is left to      *)
(* RetryOnError.                                                           *)
(***************************************************************************)
EXTENDS DocStore

CONSTANTS
  MaxJobs,      \* jobs all worker processes run at a time
  BatchSize,    \* points per Qdrant upsert (128 in the code)
  RetryOnError  \* does arq deliver a job again after an exception?

ASSUME WorkerAssumption ==
  MaxJobs \in Nat /\ BatchSize \in Nat \ {0} /\ RetryOnError \in BOOLEAN

VARIABLES
  wpc,       \* the call that the run of a document performs next
  upserted,  \* points that the run has upserted
  tries      \* deliveries of the document's job so far

workerVars == <<wpc, upserted, tries>>

\* Calls inside the try block of process_document, and those outside it.
TryPc == {"download", "put_markdown", "set_chunking", "chunk", "set_embedding",
          "delete_vectors", "upsert", "insert_rows", "publish_indexed"}
OutsidePc == {"load", "publish_parsing", "set_failed", "publish_failed"}

WorkerTypeOK ==
  /\ wpc \in [DocId -> TryPc \cup OutsidePc \cup {"idle"}]
  /\ upserted \in [DocId -> Nat]
  /\ tries \in [DocId -> 0 .. MaxTries]

WorkerInit ==
  /\ wpc = [d \in DocId |-> "idle"]
  /\ upserted = [d \in DocId |-> 0]
  /\ tries = [d \in DocId |-> 0]

At(d, here) == wpc[d] = here
Goto(d, there) == wpc' = [wpc EXCEPT ![d] = there]

\* Steps that leave the queue and the fault counters alone.
Quiet == UNCHANGED <<queue, faults, crashes, tries>>

Pick(d) ==
  /\ At(d, "idle")
  /\ d \in queue[WorkerQueue] /\ tries[d] < MaxTries
  /\ Cardinality({e \in DocId : ~At(e, "idle")}) < MaxJobs
  /\ queue' = [queue EXCEPT ![WorkerQueue] = @ \ {d}]
  /\ tries' = [tries EXCEPT ![d] = @ + 1]
  /\ upserted' = [upserted EXCEPT ![d] = 0]
  /\ Goto(d, "load")
  /\ UNCHANGED <<doc, rows, vectors, objects, faults, crashes>>

\* "max retries exceeded": the job is dropped without running.
GiveUp(d) ==
  /\ At(d, "idle")
  /\ d \in queue[WorkerQueue] /\ tries[d] = MaxTries
  /\ queue' = [queue EXCEPT ![WorkerQueue] = @ \ {d}]
  /\ UNCHANGED <<doc, rows, vectors, objects, faults, crashes, workerVars>>

\* Mutant of SkipJob: also skips a document that an earlier run started.
SkipUnlessPending(d) ==
  /\ At(d, "load")
  /\ doc[d].status # "pending"
  /\ Goto(d, "idle")
  /\ UNCHANGED <<doc, rows, vectors, objects, upserted>> /\ Quiet

\* Early return: the row is missing, or an earlier delivery indexed it.
SkipJob(d) ==
  /\ At(d, "load")
  /\ doc[d].status \in {"absent", "indexed"}
  /\ Goto(d, "idle")
  /\ UNCHANGED <<doc, rows, vectors, objects, upserted>> /\ Quiet

\* Mutant of LoadAndSetParsing: no check of the status.
LoadAnyStatus(d) ==
  /\ At(d, "load")
  /\ SetStatus(d, "parsing", FALSE, 0, FALSE)
  /\ Goto(d, "publish_parsing")
  /\ UNCHANGED <<rows, vectors, objects, upserted>> /\ Quiet

LoadAndSetParsing(d) ==
  /\ At(d, "load")
  /\ doc[d].status \notin {"absent", "indexed"}
  /\ SetStatus(d, "parsing", FALSE, 0, FALSE)
  /\ Goto(d, "publish_parsing")
  /\ UNCHANGED <<rows, vectors, objects, upserted>> /\ Quiet

PublishParsing(d) ==
  /\ At(d, "publish_parsing")
  /\ Goto(d, "download")
  /\ UNCHANGED <<doc, rows, vectors, objects, upserted>> /\ Quiet

\* Mutant of DownloadAndParse: the markdown is not stored.
ParseWithoutMarkdown(d) ==
  /\ At(d, "download")
  /\ Goto(d, "set_chunking")
  /\ UNCHANGED <<doc, rows, vectors, objects, upserted>> /\ Quiet

DownloadAndParse(d) ==
  /\ At(d, "download")
  /\ Goto(d, IF <<d, "raw">> \in objects THEN "put_markdown"
                                               ELSE "set_failed")
  /\ UNCHANGED <<doc, rows, vectors, objects, upserted>> /\ Quiet

PutMarkdown(d) ==
  /\ At(d, "put_markdown")
  /\ objects' = objects \cup {<<d, "parsed.md">>}
  /\ Goto(d, "set_chunking")
  /\ UNCHANGED <<doc, rows, vectors, upserted>> /\ Quiet

SetChunking(d) ==
  /\ At(d, "set_chunking")
  /\ SetStatus(d, "chunking", FALSE, 0, TRUE)
  /\ Goto(d, "chunk")
  /\ UNCHANGED <<rows, vectors, objects, upserted>> /\ Quiet

\* Publish, then chunk_document; a document without chunks raises ValueError.
PublishAndChunk(d) ==
  /\ At(d, "chunk")
  /\ Goto(d, IF Size(d) = 0 THEN "set_failed" ELSE "set_embedding")
  /\ UNCHANGED <<doc, rows, vectors, objects, upserted>> /\ Quiet

SetEmbedding(d) ==
  /\ At(d, "set_embedding")
  /\ SetStatus(d, "embedding", FALSE, 0, FALSE)
  /\ Goto(d, "delete_vectors")
  /\ UNCHANGED <<rows, vectors, objects, upserted>> /\ Quiet

\* Mutant of DeleteVectors: the points of an earlier attempt stay.
KeepOldVectors(d) ==
  /\ At(d, "delete_vectors")
  /\ Goto(d, "upsert")
  /\ UNCHANGED <<doc, rows, vectors, objects, upserted>> /\ Quiet

DeleteVectors(d) ==
  /\ At(d, "delete_vectors")
  /\ vectors' = [vectors EXCEPT ![d] = {}]
  /\ Goto(d, "upsert")
  /\ UNCHANGED <<doc, rows, objects, upserted>> /\ Quiet

\* One batch of index_chunks: the next BatchSize points, under the uuids this
\* attempt drew.
UpsertTo(d) ==
  IF upserted[d] + BatchSize < Size(d)
    THEN upserted[d] + BatchSize ELSE Size(d)

\* Mutant of UpsertBatch: a last batch that is not full is left out.
DropPartialBatch(d) ==
  /\ At(d, "upsert")
  /\ upserted' = [upserted EXCEPT ![d] = UpsertTo(d)]
  /\ IF upserted[d] + BatchSize > Size(d)
       THEN UNCHANGED vectors
       ELSE vectors' = [vectors EXCEPT ![d] =
                          @ \cup ((upserted[d] + 1) .. UpsertTo(d)) \X {tries[d]}]
  /\ Goto(d, IF UpsertTo(d) = Size(d) THEN "insert_rows" ELSE "upsert")
  /\ UNCHANGED <<doc, rows, objects>> /\ Quiet

UpsertBatch(d) ==
  /\ At(d, "upsert")
  /\ upserted' = [upserted EXCEPT ![d] = UpsertTo(d)]
  /\ vectors' = [vectors EXCEPT ![d] =
                   @ \cup ((upserted[d] + 1) .. UpsertTo(d)) \X {tries[d]}]
  /\ Goto(d, IF UpsertTo(d) = Size(d) THEN "insert_rows" ELSE "upsert")
  /\ UNCHANGED <<doc, rows, objects>> /\ Quiet

\* bulk_insert_chunks and set_status("indexed") in one transaction.
InsertRowsAndIndex(d) ==
  /\ At(d, "insert_rows")
  /\ rows[d] = {}
  /\ rows' = [rows EXCEPT ![d] = Points(tries[d], Size(d))]
  /\ SetStatus(d, "indexed", FALSE, Size(d), FALSE)
  /\ Goto(d, "publish_indexed")
  /\ UNCHANGED <<vectors, objects, upserted>> /\ Quiet

\* uq_chunk_doc_idx refuses the rows: an earlier run already inserted them and
\* nothing ever deletes them.
InsertRowsConflict(d) ==
  /\ At(d, "insert_rows")
  /\ rows[d] # {}
  /\ Goto(d, "set_failed")
  /\ UNCHANGED <<doc, rows, vectors, objects, upserted>> /\ Quiet

PublishIndexed(d) ==
  /\ At(d, "publish_indexed")
  /\ Goto(d, "idle")
  /\ UNCHANGED <<doc, rows, vectors, objects, upserted>> /\ Quiet

\* Mutant of SetFailed: a status that no reader knows.
SetError(d) ==
  /\ At(d, "set_failed")
  /\ SetStatus(d, "error", TRUE, 0, FALSE)
  /\ Goto(d, "publish_failed")
  /\ UNCHANGED <<rows, vectors, objects, upserted>> /\ Quiet

\* The except block: status failed in a transaction of its own, the event,
\* then `raise`.
SetFailed(d) ==
  /\ At(d, "set_failed")
  /\ SetStatus(d, "failed", TRUE, 0, FALSE)
  /\ Goto(d, "publish_failed")
  /\ UNCHANGED <<rows, vectors, objects, upserted>> /\ Quiet

\* The job function raised: arq drops the job, or queues it again.
JobRaises(d) ==
  /\ Goto(d, "idle")
  /\ \/ UNCHANGED queue
     \/ /\ RetryOnError
        /\ queue' = [queue EXCEPT ![WorkerQueue] = @ \cup {d}]
  /\ UNCHANGED <<doc, rows, vectors, objects, crashes, upserted, tries>>

PublishFailed(d) ==
  /\ At(d, "publish_failed")
  /\ JobRaises(d)
  /\ UNCHANGED faults

\* An awaited call raises.  Inside the try block the except clause runs; a
\* failure of the load, of the first publish or of the except clause's own
\* calls goes straight to arq.  A call that took effect and then raised is the
\* call followed by this action.
CallRaises(d) ==
  /\ SpendFault
  /\ \/ /\ wpc[d] \in TryPc
        /\ Goto(d, "set_failed")
        /\ UNCHANGED <<doc, rows, vectors, objects, queue, crashes,
                       upserted, tries>>
     \/ wpc[d] \in OutsidePc /\ JobRaises(d)

\* job_timeout cancels the coroutine: `except Exception` does not see
\* CancelledError, so the document keeps the status it had.
Timeout(d) ==
  /\ wpc[d] # "idle"
  /\ SpendFault
  /\ JobRaises(d)

\* The worker process dies or is shut down: the job is delivered again.
Crash(d) ==
  /\ wpc[d] # "idle"
  /\ crashes < MaxCrashes /\ crashes' = crashes + 1
  /\ queue' = [queue EXCEPT ![WorkerQueue] = @ \cup {d}]
  /\ Goto(d, "idle")
  /\ UNCHANGED <<doc, rows, vectors, objects, faults, upserted, tries>>

JobStep(d) ==
  \/ SkipJob(d) \/ LoadAndSetParsing(d) \/ PublishParsing(d)
  \/ DownloadAndParse(d) \/ PutMarkdown(d) \/ SetChunking(d)
  \/ PublishAndChunk(d) \/ SetEmbedding(d) \/ DeleteVectors(d)
  \/ UpsertBatch(d) \/ InsertRowsAndIndex(d) \/ InsertRowsConflict(d)
  \/ PublishIndexed(d) \/ SetFailed(d) \/ PublishFailed(d)

WorkerNext ==
  \E d \in DocId :
    Pick(d) \/ GiveUp(d) \/ JobStep(d) \/ CallRaises(d) \/ Timeout(d) \/ Crash(d)
=============================================================================
