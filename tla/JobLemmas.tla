------------------------------ MODULE JobLemmas ------------------------------
(***************************************************************************)
(* Lemmas about the job process_document that the proofs of every module   *)
(* it runs in cite: what its steps keep, and the status that goes with     *)
(* each place in it.                                                       *)
(***************************************************************************)
EXTENDS ProcessDocument, TLAPS

\* A document has a natural number of chunks.
LEMMA SizeType == ASSUME NEW d \in DocId PROVE Size(d) \in Nat
  BY ChunksAssumption DEF Size, DocId

LEMMA UpsertToType ==
  ASSUME NEW d \in DocId, upserted[d] \in Nat
  PROVE  UpsertTo(d) \in Nat /\ UpsertTo(d) <= Size(d)
  BY SizeType, WorkerAssumption DEF UpsertTo

LEMMA SetStatusType ==
  ASSUME doc \in [DocId -> Row], NEW d \in DocId, NEW st \in Status,
         NEW err \in BOOLEAN, NEW n \in Nat, NEW md \in BOOLEAN,
         SetStatus(d, st, err, n, md)
  PROVE  doc' \in [DocId -> Row]
  BY DEF SetStatus, Row

LEMMA SetStatusEffect ==
  ASSUME doc \in [DocId -> Row], NEW d \in DocId, NEW st, NEW err, NEW n, NEW md,
         SetStatus(d, st, err, n, md)
  PROVE  /\ doc'[d].status = st
         /\ doc'[d].n_chunks = (IF n = 0 THEN doc[d].n_chunks ELSE n)
         /\ doc'[d].markdown_key = (doc[d].markdown_key \/ md)
         /\ doc'[d].indexed_at = (doc[d].indexed_at \/ st = "indexed")
  BY DEF SetStatus

-----------------------------------------------------------------------------
JobAction(d) ==
  Pick(d) \/ GiveUp(d) \/ JobStep(d) \/ CallRaises(d) \/ Timeout(d) \/ Crash(d)

\* A job's step keeps the types of what it writes.
LEMMA JobType ==
  ASSUME StoreTypeOK, WorkerTypeOK, NEW d \in DocId, JobAction(d)
  PROVE  StoreTypeOK' /\ WorkerTypeOK'
<1> USE DEF At, Goto, Quiet
<1>0. StoreTypeOK /\ WorkerTypeOK
  OBVIOUS
<1>1. ASSUME NEW pc \in TryPc \cup OutsidePc \cup {"idle"},
             Goto(d, pc), UNCHANGED <<upserted, tries>>
      PROVE  WorkerTypeOK'
  BY <1>0, <1>1 DEF WorkerTypeOK
<1>2. ASSUME UNCHANGED <<doc, rows, vectors, objects, queue, faults, crashes>>
      PROVE  StoreTypeOK'
  BY <1>0, <1>2 DEF StoreTypeOK
<1>3. ASSUME doc' \in [DocId -> Row],
             UNCHANGED <<rows, vectors, objects, queue, faults, crashes>>
      PROVE  StoreTypeOK'
  BY <1>0, <1>3 DEF StoreTypeOK
<1>4. ASSUME NEW st \in Status, NEW err \in BOOLEAN, NEW n \in Nat,
             NEW md \in BOOLEAN, SetStatus(d, st, err, n, md)
      PROVE  doc' \in [DocId -> Row]
  BY <1>0, <1>4, SetStatusType DEF StoreTypeOK
<1>5. ASSUME JobRaises(d), faults' \in 0 .. MaxFaults
      PROVE  StoreTypeOK' /\ WorkerTypeOK'
  <2>1. WorkerTypeOK' BY <1>1, <1>5 DEF JobRaises
  <2>2. queue' \in [QueueNames -> SUBSET DocId]
    BY <1>0, <1>5 DEF JobRaises, StoreTypeOK
  <2>3. StoreTypeOK' BY <1>0, <1>5, <2>2 DEF JobRaises, StoreTypeOK
  <2>4. QED BY <2>1, <2>3
<1>6. SpendFault => faults' \in 0 .. MaxFaults
  BY <1>0, BoundAssumption DEF SpendFault, StoreTypeOK
<1>10. CASE Pick(d)
  <2>1. queue' \in [QueueNames -> SUBSET DocId]
    BY <1>0, <1>10 DEF Pick, StoreTypeOK
  <2>2. StoreTypeOK' BY <1>0, <1>10, <2>1 DEF Pick, StoreTypeOK
  <2>3. tries' \in [DocId -> 0 .. MaxTries]
    BY <1>0, <1>10, BoundAssumption DEF Pick, WorkerTypeOK
  <2>4. WorkerTypeOK' BY <1>0, <1>10, <2>3 DEF Pick, WorkerTypeOK, OutsidePc
  <2>5. QED BY <2>2, <2>4
<1>11. CASE GiveUp(d)
  <2>1. queue' \in [QueueNames -> SUBSET DocId]
    BY <1>0, <1>11 DEF GiveUp, StoreTypeOK
  <2>2. StoreTypeOK' BY <1>0, <1>11, <2>1 DEF GiveUp, StoreTypeOK
  <2>3. WorkerTypeOK' BY <1>0, <1>11 DEF GiveUp, WorkerTypeOK, workerVars
  <2>4. QED BY <2>2, <2>3
<1>12. CASE SkipJob(d) BY <1>1, <1>2, <1>12 DEF SkipJob
<1>13. CASE LoadAndSetParsing(d)
  BY <1>1, <1>3, <1>4, <1>13 DEF LoadAndSetParsing, Status, OutsidePc
<1>14. CASE PublishParsing(d) BY <1>1, <1>2, <1>14 DEF PublishParsing, TryPc
<1>15. CASE DownloadAndParse(d)
  BY <1>1, <1>2, <1>15 DEF DownloadAndParse, TryPc, OutsidePc
<1>16. CASE PutMarkdown(d)
  <2>1. <<d, "parsed.md">> \in DocId \X {"raw", "parsed.md"} OBVIOUS
  <2>2. objects' \in SUBSET (DocId \X {"raw", "parsed.md"})
    BY <1>0, <1>16, <2>1 DEF PutMarkdown, StoreTypeOK
  <2>3. StoreTypeOK' BY <1>0, <1>16, <2>2 DEF PutMarkdown, StoreTypeOK
  <2>4. QED BY <1>1, <1>16, <2>3 DEF PutMarkdown, TryPc
<1>17. CASE SetChunking(d)
  BY <1>1, <1>3, <1>4, <1>17 DEF SetChunking, Status, TryPc
<1>18. CASE PublishAndChunk(d)
  BY <1>1, <1>2, <1>18 DEF PublishAndChunk, TryPc, OutsidePc
<1>19. CASE SetEmbedding(d)
  BY <1>1, <1>3, <1>4, <1>19 DEF SetEmbedding, Status, TryPc
<1>20. CASE DeleteVectors(d)
  <2>1. StoreTypeOK' BY <1>0, <1>20 DEF DeleteVectors, StoreTypeOK
  <2>2. QED BY <1>1, <1>20, <2>1 DEF DeleteVectors, TryPc
<1>21. CASE UpsertBatch(d)
  <2>1. UpsertTo(d) \in Nat /\ upserted[d] \in Nat /\ tries[d] \in Nat
    BY <1>0, UpsertToType DEF WorkerTypeOK
  <2>2. ((upserted[d] + 1) .. UpsertTo(d)) \X {tries[d]} \in SUBSET (Nat \X Nat)
    BY <2>1
  <2>3. vectors' \in [DocId -> SUBSET (Nat \X Nat)]
    BY <1>0, <1>21, <2>2 DEF UpsertBatch, StoreTypeOK
  <2>4. StoreTypeOK' BY <1>0, <1>21, <2>3 DEF UpsertBatch, StoreTypeOK
  <2>5. WorkerTypeOK' BY <1>0, <1>21, <2>1 DEF UpsertBatch, WorkerTypeOK, TryPc
  <2>6. QED BY <2>4, <2>5
<1>22. CASE InsertRowsAndIndex(d)
  <2>1. Points(tries[d], Size(d)) \in SUBSET (Nat \X Nat)
    BY <1>0, SizeType DEF Points, WorkerTypeOK
  <2>2. rows' \in [DocId -> SUBSET (Nat \X Nat)]
    BY <1>0, <1>22, <2>1 DEF InsertRowsAndIndex, StoreTypeOK
  <2>3. doc' \in [DocId -> Row]
    BY <1>4, <1>22, SizeType DEF InsertRowsAndIndex, Status
  <2>4. StoreTypeOK' BY <1>0, <1>22, <2>2, <2>3 DEF InsertRowsAndIndex, StoreTypeOK
  <2>5. QED BY <1>1, <1>22, <2>4 DEF InsertRowsAndIndex, TryPc
<1>23. CASE InsertRowsConflict(d)
  BY <1>1, <1>2, <1>23 DEF InsertRowsConflict, OutsidePc
<1>24. CASE PublishIndexed(d) BY <1>1, <1>2, <1>24 DEF PublishIndexed
<1>25. CASE SetFailed(d)
  BY <1>1, <1>3, <1>4, <1>25 DEF SetFailed, Status, OutsidePc
<1>26. CASE PublishFailed(d)
  BY <1>0, <1>5, <1>26 DEF PublishFailed, StoreTypeOK
<1>27. CASE CallRaises(d)
  <2>1. CASE JobRaises(d) BY <1>5, <1>6, <1>27, <2>1 DEF CallRaises
  <2>2. CASE wpc[d] \in TryPc /\ ~JobRaises(d)
    <3>1. StoreTypeOK'
      BY <1>0, <1>6, <1>27, <2>2 DEF CallRaises, StoreTypeOK
    <3>2. QED BY <1>1, <1>27, <2>2, <3>1 DEF CallRaises, OutsidePc
  <2>3. QED BY <1>27, <2>1, <2>2 DEF CallRaises
<1>28. CASE Timeout(d) BY <1>5, <1>6, <1>28 DEF Timeout
<1>29. CASE Crash(d)
  <2>1. crashes' \in 0 .. MaxCrashes
    BY <1>0, <1>29, BoundAssumption DEF Crash, StoreTypeOK
  <2>2. queue' \in [QueueNames -> SUBSET DocId]
    BY <1>0, <1>29 DEF Crash, StoreTypeOK
  <2>3. StoreTypeOK' BY <1>0, <1>29, <2>1, <2>2 DEF Crash, StoreTypeOK
  <2>4. QED BY <1>1, <1>29, <2>3 DEF Crash
<1>30. QED
  BY <1>10, <1>11, <1>12, <1>13, <1>14, <1>15, <1>16, <1>17, <1>18, <1>19,
     <1>20, <1>21, <1>22, <1>23, <1>24, <1>25, <1>26, <1>27, <1>28, <1>29
  DEF JobAction, JobStep

\* What no step of document d's job touches.
JobFrame(d) ==
  /\ \A e \in DocId \ {d} :
       /\ doc'[e] = doc[e] /\ rows'[e] = rows[e] /\ vectors'[e] = vectors[e]
       /\ wpc'[e] = wpc[e] /\ upserted'[e] = upserted[e] /\ tries'[e] = tries[e]
  /\ objects \subseteq objects'
  /\ \A q \in QueueNames : queue'[q] \subseteq queue[q] \cup {d}

LEMMA JobFrames ==
  ASSUME StoreTypeOK, WorkerTypeOK, NEW d \in DocId, JobAction(d)
  PROVE  JobFrame(d)
<1> USE DEF At, Goto, Quiet, JobFrame
<1>0. /\ doc \in [DocId -> Row] /\ rows \in [DocId -> SUBSET (Nat \X Nat)]
      /\ vectors \in [DocId -> SUBSET (Nat \X Nat)]
      /\ queue \in [QueueNames -> SUBSET DocId]
      /\ wpc \in [DocId -> TryPc \cup OutsidePc \cup {"idle"}]
      /\ upserted \in [DocId -> Nat] /\ tries \in [DocId -> 0 .. MaxTries]
  BY DEF StoreTypeOK, WorkerTypeOK
<1>1. CASE JobRaises(d) BY <1>0, <1>1 DEF JobRaises
<1>10. CASE Pick(d) BY <1>0, <1>10 DEF Pick
<1>11. CASE GiveUp(d) BY <1>0, <1>11 DEF GiveUp, workerVars
<1>12. CASE SkipJob(d) BY <1>0, <1>12 DEF SkipJob
<1>13. CASE LoadAndSetParsing(d) BY <1>0, <1>13 DEF LoadAndSetParsing, SetStatus
<1>14. CASE PublishParsing(d) BY <1>0, <1>14 DEF PublishParsing
<1>15. CASE DownloadAndParse(d) BY <1>0, <1>15 DEF DownloadAndParse
<1>16. CASE PutMarkdown(d) BY <1>0, <1>16 DEF PutMarkdown
<1>17. CASE SetChunking(d) BY <1>0, <1>17 DEF SetChunking, SetStatus
<1>18. CASE PublishAndChunk(d) BY <1>0, <1>18 DEF PublishAndChunk
<1>19. CASE SetEmbedding(d) BY <1>0, <1>19 DEF SetEmbedding, SetStatus
<1>20. CASE DeleteVectors(d) BY <1>0, <1>20 DEF DeleteVectors
<1>21. CASE UpsertBatch(d) BY <1>0, <1>21 DEF UpsertBatch
<1>22. CASE InsertRowsAndIndex(d)
  BY <1>0, <1>22 DEF InsertRowsAndIndex, SetStatus
<1>23. CASE InsertRowsConflict(d) BY <1>0, <1>23 DEF InsertRowsConflict
<1>24. CASE PublishIndexed(d) BY <1>0, <1>24 DEF PublishIndexed
<1>25. CASE SetFailed(d) BY <1>0, <1>25 DEF SetFailed, SetStatus
<1>26. CASE PublishFailed(d) BY <1>1, <1>26 DEF PublishFailed
<1>27. CASE CallRaises(d) BY <1>0, <1>1, <1>27 DEF CallRaises
<1>28. CASE Timeout(d) BY <1>1, <1>28 DEF Timeout
<1>29. CASE Crash(d) BY <1>0, <1>29 DEF Crash
<1>30. QED
  BY <1>10, <1>11, <1>12, <1>13, <1>14, <1>15, <1>16, <1>17, <1>18, <1>19,
     <1>20, <1>21, <1>22, <1>23, <1>24, <1>25, <1>26, <1>27, <1>28, <1>29
  DEF JobAction, JobStep

-----------------------------------------------------------------------------
\* The status of a document at each place of its run.  At load it may have any.
StatusAt(d) ==
  /\ wpc[d] \in {"publish_parsing", "download", "put_markdown", "set_chunking"}
       => doc[d].status = "parsing"
  /\ wpc[d] \in {"chunk", "set_embedding"} => doc[d].status = "chunking"
  /\ wpc[d] \in {"delete_vectors", "upsert", "insert_rows"}
       => doc[d].status = "embedding"
  /\ wpc[d] = "publish_indexed" => doc[d].status = "indexed"
  /\ wpc[d] = "set_failed"
       => doc[d].status \in {"parsing", "chunking", "embedding", "indexed"}
  /\ wpc[d] = "publish_failed" => doc[d].status = "failed"

\* A step of a document's run moves to the place that its new status goes with.
LEMMA JobStatus ==
  ASSUME StoreTypeOK, WorkerTypeOK, NEW d \in DocId, StatusAt(d), JobAction(d)
  PROVE  StatusAt(d)'
<1> USE DEF At, Goto, Quiet
<1>0. /\ doc \in [DocId -> Row]
      /\ wpc \in [DocId -> TryPc \cup OutsidePc \cup {"idle"}]
  BY DEF StoreTypeOK, WorkerTypeOK
<1>1. CASE wpc'[d] \in {"idle", "load"}
  BY <1>1 DEF StatusAt
<1>2. CASE wpc'[d] = wpc[d] /\ doc' = doc
  BY <1>2 DEF StatusAt
<1>3. CASE wpc[d] \in TryPc /\ wpc'[d] = "set_failed" /\ doc' = doc
  BY <1>3 DEF StatusAt, TryPc
<1>10. CASE Pick(d) BY <1>0, <1>1, <1>10 DEF Pick
<1>11. CASE GiveUp(d) BY <1>2, <1>11 DEF GiveUp, workerVars
<1>12. CASE SkipJob(d) BY <1>0, <1>1, <1>12 DEF SkipJob
<1>13. CASE LoadAndSetParsing(d)
  <2>1. wpc'[d] = "publish_parsing" /\ doc'[d].status = "parsing"
    BY <1>0, <1>13, SetStatusEffect DEF LoadAndSetParsing
  <2>2. QED BY <2>1 DEF StatusAt
<1>14. CASE PublishParsing(d)
  BY <1>0, <1>14 DEF PublishParsing, StatusAt
<1>15. CASE DownloadAndParse(d)
  BY <1>0, <1>15 DEF DownloadAndParse, StatusAt
<1>16. CASE PutMarkdown(d)
  BY <1>0, <1>16 DEF PutMarkdown, StatusAt
<1>17. CASE SetChunking(d)
  <2>1. wpc'[d] = "chunk" /\ doc'[d].status = "chunking"
    BY <1>0, <1>17, SetStatusEffect DEF SetChunking
  <2>2. QED BY <2>1 DEF StatusAt
<1>18. CASE PublishAndChunk(d)
  BY <1>0, <1>18 DEF PublishAndChunk, StatusAt
<1>19. CASE SetEmbedding(d)
  <2>1. wpc'[d] = "delete_vectors" /\ doc'[d].status = "embedding"
    BY <1>0, <1>19, SetStatusEffect DEF SetEmbedding
  <2>2. QED BY <2>1 DEF StatusAt
<1>20. CASE DeleteVectors(d)
  BY <1>0, <1>20 DEF DeleteVectors, StatusAt
<1>21. CASE UpsertBatch(d)
  BY <1>0, <1>21 DEF UpsertBatch, StatusAt
<1>22. CASE InsertRowsAndIndex(d)
  <2>1. wpc'[d] = "publish_indexed" /\ doc'[d].status = "indexed"
    BY <1>0, <1>22, SetStatusEffect DEF InsertRowsAndIndex
  <2>2. QED BY <2>1 DEF StatusAt
<1>23. CASE InsertRowsConflict(d)
  BY <1>0, <1>3, <1>23 DEF InsertRowsConflict, TryPc
<1>24. CASE PublishIndexed(d) BY <1>0, <1>1, <1>24 DEF PublishIndexed
<1>25. CASE SetFailed(d)
  <2>1. wpc'[d] = "publish_failed" /\ doc'[d].status = "failed"
    BY <1>0, <1>25, SetStatusEffect DEF SetFailed
  <2>2. QED BY <2>1 DEF StatusAt
<1>26. CASE PublishFailed(d) BY <1>0, <1>1, <1>26 DEF PublishFailed, JobRaises
<1>27. CASE CallRaises(d)
  BY <1>0, <1>1, <1>3, <1>27 DEF CallRaises, JobRaises
<1>28. CASE Timeout(d) BY <1>0, <1>1, <1>28 DEF Timeout, JobRaises
<1>29. CASE Crash(d) BY <1>0, <1>1, <1>29 DEF Crash
<1>30. QED
  BY <1>10, <1>11, <1>12, <1>13, <1>14, <1>15, <1>16, <1>17, <1>18, <1>19,
     <1>20, <1>21, <1>22, <1>23, <1>24, <1>25, <1>26, <1>27, <1>28, <1>29
  DEF JobAction, JobStep

\* The status of another document stays with the place of its run.
LEMMA OtherStatus ==
  ASSUME NEW d \in DocId, JobFrame(d), NEW e \in DocId \ {d}, StatusAt(e)
  PROVE  StatusAt(e)'
  BY DEF JobFrame, StatusAt
=============================================================================
