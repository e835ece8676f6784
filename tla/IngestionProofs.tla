--------------------------- MODULE IngestionProofs ---------------------------
(***************************************************************************)
(* Proofs about Ingestion, for every set of requests and contents, every   *)
(* chunking, queue naming, batch size and bound.                           *)
(***************************************************************************)
EXTENDS Ingestion, JobLemmas

(***************************************************************************)
(* The inductive invariant.  UploadInv ties each open transaction to the   *)
(* committed rows and the stored objects; RunInv ties the place where a    *)
(* run stands to the status, the points and the rows of its document.      *)
(***************************************************************************)
\* A request that is about to put or insert has a new, valid file at hand.
AtHand ==
  \A r \in Requests : rpc[r] \in {"put", "insert"} =>
    todo[r] # <<>> /\ Head(todo[r]) \in Contents

RawStored ==
  /\ \A r \in Requests : rpc[r] = "insert" =>
       <<<<r, Head(todo[r])>>, "raw">> \in objects
  /\ \A r \in Requests : \A c \in fresh[r] : <<<<r, c>>, "raw">> \in objects
  /\ \A d \in DocId : HasRow(d) => <<d, "raw">> \in objects

\* What a transaction has inserted is nobody else's, committed or not.
FreshHeld ==
  /\ \A r \in Requests : \A c \in fresh[r] :
       /\ rpc[r] \in InTransaction \cup {"enqueue"}
       /\ rpc[r] \in InTransaction => ~Committed(c)
       /\ rpc[r] = "enqueue" => HasRow(<<r, c>>)
  /\ \A r, s \in Requests :
       r # s /\ rpc[r] \in InTransaction /\ rpc[s] \in InTransaction
         => fresh[r] \cap fresh[s] = {}

OneRowPerContent ==
  \A d, e \in DocId : HasRow(d) /\ HasRow(e) /\ d[2] = e[2] => d = e

JobNeedsRow ==
  \A d \in DocId : (Running(d) \/ \E q \in QueueNames : d \in queue[q]) => HasRow(d)

UploadInv == AtHand /\ RawStored /\ FreshHeld /\ OneRowPerContent /\ JobNeedsRow

PointsAt(d) ==
  /\ wpc[d] # "idle" => tries[d] >= 1
  /\ wpc[d] \in {"set_embedding", "delete_vectors", "upsert", "insert_rows"}
       => Size(d) > 0
  /\ wpc[d] \in {"load", "publish_parsing", "download", "put_markdown",
                  "set_chunking", "chunk", "set_embedding", "delete_vectors"}
       => upserted[d] = 0
  /\ wpc[d] = "upsert" =>
       upserted[d] <= Size(d) /\ vectors[d] = Points(tries[d], upserted[d])
  /\ wpc[d] = "insert_rows" => vectors[d] = Points(tries[d], Size(d))

RowsWhole(d) ==
  rows[d] # {} => \E v \in 1 .. MaxTries : rows[d] = Points(v, Size(d))

OneGeneration(d) == \A p, q \in vectors[d] : p[2] = q[2]

Consistent(d) ==
  doc[d].status = "indexed" =>
    /\ Size(d) > 0 /\ doc[d].n_chunks = Size(d) /\ doc[d].indexed_at
    /\ vectors[d] = rows[d]
    /\ rows[d] # {}

Markdown(d) ==
  /\ wpc[d] = "set_chunking" => <<d, "parsed.md">> \in objects
  /\ doc[d].status \in {"chunking", "embedding", "indexed"} =>
       doc[d].markdown_key /\ <<d, "parsed.md">> \in objects

RunInv(d) ==
  StatusAt(d) /\ PointsAt(d) /\ RowsWhole(d) /\ OneGeneration(d)
    /\ Consistent(d) /\ Markdown(d)

IInv == TypeOK /\ UploadInv /\ \A d \in DocId : RunInv(d)

LEMMA StoreTypeStutter == StoreTypeOK /\ UNCHANGED storeVars => StoreTypeOK'
  BY DEF StoreTypeOK, storeVars

LEMMA RequestType ==
  ASSUME TypeOK, AtHand, NEW r \in Requests,
         Reject(r) \/ Start(r) \/ RequestStep(r) \/ RequestFails(r)
  PROVE  StoreTypeOK' /\ UploadTypeOK'
<1> USE DEF UploadTypeOK, RequestPc, InTransaction
<1>0. StoreTypeOK /\ UploadTypeOK
  BY DEF TypeOK
<1>1. CASE Reject(r)
  <2>1. UploadTypeOK' BY <1>0, <1>1 DEF Reject
  <2>2. QED BY <1>0, <1>1, <2>1, StoreTypeStutter DEF Reject
<1>2. CASE Start(r)
  <2>1. UploadTypeOK' BY <1>0, <1>2, FilesAssumption DEF Start
  <2>2. QED BY <1>0, <1>2, <2>1, StoreTypeStutter DEF Start
<1>3. CASE RefuseFile(r)
  <2>1. UploadTypeOK' BY <1>0, <1>3 DEF RefuseFile, EndInError
  <2>2. QED BY <1>0, <1>3, <2>1, StoreTypeStutter DEF RefuseFile
<1>4. CASE Dedupe(r)
  <2>1. Tail(todo[r]) \in Seq(Contents \cup {BadFile})
    BY <1>0, <1>4 DEF Dedupe
  <2>2. out' \in [Requests -> SUBSET DocId]
    BY <1>0, <1>4 DEF Dedupe, Visible
  <2>3. UploadTypeOK' BY <1>0, <1>4, <2>1, <2>2 DEF Dedupe
  <2>4. QED BY <1>0, <1>4, <2>3, StoreTypeStutter DEF Dedupe
<1>5. CASE NewFile(r)
  <2>1. UploadTypeOK' BY <1>0, <1>5 DEF NewFile
  <2>2. QED BY <1>0, <1>5, <2>1, StoreTypeStutter DEF NewFile
<1>6. CASE PutRaw(r)
  <2>1. <<r, Head(todo[r])>> \in DocId
    BY <1>6 DEF PutRaw, AtHand, DocId
  <2>2. UploadTypeOK' BY <1>0, <1>6 DEF PutRaw
  <2>3. objects' \in SUBSET (DocId \X {"raw", "parsed.md"})
    <3>1. objects' = objects \cup {<<<<r, Head(todo[r])>>, "raw">>}
      BY <1>6 DEF PutRaw
    <3>2. <<<<r, Head(todo[r])>>, "raw">> \in DocId \X {"raw", "parsed.md"}
      BY <2>1
    <3>3. QED BY <1>0, <3>1, <3>2 DEF StoreTypeOK
  <2>4. StoreTypeOK' BY <1>0, <1>6, <2>3 DEF PutRaw, StoreTypeOK
  <2>5. QED BY <2>2, <2>4
<1>7. CASE Insert(r)
  <2>1. <<r, Head(todo[r])>> \in DocId /\ Head(todo[r]) \in Contents
    BY <1>7 DEF Insert, AtHand, DocId
  <2>2. Tail(todo[r]) \in Seq(Contents \cup {BadFile})
    BY <1>0, <1>7 DEF Insert, AtHand
  <2>3. UploadTypeOK' BY <1>0, <1>7, <2>1, <2>2 DEF Insert
  <2>4. QED BY <1>0, <1>7, <2>3, StoreTypeStutter DEF Insert
<1>8. CASE InsertConflict(r)
  <2>1. UploadTypeOK' BY <1>0, <1>8 DEF InsertConflict, EndInError
  <2>2. QED BY <1>0, <1>8, <2>1, StoreTypeStutter DEF InsertConflict
<1>9. CASE DeadlockVictim(r)
  <2>1. EndInError(r) /\ UNCHANGED storeVars
    BY <1>9 DEF DeadlockVictim
  <2>2. UploadTypeOK' BY <1>0, <2>1 DEF EndInError
  <2>3. QED BY <1>0, <2>1, <2>2, StoreTypeStutter
<1>10. CASE Commit(r)
  <2>1. UploadTypeOK' BY <1>0, <1>10 DEF Commit
  <2>2. doc' \in [DocId -> Row]
    BY <1>0, <1>10 DEF Commit, StoreTypeOK, NewRow, NoRow, Row, Status
  <2>3. QED BY <1>0, <1>10, <2>1, <2>2 DEF Commit, StoreTypeOK
<1>11. CASE Enqueue(r)
  <2>1. PICK c \in fresh[r] :
          /\ queue' = [queue EXCEPT ![ApiQueue] = @ \cup {<<r, c>>}]
          /\ fresh' = [fresh EXCEPT ![r] = @ \ {c}]
    BY <1>11 DEF Enqueue
  <2>2. <<r, c>> \in DocId BY <1>0 DEF DocId
  <2>3. queue' \in [QueueNames -> SUBSET DocId]
    BY <1>0, <2>1, <2>2 DEF StoreTypeOK
  <2>4. StoreTypeOK' BY <1>0, <1>11, <2>3 DEF StoreTypeOK, Enqueue
  <2>5. UploadTypeOK' BY <1>0, <1>11, <2>1 DEF Enqueue
  <2>6. QED BY <2>4, <2>5
<1>12. CASE Respond(r)
  <2>1. UploadTypeOK' BY <1>0, <1>12 DEF Respond
  <2>2. QED BY <1>0, <1>12, <2>1, StoreTypeStutter DEF Respond
<1>13. CASE RequestFails(r)
  <2>1. UploadTypeOK' BY <1>0, <1>13 DEF RequestFails, EndInError
  <2>2. faults' \in 0 .. MaxFaults
    BY <1>0, <1>13, BoundAssumption DEF RequestFails, SpendFault, StoreTypeOK
  <2>3. QED BY <1>0, <1>13, <2>1, <2>2 DEF RequestFails, StoreTypeOK
<1>14. QED
  BY <1>1, <1>2, <1>3, <1>4, <1>5, <1>6, <1>7, <1>8, <1>9, <1>10, <1>11,
     <1>12, <1>13 DEF RequestStep

-----------------------------------------------------------------------------
LEMMA InitIInv == Init => IInv
<1> SUFFICES ASSUME Init PROVE IInv
  OBVIOUS
<1> USE DEF Init, StoreInit, UploadInit, WorkerInit
<1>1. TypeOK
  BY BoundAssumption DEF TypeOK, StoreTypeOK, UploadTypeOK, WorkerTypeOK, NoRow,
     Row, Status, RequestPc, InTransaction
<1>2. UploadInv
  BY QueueAssumption DEF UploadInv, AtHand, RawStored, FreshHeld, OneRowPerContent,
     JobNeedsRow, Running, At, HasRow, NoRow, InTransaction
<1>3. ASSUME NEW d \in DocId PROVE RunInv(d)
  BY DEF RunInv, StatusAt, PointsAt, RowsWhole, OneGeneration, Consistent,
     Markdown, NoRow
<1>4. QED BY <1>1, <1>2, <1>3 DEF IInv

-----------------------------------------------------------------------------
\* A run that ends, or turns to the except clause, keeps the invariant: it
\* leaves the document as it found it.
LEMMA RunEnds ==
  ASSUME NEW d \in DocId, RunInv(d),
         doc'[d] = doc[d], rows'[d] = rows[d], vectors'[d] = vectors[d],
         tries'[d] = tries[d], objects \subseteq objects',
         \/ wpc'[d] = "idle"
         \/ wpc[d] \in TryPc /\ wpc'[d] = "set_failed"
  PROVE  RunInv(d)'
  BY DEF TryPc, RunInv, StatusAt, PointsAt, RowsWhole, OneGeneration, Consistent,
     Markdown, Size

\* The invariant of a document other than the one whose job steps.
LEMMA OtherDocument ==
  ASSUME NEW d \in DocId, NEW e \in DocId, d # e, JobFrame(d), RunInv(e)
  PROVE  RunInv(e)'
  BY DEF JobFrame, RunInv, StatusAt, PointsAt, RowsWhole, OneGeneration,
     Consistent, Markdown, Size

LEMMA JobRunInv ==
  ASSUME IInv, NEW d \in DocId, JobAction(d)
  PROVE  RunInv(d)'
<1> USE DEF At, Goto, Quiet
<1>0. /\ doc \in [DocId -> Row] /\ rows \in [DocId -> SUBSET (Nat \X Nat)]
      /\ vectors \in [DocId -> SUBSET (Nat \X Nat)]
      /\ wpc \in [DocId -> TryPc \cup OutsidePc \cup {"idle"}]
      /\ upserted \in [DocId -> Nat] /\ tries \in [DocId -> 0 .. MaxTries]
      /\ Size(d) \in Nat
  BY SizeType DEF IInv, TypeOK, StoreTypeOK, WorkerTypeOK
<1>1. RunInv(d)
  BY DEF IInv
<1>2. StatusAt(d) /\ PointsAt(d) /\ RowsWhole(d) /\ OneGeneration(d)
        /\ Consistent(d) /\ Markdown(d)
  BY <1>1 DEF RunInv
<1>3. CASE JobRaises(d) /\ wpc[d] # "idle"
  BY <1>0, <1>1, <1>3, RunEnds DEF JobRaises
<1>10. CASE Pick(d)
  <2>1. /\ wpc'[d] = "load" /\ upserted'[d] = 0 /\ tries'[d] = tries[d] + 1
        /\ UNCHANGED <<doc, rows, vectors, objects>>
    BY <1>0, <1>10 DEF Pick
  <2>2. QED
    BY <1>0, <1>2, <2>1 DEF RunInv, StatusAt, PointsAt, RowsWhole, OneGeneration,
       Consistent, Markdown
<1>11. CASE GiveUp(d)
  BY <1>0, <1>1, <1>11, RunEnds DEF GiveUp, workerVars
<1>12. CASE SkipJob(d)
  BY <1>0, <1>1, <1>12, RunEnds DEF SkipJob
<1>13. CASE LoadAndSetParsing(d)
  <2>1. /\ wpc[d] = "load" /\ wpc'[d] = "publish_parsing"
        /\ UNCHANGED <<rows, vectors, objects, upserted, tries>>
    BY <1>0, <1>13 DEF LoadAndSetParsing
  <2>2. doc'[d].status = "parsing"
    BY <1>0, <1>13, SetStatusEffect DEF LoadAndSetParsing
  <2>3. QED
    BY <1>2, <2>1, <2>2 DEF RunInv, StatusAt, PointsAt, RowsWhole, OneGeneration,
       Consistent, Markdown, Size
<1>14. CASE PublishParsing(d)
  <2>1. /\ wpc[d] = "publish_parsing" /\ wpc'[d] = "download"
        /\ UNCHANGED <<doc, rows, vectors, objects, upserted, tries>>
    BY <1>0, <1>14 DEF PublishParsing
  <2>2. QED
    BY <1>2, <2>1 DEF RunInv, StatusAt, PointsAt, RowsWhole, OneGeneration,
       Consistent, Markdown, Size
<1>15. CASE DownloadAndParse(d)
  <2>1. /\ wpc[d] = "download" /\ wpc'[d] \in {"put_markdown", "set_failed"}
        /\ UNCHANGED <<doc, rows, vectors, objects, upserted, tries>>
    BY <1>0, <1>15 DEF DownloadAndParse
  <2>2. QED
    BY <1>2, <2>1 DEF RunInv, StatusAt, PointsAt, RowsWhole, OneGeneration,
       Consistent, Markdown, Size
<1>16. CASE PutMarkdown(d)
  <2>1. /\ wpc[d] = "put_markdown" /\ wpc'[d] = "set_chunking"
        /\ objects' = objects \cup {<<d, "parsed.md">>}
        /\ UNCHANGED <<doc, rows, vectors, upserted, tries>>
    BY <1>0, <1>16 DEF PutMarkdown
  <2>2. QED
    BY <1>2, <2>1 DEF RunInv, StatusAt, PointsAt, RowsWhole, OneGeneration,
       Consistent, Markdown, Size
<1>17. CASE SetChunking(d)
  <2>1. /\ wpc[d] = "set_chunking" /\ wpc'[d] = "chunk"
        /\ UNCHANGED <<rows, vectors, objects, upserted, tries>>
    BY <1>0, <1>17 DEF SetChunking
  <2>2. doc'[d].status = "chunking" /\ doc'[d].markdown_key
    BY <1>0, <1>17, SetStatusEffect DEF SetChunking
  <2>3. QED
    BY <1>2, <2>1, <2>2 DEF RunInv, StatusAt, PointsAt, RowsWhole, OneGeneration,
       Consistent, Markdown, Size
<1>18. CASE PublishAndChunk(d)
  <2>1. /\ wpc[d] = "chunk"
        /\ \/ wpc'[d] = "set_failed"
           \/ wpc'[d] = "set_embedding" /\ Size(d) # 0
        /\ UNCHANGED <<doc, rows, vectors, objects, upserted, tries>>
    BY <1>0, <1>18 DEF PublishAndChunk
  <2>2. Size(d)' = Size(d) BY DEF Size
  <2>3. QED
    BY <1>0, <1>2, <2>1, <2>2 DEF RunInv, StatusAt, PointsAt, RowsWhole,
       OneGeneration, Consistent, Markdown
<1>19. CASE SetEmbedding(d)
  <2>1. /\ wpc[d] = "set_embedding" /\ wpc'[d] = "delete_vectors"
        /\ UNCHANGED <<rows, vectors, objects, upserted, tries>>
    BY <1>0, <1>19 DEF SetEmbedding
  <2>2. doc'[d].status = "embedding" /\ doc'[d].markdown_key = doc[d].markdown_key
    BY <1>0, <1>19, SetStatusEffect DEF SetEmbedding, Row
  <2>3. QED
    BY <1>2, <2>1, <2>2 DEF RunInv, StatusAt, PointsAt, RowsWhole, OneGeneration,
       Consistent, Markdown, Size
<1>20. CASE DeleteVectors(d)
  <2>1. /\ wpc[d] = "delete_vectors" /\ wpc'[d] = "upsert" /\ vectors'[d] = {}
        /\ UNCHANGED <<doc, rows, objects, upserted, tries>>
    BY <1>0, <1>20 DEF DeleteVectors
  <2>2. Points(tries[d], 0) = {} BY DEF Points
  <2>3. Size(d)' = Size(d) BY DEF Size
  <2>4. QED
    BY <1>0, <1>2, <2>1, <2>2, <2>3 DEF RunInv, StatusAt, PointsAt, RowsWhole,
       OneGeneration, Consistent, Markdown, Points
<1>21. CASE UpsertBatch(d)
  <2> DEFINE to == UpsertTo(d)
  <2>1. to \in Nat /\ to <= Size(d) /\ upserted[d] <= Size(d) /\ upserted[d] <= to
    BY <1>0, <1>2, <1>21, WorkerAssumption DEF UpsertTo, UpsertBatch, PointsAt
  <2>2. /\ wpc[d] = "upsert" /\ upserted'[d] = to
        /\ wpc'[d] = (IF to = Size(d) THEN "insert_rows" ELSE "upsert")
        /\ vectors'[d] = vectors[d] \cup ((upserted[d] + 1) .. to) \X {tries[d]}
        /\ UNCHANGED <<doc, rows, objects, tries>>
    BY <1>0, <1>21 DEF UpsertBatch
  <2>3. vectors'[d] = Points(tries[d], to)
    <3>1. vectors[d] = (1 .. upserted[d]) \X {tries[d]}
      BY <1>2, <2>2 DEF PointsAt, Points
    <3>2. 1 .. to = (1 .. upserted[d]) \cup ((upserted[d] + 1) .. to)
      BY <1>0, <2>1
    <3>3. QED BY <2>2, <3>1, <3>2 DEF Points
  <2>4. Size(d)' = Size(d) BY DEF Size
  <2>5. PointsAt(d)'
    BY <1>0, <1>2, <2>1, <2>2, <2>3, <2>4 DEF PointsAt, Points
  <2>6. OneGeneration(d)'
    BY <2>3 DEF OneGeneration, Points
  <2>7. StatusAt(d)' /\ RowsWhole(d)' /\ Consistent(d)' /\ Markdown(d)'
    BY <1>2, <2>2, <2>4 DEF StatusAt, RowsWhole, Consistent, Markdown, Points
  <2>8. QED BY <2>5, <2>6, <2>7 DEF RunInv
<1>22. CASE InsertRowsAndIndex(d)
  <2>1. /\ wpc[d] = "insert_rows" /\ wpc'[d] = "publish_indexed"
        /\ rows'[d] = Points(tries[d], Size(d))
        /\ UNCHANGED <<vectors, objects, upserted, tries>>
    BY <1>0, <1>22 DEF InsertRowsAndIndex
  <2>2. Size(d) > 0 /\ vectors[d] = Points(tries[d], Size(d)) /\ tries[d] \in 1 .. MaxTries
    BY <1>0, <1>2, <2>1 DEF PointsAt
  <2>3. /\ doc'[d].status = "indexed" /\ doc'[d].n_chunks = Size(d)
        /\ doc'[d].indexed_at /\ doc'[d].markdown_key = doc[d].markdown_key
    <3>1. SetStatus(d, "indexed", FALSE, Size(d), FALSE)
      BY <1>22 DEF InsertRowsAndIndex
    <3>2. /\ doc'[d].status = "indexed"
          /\ doc'[d].n_chunks = (IF Size(d) = 0 THEN doc[d].n_chunks ELSE Size(d))
          /\ doc'[d].markdown_key = (doc[d].markdown_key \/ FALSE)
          /\ doc'[d].indexed_at = (doc[d].indexed_at \/ "indexed" = "indexed")
      BY <1>0, <3>1, SetStatusEffect, Zenon
    <3>3. doc[d].markdown_key \in BOOLEAN
      BY <1>0 DEF Row
    <3>4. doc'[d].indexed_at
      BY <3>2, Zenon
    <3>5. doc'[d].markdown_key = doc[d].markdown_key
      BY <3>2, <3>3, Zenon
    <3>6. doc'[d].n_chunks = Size(d)
      BY <1>0, <2>2, <3>2
    <3>7. QED BY <3>2, <3>4, <3>5, <3>6, Zenon
  <2>4. <<1, tries[d]>> \in Points(tries[d], Size(d))
    BY <1>0, <2>2 DEF Points
  <2>5. Size(d)' = Size(d) BY DEF Size
  <2>6. Consistent(d)' BY <2>1, <2>2, <2>3, <2>4, <2>5 DEF Consistent
  <2>7. RowsWhole(d)' BY <2>1, <2>2, <2>5 DEF RowsWhole, Points
  <2>8. StatusAt(d)' /\ PointsAt(d)' /\ OneGeneration(d)' /\ Markdown(d)'
    BY <1>2, <2>1, <2>3, <2>5 DEF StatusAt, PointsAt, OneGeneration, Markdown
  <2>9. QED BY <2>6, <2>7, <2>8 DEF RunInv
<1>23. CASE InsertRowsConflict(d)
  BY <1>0, <1>1, <1>23, RunEnds DEF InsertRowsConflict, TryPc
<1>24. CASE PublishIndexed(d)
  BY <1>0, <1>1, <1>24, RunEnds DEF PublishIndexed
<1>25. CASE SetFailed(d)
  <2>1. /\ wpc[d] = "set_failed" /\ wpc'[d] = "publish_failed"
        /\ UNCHANGED <<rows, vectors, objects, upserted, tries>>
    BY <1>0, <1>25 DEF SetFailed
  <2>2. doc'[d].status = "failed"
    BY <1>0, <1>25, SetStatusEffect DEF SetFailed
  <2>3. QED
    BY <1>2, <2>1, <2>2 DEF RunInv, StatusAt, PointsAt, RowsWhole, OneGeneration,
       Consistent, Markdown, Size
<1>26. CASE PublishFailed(d) BY <1>3, <1>26 DEF PublishFailed
<1>27. CASE CallRaises(d)
  BY <1>0, <1>1, <1>3, <1>27, RunEnds DEF CallRaises, TryPc, OutsidePc
<1>28. CASE Timeout(d) BY <1>3, <1>28 DEF Timeout
<1>29. CASE Crash(d) BY <1>0, <1>1, <1>29, RunEnds DEF Crash
<1>30. QED
  BY <1>10, <1>11, <1>12, <1>13, <1>14, <1>15, <1>16, <1>17, <1>18, <1>19,
     <1>20, <1>21, <1>22, <1>23, <1>24, <1>25, <1>26, <1>27, <1>28, <1>29
  DEF JobAction, JobStep

\* A job neither creates nor removes a row: it runs for a committed document
\* and writes only statuses of its own.
LEMMA JobKeepsRows ==
  ASSUME IInv, NEW d \in DocId, JobAction(d)
  PROVE  /\ HasRow(d)
         /\ \A e \in DocId : HasRow(e)' <=> HasRow(e)
<1> USE DEF At, Goto, Quiet
<1>0. doc \in [DocId -> Row]
  BY DEF IInv, TypeOK, StoreTypeOK
<1>1. HasRow(d)
  <2>1. wpc[d] # "idle" \/ d \in queue[WorkerQueue]
    BY DEF JobAction, JobStep, Pick, GiveUp, SkipJob, LoadAndSetParsing,
       PublishParsing, DownloadAndParse, PutMarkdown, SetChunking,
       PublishAndChunk, SetEmbedding, DeleteVectors, UpsertBatch,
       InsertRowsAndIndex, InsertRowsConflict, PublishIndexed, SetFailed,
       PublishFailed, CallRaises, Timeout, Crash, TryPc, OutsidePc
  <2>2. QED BY <2>1, QueueAssumption DEF IInv, UploadInv, JobNeedsRow, Running
<1>2. doc' = doc \/ doc'[d].status # "absent"
  <2>1. ASSUME NEW st \in Status \ {"absent"}, NEW err, NEW n, NEW md,
               SetStatus(d, st, err, n, md)
        PROVE  doc'[d].status # "absent"
    BY <1>0, <2>1 DEF SetStatus
  <2>2. CASE SetStatus(d, "parsing", FALSE, 0, FALSE) BY <2>1, <2>2 DEF Status
  <2>3. CASE SetStatus(d, "chunking", FALSE, 0, TRUE) BY <2>1, <2>3 DEF Status
  <2>4. CASE SetStatus(d, "embedding", FALSE, 0, FALSE) BY <2>1, <2>4 DEF Status
  <2>5. CASE SetStatus(d, "indexed", FALSE, Size(d), FALSE)
    BY <2>1, <2>5 DEF Status
  <2>6. CASE SetStatus(d, "failed", TRUE, 0, FALSE) BY <2>1, <2>6 DEF Status
  <2>7. QED
    BY <2>2, <2>3, <2>4, <2>5, <2>6
    DEF JobAction, JobStep, Pick, GiveUp, SkipJob, LoadAndSetParsing,
        PublishParsing, DownloadAndParse, PutMarkdown, SetChunking,
        PublishAndChunk, SetEmbedding, DeleteVectors, UpsertBatch,
        InsertRowsAndIndex, InsertRowsConflict, PublishIndexed, SetFailed,
        PublishFailed, CallRaises, Timeout, Crash, JobRaises
<1>3. JobFrame(d)
  BY JobFrames DEF IInv, TypeOK
<1>4. QED BY <1>1, <1>2, <1>3 DEF JobFrame, HasRow

LEMMA JobUploadInv ==
  ASSUME IInv, NEW d \in DocId, JobAction(d), UNCHANGED uploadVars
  PROVE  UploadInv'
<1>1. /\ rpc' = rpc /\ todo' = todo /\ fresh' = fresh
      /\ HasRow(d)
      /\ \A e \in DocId : HasRow(e)' <=> HasRow(e)
      /\ objects \subseteq objects'
      /\ \A q \in QueueNames : queue'[q] \subseteq queue[q] \cup {d}
      /\ \A e \in DocId \ {d} : wpc'[e] = wpc[e]
  BY JobKeepsRows, JobFrames DEF IInv, TypeOK, JobFrame, uploadVars
<1>2. AtHand /\ RawStored /\ FreshHeld /\ OneRowPerContent /\ JobNeedsRow
  BY DEF IInv, UploadInv
<1>3. AtHand'
  BY <1>1, <1>2 DEF AtHand
<1>4. RawStored'
  BY <1>1, <1>2 DEF RawStored
<1>5. FreshHeld'
  <2>1. \A c \in Contents : Committed(c)' <=> Committed(c)
    BY <1>1 DEF Committed
  <2>2. \A r \in Requests : fresh[r] \subseteq Contents
    BY DEF IInv, TypeOK, UploadTypeOK
  <2>3. \A r \in Requests : \A c \in fresh[r] : HasRow(<<r, c>>)' <=> HasRow(<<r, c>>)
    BY <1>1, <2>2 DEF DocId
  <2>4. QED BY <1>1, <1>2, <2>1, <2>2, <2>3 DEF FreshHeld
<1>6. OneRowPerContent'
  BY <1>1, <1>2 DEF OneRowPerContent
<1>7. JobNeedsRow'
  BY <1>1, <1>2 DEF JobNeedsRow, Running, At
<1>8. QED BY <1>3, <1>4, <1>5, <1>6, <1>7 DEF UploadInv

-----------------------------------------------------------------------------
RequestAction(r) ==
  Reject(r) \/ Start(r) \/ RequestStep(r) \/ RequestFails(r)

\* A request that gives up leaves everything else as it was.
LEMMA RequestEnds ==
  ASSUME IInv, NEW r \in Requests, EndInError(r),
         UNCHANGED <<doc, objects, queue, wpc>>
  PROVE  UploadInv'
<1>1. /\ rpc'[r] = "error" /\ fresh'[r] = {}
      /\ \A s \in Requests \ {r} :
           rpc'[s] = rpc[s] /\ todo'[s] = todo[s] /\ fresh'[s] = fresh[s]
  BY DEF IInv, TypeOK, UploadTypeOK, EndInError
<1>2. AtHand /\ RawStored /\ FreshHeld /\ OneRowPerContent /\ JobNeedsRow
  BY DEF IInv, UploadInv
<1>3. AtHand' BY <1>1, <1>2 DEF AtHand
<1>4. RawStored' BY <1>1, <1>2 DEF RawStored, HasRow
<1>5. FreshHeld' BY <1>1, <1>2 DEF FreshHeld, Committed, HasRow, InTransaction
<1>6. OneRowPerContent' /\ JobNeedsRow'
  BY <1>2 DEF OneRowPerContent, JobNeedsRow, HasRow, Running, At
<1>7. QED BY <1>3, <1>4, <1>5, <1>6 DEF UploadInv

\* Only the COMMIT touches documents, and it turns absent rows into new ones.
LEMMA RequestFrame ==
  ASSUME IInv, NEW r \in Requests, RequestAction(r)
  PROVE  /\ UNCHANGED <<rows, vectors>>
         /\ objects \subseteq objects'
         /\ \A d \in DocId : doc'[d] = doc[d] \/ (~HasRow(d) /\ doc'[d] = NewRow)
<1>1. CASE Commit(r)
  <2>1. \A d \in DocId : (d[1] = r /\ d[2] \in fresh[r]) => ~HasRow(d)
    BY <1>1 DEF IInv, UploadInv, FreshHeld, Committed, Commit, InTransaction, DocId
  <2>2. QED BY <1>1, <2>1 DEF Commit
<1>2. CASE ~Commit(r)
  BY <1>2 DEF RequestAction, RequestStep, Reject, Start, RefuseFile, Dedupe,
     NewFile, PutRaw, Insert, InsertConflict, DeadlockVictim, Enqueue, Respond,
     RequestFails, storeVars
<1>3. QED BY <1>1, <1>2

LEMMA RequestRunInv ==
  ASSUME IInv, NEW r \in Requests, RequestAction(r), UNCHANGED workerVars,
         NEW d \in DocId
  PROVE  RunInv(d)'
<1>1. RunInv(d)
  BY DEF IInv
<1>2. /\ rows'[d] = rows[d] /\ vectors'[d] = vectors[d] /\ objects \subseteq objects'
      /\ wpc'[d] = wpc[d] /\ tries'[d] = tries[d] /\ upserted'[d] = upserted[d]
      /\ Size(d)' = Size(d)
  BY RequestFrame DEF workerVars, Size
<1>3. CASE doc'[d] = doc[d]
  BY <1>1, <1>2, <1>3 DEF RunInv, StatusAt, PointsAt, RowsWhole, OneGeneration,
     Consistent, Markdown
<1>4. CASE ~HasRow(d) /\ doc'[d] = NewRow
  <2>1. wpc[d] = "idle"
    BY <1>4 DEF IInv, UploadInv, JobNeedsRow, Running, At
  <2>2. doc'[d].status = "pending"
    BY <1>4 DEF NewRow, NoRow
  <2>3. QED
    BY <1>1, <1>2, <2>1, <2>2 DEF RunInv, StatusAt, PointsAt, RowsWhole,
       OneGeneration, Consistent, Markdown
<1>5. QED BY <1>3, <1>4, RequestFrame

LEMMA RequestUploadInv ==
  ASSUME IInv, NEW r \in Requests, RequestAction(r), UNCHANGED workerVars
  PROVE  UploadInv'
<1> USE DEF InTransaction
<1>0. /\ rpc \in [Requests -> RequestPc]
      /\ todo \in [Requests -> Seq(Contents \cup {BadFile})]
      /\ fresh \in [Requests -> SUBSET Contents]
  BY DEF IInv, TypeOK, UploadTypeOK
<1>1. AtHand /\ RawStored /\ FreshHeld /\ OneRowPerContent /\ JobNeedsRow
  BY DEF IInv, UploadInv
<1>2. ASSUME UNCHANGED <<doc, queue>> PROVE OneRowPerContent' /\ JobNeedsRow'
  BY <1>1, <1>2 DEF OneRowPerContent, JobNeedsRow, HasRow, Running, At, workerVars
<1>3. CASE EndInError(r) /\ UNCHANGED <<doc, objects, queue>>
  BY <1>3, RequestEnds DEF workerVars
<1>10. CASE Reject(r)
  <2>1. /\ rpc[r] = "new" /\ rpc' = [rpc EXCEPT ![r] = "rejected"]
        /\ UNCHANGED <<doc, objects, queue, todo, fresh>>
    BY <1>10 DEF Reject, storeVars
  <2>2. AtHand' BY <1>0, <1>1, <2>1 DEF AtHand
  <2>3. RawStored' BY <1>0, <1>1, <2>1 DEF RawStored, HasRow
  <2>4. FreshHeld' BY <1>0, <1>1, <2>1 DEF FreshHeld, Committed, HasRow
  <2>5. QED BY <1>2, <2>1, <2>2, <2>3, <2>4 DEF UploadInv
<1>11. CASE Start(r)
  <2>1. /\ rpc[r] = "new" /\ rpc' = [rpc EXCEPT ![r] = "check"]
        /\ \A s \in Requests \ {r} : todo'[s] = todo[s]
        /\ UNCHANGED <<doc, objects, queue, fresh>>
    BY <1>0, <1>11 DEF Start, storeVars
  <2>2. AtHand' BY <1>0, <1>1, <2>1 DEF AtHand
  <2>3. RawStored' BY <1>0, <1>1, <2>1 DEF RawStored, HasRow
  <2>4. fresh[r] = {} BY <1>0, <1>1, <2>1 DEF FreshHeld
  <2>5. FreshHeld' BY <1>0, <1>1, <2>1, <2>4 DEF FreshHeld, Committed, HasRow
  <2>6. QED BY <1>2, <2>1, <2>2, <2>3, <2>5 DEF UploadInv
<1>12. CASE RefuseFile(r) BY <1>3, <1>12 DEF RefuseFile, storeVars
<1>13. CASE Dedupe(r)
  <2>1. /\ rpc[r] = "check"
        /\ \A s \in Requests \ {r} : todo'[s] = todo[s]
        /\ UNCHANGED <<doc, objects, queue, rpc, fresh>>
    BY <1>0, <1>13 DEF Dedupe, storeVars
  <2>2. AtHand' BY <1>0, <1>1, <2>1 DEF AtHand
  <2>3. RawStored' BY <1>0, <1>1, <2>1 DEF RawStored, HasRow
  <2>4. FreshHeld' BY <1>1, <2>1 DEF FreshHeld, Committed, HasRow
  <2>5. QED BY <1>2, <2>1, <2>2, <2>3, <2>4 DEF UploadInv
<1>14. CASE NewFile(r)
  <2>1. /\ rpc[r] = "check" /\ rpc' = [rpc EXCEPT ![r] = "put"]
        /\ UNCHANGED <<doc, objects, queue, todo, fresh>>
    BY <1>14 DEF NewFile, storeVars
  <2>2. todo[r] # <<>> /\ Head(todo[r]) \in Contents
    BY <1>0, <1>14 DEF NewFile
  <2>3. AtHand' BY <1>0, <1>1, <2>1, <2>2 DEF AtHand
  <2>4. RawStored' BY <1>0, <1>1, <2>1 DEF RawStored, HasRow
  <2>5. FreshHeld' BY <1>0, <1>1, <2>1 DEF FreshHeld, Committed, HasRow
  <2>6. QED BY <1>2, <2>1, <2>3, <2>4, <2>5 DEF UploadInv
<1>15. CASE PutRaw(r)
  <2>1. /\ rpc[r] = "put" /\ rpc' = [rpc EXCEPT ![r] = "insert"]
        /\ objects' = objects \cup {<<<<r, Head(todo[r])>>, "raw">>}
        /\ UNCHANGED <<doc, queue, todo, fresh>>
    BY <1>15 DEF PutRaw
  <2>2. AtHand' BY <1>0, <1>1, <2>1 DEF AtHand
  <2>3. RawStored' BY <1>0, <1>1, <2>1 DEF RawStored, HasRow
  <2>4. FreshHeld' BY <1>0, <1>1, <2>1 DEF FreshHeld, Committed, HasRow
  <2>5. QED BY <1>2, <2>1, <2>2, <2>3, <2>4 DEF UploadInv
<1>16. CASE Insert(r)
  <2> DEFINE c == Head(todo[r])
  <2>1. /\ rpc[r] = "insert" /\ rpc' = [rpc EXCEPT ![r] = "check"]
        /\ fresh' = [fresh EXCEPT ![r] = @ \cup {c}]
        /\ \A s \in Requests \ {r} : todo'[s] = todo[s]
        /\ ~Committed(c)
        /\ UNCHANGED <<doc, objects, queue>>
    BY <1>0, <1>16 DEF Insert, storeVars
  <2>2. \A s \in Requests : (s # r /\ rpc[s] \in InTransaction) => c \notin fresh[s]
    BY <1>16 DEF Insert, WaitsFor
  <2>3. AtHand' BY <1>0, <1>1, <2>1 DEF AtHand
  <2>4. RawStored' BY <1>0, <1>1, <2>1 DEF RawStored, HasRow
  <2>5. FreshHeld' BY <1>0, <1>1, <2>1, <2>2 DEF FreshHeld, Committed, HasRow
  <2>6. QED BY <1>2, <2>1, <2>3, <2>4, <2>5 DEF UploadInv
<1>17. CASE InsertConflict(r) BY <1>3, <1>17 DEF InsertConflict, storeVars
<1>18. CASE DeadlockVictim(r) BY <1>3, <1>18 DEF DeadlockVictim, storeVars
<1>19. CASE Commit(r)
  <2>1. /\ rpc[r] = "check" /\ rpc' = [rpc EXCEPT ![r] = "enqueue"]
        /\ UNCHANGED <<objects, queue, todo, fresh, wpc>>
    BY <1>19 DEF Commit, workerVars
  <2>2. \A d \in DocId : HasRow(d)' <=> (HasRow(d) \/ (d[1] = r /\ d[2] \in fresh[r]))
    BY <1>19 DEF Commit, HasRow, NewRow, NoRow
  <2>3. \A d \in DocId : d = <<d[1], d[2]>> /\ d[1] \in Requests /\ d[2] \in Contents
    BY DEF DocId
  <2>4. \A c \in fresh[r] : ~Committed(c)
    BY <1>1, <2>1 DEF FreshHeld
  <2>5. AtHand' BY <1>0, <1>1, <2>1 DEF AtHand
  <2>6. RawStored' BY <1>0, <1>1, <2>1, <2>2, <2>3 DEF RawStored
  <2>7. FreshHeld'
    <3>1. ASSUME NEW s \in Requests, NEW c \in fresh[s], s # r,
                 rpc[s] \in InTransaction
          PROVE  ~Committed(c)'
      <4>1. ~Committed(c) /\ c \notin fresh[r]
        BY <1>1, <2>1, <3>1 DEF FreshHeld
      <4>2. QED BY <2>2, <4>1 DEF Committed
    <3>2. \A c \in fresh[r] : HasRow(<<r, c>>)'
      BY <1>0, <2>2 DEF DocId
    <3>3. ASSUME NEW s \in Requests, NEW c \in fresh[s], HasRow(<<s, c>>)
          PROVE  HasRow(<<s, c>>)'
      BY <1>0, <2>2, <3>3 DEF DocId
    <3>4. QED BY <1>0, <1>1, <2>1, <3>1, <3>2, <3>3 DEF FreshHeld
  <2>8. OneRowPerContent'
    BY <1>1, <2>2, <2>3, <2>4 DEF OneRowPerContent, Committed
  <2>9. JobNeedsRow'
    BY <1>1, <2>1, <2>2 DEF JobNeedsRow, Running, At
  <2>10. QED BY <2>5, <2>6, <2>7, <2>8, <2>9 DEF UploadInv
<1>20. CASE Enqueue(r)
  <2>1. PICK c \in fresh[r] :
          /\ queue' = [queue EXCEPT ![ApiQueue] = @ \cup {<<r, c>>}]
          /\ fresh' = [fresh EXCEPT ![r] = @ \ {c}]
    BY <1>20 DEF Enqueue
  <2>2. rpc[r] = "enqueue" /\ UNCHANGED <<doc, objects, rpc, todo, wpc>>
    BY <1>20 DEF Enqueue, workerVars
  <2>3. AtHand' BY <1>1, <2>2 DEF AtHand
  <2>4. RawStored' BY <1>0, <1>1, <2>1, <2>2 DEF RawStored, HasRow
  <2>5. FreshHeld' BY <1>0, <1>1, <2>1, <2>2 DEF FreshHeld, Committed, HasRow
  <2>6. OneRowPerContent' BY <1>1, <2>2 DEF OneRowPerContent, HasRow
  <2>7. JobNeedsRow'
    <3>1. HasRow(<<r, c>>) BY <1>1, <2>1, <2>2 DEF FreshHeld
    <3>2. queue \in [QueueNames -> SUBSET DocId]
      BY DEF IInv, TypeOK, StoreTypeOK
    <3>3. \A q \in QueueNames : queue'[q] \subseteq queue[q] \cup {<<r, c>>}
      BY <2>1, <3>2
    <3>4. QED BY <1>1, <2>2, <3>1, <3>3 DEF JobNeedsRow, Running, At, HasRow
  <2>8. QED BY <2>3, <2>4, <2>5, <2>6, <2>7 DEF UploadInv
<1>21. CASE Respond(r)
  <2>1. /\ fresh[r] = {} /\ rpc' = [rpc EXCEPT ![r] = "accepted"]
        /\ UNCHANGED <<doc, objects, queue, todo, fresh>>
    BY <1>21 DEF Respond, storeVars
  <2>2. AtHand' BY <1>0, <1>1, <2>1 DEF AtHand
  <2>3. RawStored' BY <1>0, <1>1, <2>1 DEF RawStored, HasRow
  <2>4. FreshHeld' BY <1>0, <1>1, <2>1 DEF FreshHeld, Committed, HasRow
  <2>5. QED BY <1>2, <2>1, <2>2, <2>3, <2>4 DEF UploadInv
<1>22. CASE RequestFails(r) BY <1>3, <1>22 DEF RequestFails
<1>23. QED
  BY <1>10, <1>11, <1>12, <1>13, <1>14, <1>15, <1>16, <1>17, <1>18, <1>19,
     <1>20, <1>21, <1>22 DEF RequestAction, RequestStep

-----------------------------------------------------------------------------
\* Every step of a request or of a job, and a stuttering step, keeps IInv.
LEMMA NextIInv == IInv /\ [Next]_vars => IInv'
<1> SUFFICES ASSUME IInv, [Next]_vars PROVE IInv'
  OBVIOUS
<1>1. CASE UNCHANGED vars
  <2>1. TypeOK' BY <1>1 DEF IInv, TypeOK, StoreTypeOK, UploadTypeOK, WorkerTypeOK,
          vars, storeVars, uploadVars, workerVars
  <2>2. UploadInv'
    BY <1>1 DEF IInv, UploadInv, AtHand, RawStored, FreshHeld, OneRowPerContent,
       JobNeedsRow, Committed, HasRow, Running, At, vars, storeVars, uploadVars,
       workerVars
  <2>3. ASSUME NEW d \in DocId PROVE RunInv(d)'
    BY <1>1 DEF IInv, RunInv, StatusAt, PointsAt, RowsWhole, OneGeneration,
       Consistent, Markdown, Size, vars, storeVars, workerVars
  <2>4. QED BY <2>1, <2>2, <2>3 DEF IInv
<1>2. ASSUME NEW r \in Requests, RequestAction(r), UNCHANGED workerVars
      PROVE  IInv'
  <2>1. WorkerTypeOK' BY <1>2 DEF IInv, TypeOK, WorkerTypeOK, workerVars
  <2>2. TypeOK'
    BY <1>2, <2>1, RequestType DEF IInv, UploadInv, TypeOK, RequestAction
  <2>3. UploadInv' BY <1>2, RequestUploadInv
  <2>4. ASSUME NEW d \in DocId PROVE RunInv(d)'
    BY <1>2, RequestRunInv
  <2>5. QED BY <2>2, <2>3, <2>4 DEF IInv
<1>3. ASSUME NEW d \in DocId, JobAction(d), UNCHANGED uploadVars
      PROVE  IInv'
  <2>1. UploadTypeOK' BY <1>3 DEF IInv, TypeOK, UploadTypeOK, uploadVars
  <2>2. TypeOK' BY <1>3, <2>1, JobType DEF IInv, TypeOK
  <2>3. UploadInv' BY <1>3, JobUploadInv
  <2>4. ASSUME NEW e \in DocId PROVE RunInv(e)'
    <3>1. CASE e = d BY <1>3, <3>1, JobRunInv
    <3>2. CASE e # d
      BY <1>3, <3>2, JobFrames, OtherDocument DEF IInv, TypeOK
    <3>3. QED BY <3>1, <3>2
  <2>5. QED BY <2>2, <2>3, <2>4 DEF IInv
<1>4. QED
  BY <1>1, <1>2, <1>3 DEF Next, UploadNext, WorkerNext, RequestAction, JobAction

\* The inductive invariant holds throughout every behaviour.
THEOREM InductiveInvariant == Spec => []IInv
BY InitIInv, NextIInv, PTL DEF Spec

\* Every value a variable takes has its type, in particular every status the
\* handlers and the job write is one that readers of documents.status know.
THEOREM TypeCorrect == Spec => []TypeOK
<1>1. IInv => TypeOK BY DEF IInv
<1>2. QED BY <1>1, InductiveInvariant, PTL

\* While a document is indexed, its Qdrant points, its chunk rows and its
\* n_chunks agree and are complete, whatever failed, timed out or crashed
\* before (ingestion.py:82-99).
THEOREM IndexedDocumentsAgree == Spec => []IndexedConsistent
<1>1. IInv => IndexedConsistent
  BY DEF IInv, RunInv, Consistent, RowsWhole, IndexedConsistent
<1>2. QED BY <1>1, InductiveInvariant, PTL

\* The collection never holds points of two attempts at one document: the
\* delete before the upserts is enough (ingestion.py:87-95), however many
\* batches a document takes and wherever earlier runs were cut off.
THEOREM OneGenerationOnly == Spec => []OneGenerationOfPoints
<1>1. IInv => OneGenerationOfPoints
  BY DEF IInv, RunInv, OneGeneration, OneGenerationOfPoints
<1>2. QED BY <1>1, InductiveInvariant, PTL

\* A queued or running job finds its row and its raw object, for any number of
\* requests racing with the same contents (files.py:119-145).
THEOREM JobsFindTheirDocument == Spec => []JobHasRow
<1>1. IInv => JobHasRow
  BY DEF IInv, UploadInv, JobNeedsRow, RawStored, JobHasRow
<1>2. QED BY <1>1, InductiveInvariant, PTL

\* The row of a document past parsing points at a markdown object that exists
\* (ingestion.py:66-75).
THEOREM MarkdownIsStored == Spec => []MarkdownBehindStatus
<1>1. IInv => MarkdownBehindStatus
  BY DEF IInv, RunInv, Markdown, MarkdownBehindStatus
<1>2. QED BY <1>1, InductiveInvariant, PTL

-----------------------------------------------------------------------------
(***************************************************************************)
(* What a 202 response promises, for every set of requests and file lists. *)
(* Promise(r) follows the documents a request collects from the duplicate  *)
(* check and the INSERT through the COMMIT to the last enqueue.            *)
(***************************************************************************)
Handed(d) == Running(d) \/ tries[d] > 0 \/ d \in queue[ApiQueue]

Promise(r) ==
  /\ rpc[r] = "new" => out[r] = {}
  /\ rpc[r] \in InTransaction \cup {"new"} =>
       \A d \in DocId : d[1] = r => ~HasRow(d)
  /\ rpc[r] \in InTransaction =>
       \A d \in out[r] : IF d[1] = r THEN d[2] \in fresh[r] ELSE HasRow(d)
  /\ rpc[r] = "enqueue" =>
       \A d \in out[r] : HasRow(d) /\ (d[1] = r => d[2] \in fresh[r] \/ Handed(d))
  /\ rpc[r] = "accepted" =>
       \A d \in out[r] : HasRow(d) /\ (d[1] = r => Handed(d))

PInv == IInv /\ \A r \in Requests : Promise(r)

LEMMA InitPromise == Init => \A r \in Requests : Promise(r)
  BY DEF Init, StoreInit, UploadInit, Promise, InTransaction, HasRow, NoRow

\* Rows are never removed and a document handed to arq stays so, so a request's
\* promise outlives the steps of others that create no row in its name.
LEMMA PromiseKept ==
  ASSUME PInv, NEW s \in Requests,
         rpc'[s] = rpc[s], fresh'[s] = fresh[s], out'[s] = out[s],
         \A d \in DocId : HasRow(d) => HasRow(d)',
         \A d \in DocId : d[1] = s /\ HasRow(d)' => HasRow(d),
         \A d \in DocId : Handed(d) => Handed(d)'
  PROVE  Promise(s)'
<1>1. Promise(s) /\ out[s] \subseteq DocId
  BY DEF PInv, IInv, TypeOK, UploadTypeOK
<1>2. QED BY <1>1 DEF Promise

LEMMA JobPromise ==
  ASSUME PInv, NEW d \in DocId, JobAction(d), UNCHANGED uploadVars,
         NEW s \in Requests
  PROVE  Promise(s)'
<1> USE DEF At, Goto, Quiet
<1>0. /\ queue \in [QueueNames -> SUBSET DocId] /\ tries \in [DocId -> 0 .. MaxTries]
      /\ wpc \in [DocId -> TryPc \cup OutsidePc \cup {"idle"}]
      /\ PointsAt(d)
  BY DEF PInv, IInv, TypeOK, StoreTypeOK, WorkerTypeOK, RunInv
<1>1. \A e \in DocId : HasRow(e)' <=> HasRow(e)
  BY JobKeepsRows DEF PInv
<1>2. ASSUME NEW e \in DocId, Handed(e) PROVE Handed(e)'
  <2>1. CASE Pick(d)
    <3>1. tries' = [tries EXCEPT ![d] = @ + 1]
          /\ queue' = [queue EXCEPT ![WorkerQueue] = @ \ {d}]
          /\ wpc' = [wpc EXCEPT ![d] = "load"]
      BY <2>1 DEF Pick
    <3>2. CASE e = d BY <1>0, <3>1, <3>2 DEF Handed
    <3>3. CASE e # d BY <1>0, <1>2, <3>1, <3>3, QueueAssumption DEF Handed, Running
    <3>4. QED BY <3>2, <3>3
  <2>2. CASE GiveUp(d)
    <3>1. tries' = tries /\ wpc' = wpc /\ tries[d] = MaxTries
          /\ queue' = [queue EXCEPT ![WorkerQueue] = @ \ {d}]
      BY <2>2 DEF GiveUp, workerVars
    <3>2. QED BY <1>0, <1>2, <3>1, QueueAssumption, BoundAssumption DEF Handed, Running
  <2>3. CASE ~Pick(d) /\ ~GiveUp(d)
    <3>1. wpc[d] # "idle"
      BY <2>3 DEF JobAction, JobStep, SkipJob, LoadAndSetParsing,
         PublishParsing, DownloadAndParse, PutMarkdown, SetChunking,
         PublishAndChunk, SetEmbedding, DeleteVectors, UpsertBatch,
         InsertRowsAndIndex, InsertRowsConflict, PublishIndexed, SetFailed,
         PublishFailed, CallRaises, Timeout, Crash, TryPc, OutsidePc
    <3>2. tries' = tries
          /\ \A q \in QueueNames : queue[q] \subseteq queue'[q]
      BY <1>0, <2>3 DEF JobAction, JobStep, SkipJob, LoadAndSetParsing,
         PublishParsing, DownloadAndParse, PutMarkdown, SetChunking,
         PublishAndChunk, SetEmbedding, DeleteVectors, UpsertBatch,
         InsertRowsAndIndex, InsertRowsConflict, PublishIndexed, SetFailed,
         PublishFailed, CallRaises, Timeout, Crash, JobRaises
    <3>3. tries[d] > 0 BY <1>0, <3>1 DEF PointsAt
    <3>4. CASE e = d BY <3>2, <3>3, <3>4 DEF Handed
    <3>5. CASE e # d
      <4>1. wpc'[e] = wpc[e] BY <3>5, JobFrames DEF JobFrame, PInv, IInv, TypeOK
      <4>2. QED BY <1>2, <3>2, <4>1, QueueAssumption DEF Handed, Running
    <3>6. QED BY <3>4, <3>5
  <2>4. QED BY <2>1, <2>2, <2>3
<1>3. QED BY <1>1, <1>2, PromiseKept DEF uploadVars

LEMMA RequestPromise ==
  ASSUME PInv, NEW r \in Requests, RequestAction(r), UNCHANGED workerVars,
         NEW s \in Requests
  PROVE  Promise(s)'
<1> USE DEF InTransaction
<1>0. /\ rpc \in [Requests -> RequestPc] /\ fresh \in [Requests -> SUBSET Contents]
      /\ out \in [Requests -> SUBSET DocId]
      /\ queue \in [QueueNames -> SUBSET DocId]
  BY DEF PInv, IInv, TypeOK, StoreTypeOK, UploadTypeOK
<1>1. Promise(r) /\ Promise(s) /\ FreshHeld
  BY DEF PInv, IInv, UploadInv
<1>2. \A d \in DocId : HasRow(d) => HasRow(d)'
  BY RequestFrame DEF PInv, HasRow, NewRow, NoRow
<1>3. \A d \in DocId : Handed(d) => Handed(d)'
  <2>1. \A d \in DocId : d \in queue[ApiQueue] => d \in queue'[ApiQueue]
    BY <1>0, QueueAssumption DEF RequestAction, RequestStep, Reject, Start,
       RefuseFile, Dedupe, NewFile, PutRaw, Insert, InsertConflict, DeadlockVictim,
       Commit, Enqueue, Respond, RequestFails, storeVars
  <2>2. QED BY <2>1 DEF Handed, Running, At, workerVars
<1>4. CASE s # r
  <2>1. rpc'[s] = rpc[s] /\ fresh'[s] = fresh[s] /\ out'[s] = out[s]
    BY <1>0, <1>4 DEF RequestAction, RequestStep, Reject, Start, RefuseFile, Dedupe,
       NewFile, PutRaw, Insert, InsertConflict, DeadlockVictim, Commit, Enqueue,
       Respond, RequestFails, EndInError
  <2>2. \A d \in DocId : d[1] = s /\ HasRow(d)' => HasRow(d)
    BY <1>4 DEF RequestAction, RequestStep, Reject, Start, RefuseFile, Dedupe,
       NewFile, PutRaw, Insert, InsertConflict, DeadlockVictim, Commit, Enqueue,
       Respond, RequestFails, HasRow, storeVars
  <2>3. QED BY <1>2, <1>3, <2>1, <2>2, PromiseKept
<1>5. CASE EndInError(r) /\ s = r
  BY <1>0, <1>5 DEF EndInError, Promise
<1>6. ASSUME s = r PROVE Promise(r)'
  <2>1. CASE Reject(r)
    BY <1>0, <1>1, <2>1 DEF Reject, Promise
  <2>2. CASE Start(r)
    BY <1>0, <1>1, <2>2 DEF Start, Promise, HasRow, storeVars
  <2>3. CASE Dedupe(r)
    <3>1. PICK d \in Visible(r, Head(todo[r])) : out' = [out EXCEPT ![r] = @ \cup {d}]
      BY <2>3 DEF Dedupe
    <3>2. d \in DocId /\ (HasRow(d) \/ (d[1] = r /\ d[2] \in fresh[r]))
      BY <3>1 DEF Visible
    <3>3. rpc[r] = "check" /\ rpc' = rpc /\ fresh' = fresh /\ doc' = doc
      BY <2>3 DEF Dedupe, storeVars
    <3>4. QED BY <1>0, <1>1, <3>1, <3>2, <3>3 DEF Promise, HasRow
  <2>4. CASE NewFile(r)
    BY <1>0, <1>1, <2>4 DEF NewFile, Promise, HasRow, storeVars
  <2>5. CASE PutRaw(r)
    BY <1>0, <1>1, <2>5 DEF PutRaw, Promise, HasRow
  <2>6. CASE Insert(r)
    BY <1>0, <1>1, <2>6 DEF Insert, Promise, HasRow, storeVars
  <2>7. CASE Commit(r)
    <3>1. /\ rpc[r] = "check" /\ rpc'[r] = "enqueue"
          /\ fresh' = fresh /\ out' = out
      BY <1>0, <2>7 DEF Commit
    <3>2. \A d \in DocId : (d[1] = r /\ d[2] \in fresh[r]) => HasRow(d)'
      BY <2>7 DEF Commit, HasRow, NewRow, NoRow
    <3>3. QED BY <1>0, <1>1, <1>2, <3>1, <3>2 DEF Promise
  <2>8. CASE Enqueue(r)
    <3>1. PICK c \in fresh[r] :
            /\ queue' = [queue EXCEPT ![ApiQueue] = @ \cup {<<r, c>>}]
            /\ fresh' = [fresh EXCEPT ![r] = @ \ {c}]
      BY <2>8 DEF Enqueue
    <3>2. rpc[r] = "enqueue" /\ rpc' = rpc /\ out' = out
      BY <2>8 DEF Enqueue
    <3>3. \A d \in DocId : (d[1] = r /\ d[2] = c) => d \in queue'[ApiQueue]
      BY <1>0, <3>1, QueueAssumption DEF DocId
    <3>4. ASSUME NEW d \in out[r], d[1] = r PROVE d[2] \in fresh'[r] \/ Handed(d)'
      BY <1>0, <1>1, <1>3, <3>1, <3>2, <3>3, <3>4 DEF Promise, Handed
    <3>5. QED BY <1>0, <1>1, <1>2, <3>2, <3>4 DEF Promise
  <2>9. CASE Respond(r)
    BY <1>0, <1>1, <1>2, <1>3, <2>9 DEF Respond, Promise
  <2>10. QED
    BY <1>5, <1>6, <2>1, <2>2, <2>3, <2>4, <2>5, <2>6, <2>7, <2>8, <2>9
    DEF RequestAction, RequestStep, RefuseFile, InsertConflict, DeadlockVictim,
        RequestFails
<1>7. QED BY <1>4, <1>6

LEMMA NextPromise == PInv /\ [Next]_vars => \A r \in Requests : Promise(r)'
<1> SUFFICES ASSUME PInv, [Next]_vars, NEW s \in Requests PROVE Promise(s)'
  OBVIOUS
<1>1. CASE UNCHANGED vars
  BY <1>1, PromiseKept DEF HasRow, Handed, Running, At, vars, storeVars, uploadVars,
     workerVars
<1>2. ASSUME NEW r \in Requests, RequestAction(r), UNCHANGED workerVars
      PROVE  Promise(s)'
  BY <1>2, RequestPromise
<1>3. ASSUME NEW d \in DocId, JobAction(d), UNCHANGED uploadVars
      PROVE  Promise(s)'
  BY <1>3, JobPromise
<1>4. QED
  BY <1>1, <1>2, <1>3 DEF Next, UploadNext, WorkerNext, RequestAction, JobAction

\* A 202 response names only committed documents, and each one this request
\* created was handed to arq (files.py:140-147): for any number of requests that
\* race with the same contents, fail between put and COMMIT, or deadlock.
THEOREM AcceptedUploadsAreDurable == Spec => []AcceptedIsDurable
<1>1. Init => PInv
  BY InitIInv, InitPromise DEF PInv
<1>2. PInv /\ [Next]_vars => PInv'
  BY NextIInv, NextPromise DEF PInv
<1>3. PInv => AcceptedIsDurable
  BY DEF PInv, Promise, Handed, AcceptedIsDurable
<1>4. QED BY <1>1, <1>2, <1>3, PTL DEF Spec

-----------------------------------------------------------------------------
(***************************************************************************)
(* Ingestion implements DocLifecycle: the initial states map to initial    *)
(* states, and under IInv every step maps to a step of the lifecycle or    *)
(* to a stutter.                                                           *)
(***************************************************************************)
LEMMA InitMaps == Init => Lifecycle!Init
  BY DEF Init, StoreInit, Lifecycle!Init, PhaseOf, HitsOf, NoRow

\* A step that changes neither the phase nor the text nor the hits of any
\* document is a stutter.
LEMMA Stutters ==
  ASSUME rows' = rows,
         \A d \in DocId : PhaseOf(d)' = PhaseOf(d) /\ HitsOf(d)' = HitsOf(d)
  PROVE  UNCHANGED Lifecycle!vars
<1>1. [d \in DocId |-> PhaseOf(d)]' = [d \in DocId |-> PhaseOf(d)]
  OBVIOUS
<1>2. [d \in DocId |-> HitsOf(d)]' = [d \in DocId |-> HitsOf(d)]
  OBVIOUS
<1>3. QED BY <1>1, <1>2 DEF Lifecycle!vars

\* A COMMIT is Create: its new rows are one per content, and no document holds
\* their contents yet.
LEMMA CommitMaps ==
  ASSUME IInv, NEW r \in Requests, Commit(r)
  PROVE  Lifecycle!Create
<1> DEFINE S == {d \in DocId : d[1] = r /\ d[2] \in fresh[r]}
<1>1. \A d \in DocId : d = <<d[1], d[2]>>
  BY DEF DocId
<1>2. \A c \in fresh[r] : ~Committed(c)
  BY DEF IInv, UploadInv, FreshHeld, Commit, InTransaction
<1>3. \A d \in DocId : PhaseOf(d) = "absent" <=> ~HasRow(d)
  BY DEF PhaseOf, HasRow
<1>4. S \in SUBSET DocId /\ \A d \in S : PhaseOf(d) = "absent"
  BY <1>2, <1>3 DEF Committed
<1>5. ASSUME NEW d \in S, NEW e \in DocId, d # e, d[2] = e[2]
      PROVE  PhaseOf(e) = "absent" /\ e \notin S
  BY <1>1, <1>2, <1>3, <1>5 DEF Committed
<1>6. ASSUME NEW d \in DocId
      PROVE  /\ PhaseOf(d)' = (IF d \in S THEN "pending" ELSE PhaseOf(d))
             /\ HitsOf(d)' = HitsOf(d)
  <2>1. doc'[d] = (IF d \in S THEN NewRow ELSE doc[d]) /\ vectors' = vectors
    BY DEF Commit
  <2>2. d \in S => doc[d].status = "absent"
    BY <1>3, <1>4 DEF HasRow
  <2>3. QED BY <2>1, <2>2 DEF PhaseOf, HitsOf, NewRow, NoRow
<1>7. rows' = rows
  BY DEF Commit
<1>8. [d \in DocId |-> PhaseOf(d)]'
        = [d \in DocId |-> IF d \in S THEN "pending" ELSE PhaseOf(d)]
  BY <1>6
<1>9. [d \in DocId |-> HitsOf(d)]' = [d \in DocId |-> HitsOf(d)]
  BY <1>6
<1>10. QED
  BY <1>4, <1>5, <1>7, <1>8, <1>9 DEF Lifecycle!Create

LEMMA RequestMaps ==
  ASSUME IInv, NEW r \in Requests, RequestAction(r), UNCHANGED workerVars
  PROVE  Lifecycle!Create \/ UNCHANGED Lifecycle!vars
<1>1. CASE Commit(r) BY <1>1, CommitMaps
<1>2. CASE ~Commit(r)
  <2>1. doc' = doc /\ rows' = rows /\ vectors' = vectors
    BY <1>2 DEF RequestAction, RequestStep, Reject, Start, RefuseFile, Dedupe,
       NewFile, PutRaw, Insert, InsertConflict, DeadlockVictim, Enqueue, Respond,
       RequestFails, storeVars
  <2>2. QED BY <2>1, Stutters DEF PhaseOf, HitsOf
<1>3. QED BY <1>1, <1>2

\* The documents other than d keep their phase and their hits.
LEMMA OthersStay ==
  ASSUME NEW d \in DocId, JobFrame(d), NEW e \in DocId \ {d}
  PROVE  PhaseOf(e)' = PhaseOf(e) /\ HitsOf(e)' = HitsOf(e)
  BY DEF JobFrame, PhaseOf, HitsOf

LEMMA JobStutters ==
  ASSUME NEW d \in DocId, JobFrame(d), rows' = rows,
         PhaseOf(d)' = PhaseOf(d), HitsOf(d)' = HitsOf(d)
  PROVE  UNCHANGED Lifecycle!vars
  BY OthersStay, Stutters

LEMMA JobMaps ==
  ASSUME IInv, NEW d \in DocId, JobAction(d), UNCHANGED uploadVars
  PROVE  \/ UNCHANGED Lifecycle!vars
         \/ Lifecycle!Begin(d)
         \/ Lifecycle!Index(d)
         \/ Lifecycle!Fail(d)
<1> USE DEF At, Goto, Quiet
<1>0. /\ doc \in [DocId -> Row] /\ rows \in [DocId -> SUBSET (Nat \X Nat)]
      /\ vectors \in [DocId -> SUBSET (Nat \X Nat)]
      /\ tries \in [DocId -> 0 .. MaxTries] /\ Size(d) \in Nat
  BY SizeType DEF IInv, TypeOK, StoreTypeOK, WorkerTypeOK
<1>1. JobFrame(d)
  BY JobFrames DEF IInv, TypeOK
<1>2. StatusAt(d) /\ PointsAt(d)
  BY DEF IInv, RunInv
<1>3. CASE doc' = doc /\ rows' = rows /\ vectors' = vectors
  BY <1>1, <1>3, JobStutters DEF PhaseOf, HitsOf
<1>4. ASSUME NEW ph, rows' = rows, PhaseOf(d)' = ph, HitsOf(d)' = {}
      PROVE  /\ [e \in DocId |-> PhaseOf(e)]'
                  = [[e \in DocId |-> PhaseOf(e)] EXCEPT ![d] = ph]
             /\ [e \in DocId |-> HitsOf(e)]'
                  = [[e \in DocId |-> HitsOf(e)] EXCEPT ![d] = {}]
  BY <1>1, <1>4, OthersStay
<1>13. CASE LoadAndSetParsing(d)
  <2>1. doc[d].status \notin {"absent", "indexed"} /\ rows' = rows
    BY <1>13 DEF LoadAndSetParsing
  <2>2. SetStatus(d, "parsing", FALSE, 0, FALSE)
    BY <1>13 DEF LoadAndSetParsing
  <2>3. doc'[d].status = "parsing" BY <1>0, <2>2 DEF SetStatus
  <2>4. PhaseOf(d)' = "working" /\ HitsOf(d)' = {} /\ HitsOf(d) = {}
    BY <2>1, <2>3 DEF PhaseOf, HitsOf
  <2>5. doc[d].status \in Status BY <1>0 DEF Row
  <2>6. CASE PhaseOf(d) = "working" BY <1>1, <2>1, <2>4, <2>6, JobStutters
  <2>7. CASE PhaseOf(d) \in {"pending", "failed"}
    <3>1. [e \in DocId |-> HitsOf(e)]' = [e \in DocId |-> HitsOf(e)]
      BY <1>1, <2>4, OthersStay
    <3>2. QED BY <1>4, <2>1, <2>4, <2>7, <3>1 DEF Lifecycle!Begin
  <2>8. QED BY <2>1, <2>5, <2>6, <2>7 DEF PhaseOf, Status
<1>17. CASE SetChunking(d)
  <2>1. doc[d].status = "parsing" /\ rows' = rows
    BY <1>2, <1>17 DEF SetChunking, StatusAt
  <2>2. SetStatus(d, "chunking", FALSE, 0, TRUE) BY <1>17 DEF SetChunking
  <2>3. doc'[d].status = "chunking" BY <1>0, <2>2 DEF SetStatus
  <2>4. QED BY <1>1, <2>1, <2>3, JobStutters DEF PhaseOf, HitsOf
<1>19. CASE SetEmbedding(d)
  <2>1. doc[d].status = "chunking" /\ rows' = rows
    BY <1>2, <1>19 DEF SetEmbedding, StatusAt
  <2>2. SetStatus(d, "embedding", FALSE, 0, FALSE) BY <1>19 DEF SetEmbedding
  <2>3. doc'[d].status = "embedding" BY <1>0, <2>2 DEF SetStatus
  <2>4. QED BY <1>1, <2>1, <2>3, JobStutters DEF PhaseOf, HitsOf
<1>20. CASE DeleteVectors(d) \/ UpsertBatch(d)
  <2>1. doc[d].status = "embedding" /\ rows' = rows /\ doc' = doc
    BY <1>2, <1>20 DEF DeleteVectors, UpsertBatch, StatusAt
  <2>2. QED BY <1>1, <2>1, JobStutters DEF PhaseOf, HitsOf
<1>22. CASE InsertRowsAndIndex(d)
  <2>1. /\ doc[d].status = "embedding" /\ vectors[d] = Points(tries[d], Size(d))
        /\ Size(d) > 0 /\ tries[d] \in 1 .. MaxTries
    BY <1>0, <1>2, <1>22 DEF InsertRowsAndIndex, StatusAt, PointsAt
  <2>2. /\ SetStatus(d, "indexed", FALSE, Size(d), FALSE)
        /\ rows[d] = {} /\ rows' = [rows EXCEPT ![d] = Points(tries[d], Size(d))]
        /\ vectors' = vectors
    BY <1>22 DEF InsertRowsAndIndex
  <2>3. doc'[d].status = "indexed" BY <1>0, <2>2 DEF SetStatus
  <2>4. /\ PhaseOf(d) = "working" /\ PhaseOf(d)' = "indexed"
        /\ HitsOf(d)' = (1 .. Size(d)) \X {tries[d]}
    BY <2>1, <2>2, <2>3 DEF PhaseOf, HitsOf, Points
  <2>5. /\ [e \in DocId |-> PhaseOf(e)]'
             = [[e \in DocId |-> PhaseOf(e)] EXCEPT ![d] = "indexed"]
        /\ [e \in DocId |-> HitsOf(e)]'
             = [[e \in DocId |-> HitsOf(e)] EXCEPT ![d] = (1 .. Size(d)) \X {tries[d]}]
    BY <1>1, <2>4, OthersStay
  <2>6. rows' = [rows EXCEPT ![d] = (1 .. Size(d)) \X {tries[d]}]
    BY <2>2 DEF Points
  <2>7. QED BY <2>1, <2>2, <2>4, <2>5, <2>6 DEF Lifecycle!Index
<1>25. CASE SetFailed(d)
  <2>1. /\ doc[d].status \in {"parsing", "chunking", "embedding", "indexed"}
        /\ rows' = rows
    BY <1>2, <1>25 DEF SetFailed, StatusAt
  <2>2. SetStatus(d, "failed", TRUE, 0, FALSE) BY <1>25 DEF SetFailed
  <2>3. doc'[d].status = "failed" BY <1>0, <2>2 DEF SetStatus
  <2>4. /\ PhaseOf(d) \in {"working", "indexed"}
        /\ PhaseOf(d)' = "failed" /\ HitsOf(d)' = {}
    BY <2>1, <2>3 DEF PhaseOf, HitsOf
  <2>5. QED BY <1>4, <2>1, <2>4 DEF Lifecycle!Fail
<1>30. QED
  BY <1>3, <1>13, <1>17, <1>19, <1>20, <1>22, <1>25
  DEF JobAction, JobStep, Pick, GiveUp, SkipJob, PublishParsing, DownloadAndParse,
      PutMarkdown, PublishAndChunk, InsertRowsConflict, PublishIndexed,
      PublishFailed, CallRaises, Timeout, Crash, JobRaises

LEMMA NextMaps == IInv /\ [Next]_vars => [Lifecycle!Next]_(Lifecycle!vars)
<1> SUFFICES ASSUME IInv, [Next]_vars PROVE [Lifecycle!Next]_(Lifecycle!vars)
  OBVIOUS
<1>1. CASE UNCHANGED vars
  BY <1>1, Stutters DEF vars, storeVars, PhaseOf, HitsOf
<1>2. ASSUME NEW r \in Requests, RequestAction(r), UNCHANGED workerVars
      PROVE  [Lifecycle!Next]_(Lifecycle!vars)
  BY <1>2, RequestMaps DEF Lifecycle!Next
<1>3. ASSUME NEW d \in DocId, JobAction(d), UNCHANGED uploadVars
      PROVE  [Lifecycle!Next]_(Lifecycle!vars)
  BY <1>3, JobMaps DEF Lifecycle!Next
<1>4. QED
  BY <1>1, <1>2, <1>3 DEF Next, UploadNext, WorkerNext, RequestAction, JobAction

\* Requests and jobs together are one document lifecycle: whatever raises,
\* times out, crashes or races, a document's text is published once, whole and
\* matching its points, and no content has two documents.
THEOREM IngestionImplementsLifecycle == Spec => ImplementsLifecycle
BY InitMaps, NextMaps, InductiveInvariant, PTL
   DEF Spec, ImplementsLifecycle, Lifecycle!Spec
=============================================================================
