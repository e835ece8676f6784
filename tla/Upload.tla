------------------------------- MODULE Upload -------------------------------
(***************************************************************************)
(* POST /files (api/routes/files.py:64-147): one transaction over all the  *)
(* files of a request, an object per new file, and the jobs enqueued after *)
(* the commit.  Every await of the handler ends an action, so requests     *)
(* interleave between the duplicate check, the put, the INSERT, the COMMIT *)
(* and each enqueue.                                                       *)
(***************************************************************************)
EXTENDS DocStore

CONSTANTS
  FileLists,  \* the file lists a request may carry
  BadFile     \* a file that fails validation (empty, too big, wrong type)

ASSUME FilesAssumption ==
  /\ FileLists \subseteq Seq(Contents \cup {BadFile})
  /\ BadFile \notin Contents

VARIABLES
  rpc,    \* where each request is
  todo,   \* files the loop has still to look at
  fresh,  \* contents inserted by the request and not yet enqueued
  out     \* documents collected for the response

uploadVars == <<rpc, todo, fresh, out>>

InTransaction == {"check", "put", "insert"}
RequestPc == {"new", "enqueue", "accepted", "rejected", "error"} \cup InTransaction

UploadTypeOK ==
  /\ rpc \in [Requests -> RequestPc]
  /\ todo \in [Requests -> Seq(Contents \cup {BadFile})]
  /\ fresh \in [Requests -> SUBSET Contents]
  /\ out \in [Requests -> SUBSET DocId]

UploadInit ==
  /\ rpc = [r \in Requests |-> "new"]
  /\ todo = [r \in Requests |-> <<>>]
  /\ fresh = [r \in Requests |-> {}]
  /\ out = [r \in Requests |-> {}]

\* Refused before the loop: the rate limiter, no file, or too many files.
Reject(r) ==
  /\ rpc[r] = "new"
  /\ rpc' = [rpc EXCEPT ![r] = "rejected"]
  /\ UNCHANGED <<storeVars, todo, fresh, out>>

Start(r) ==
  /\ rpc[r] = "new"
  /\ \E files \in FileLists : todo' = [todo EXCEPT ![r] = files]
  /\ rpc' = [rpc EXCEPT ![r] = "check"]
  /\ UNCHANGED <<storeVars, fresh, out>>

\* Mutant of Visible: reads other requests' uncommitted rows.
VisibleUncommitted(r, c) ==
  {d \in DocId : d[2] = c /\ (HasRow(d) \/ c \in fresh[d[1]])}

\* What request r's session reads for a checksum: committed rows, and the rows
\* it has flushed itself (READ COMMITTED).
Visible(r, c) ==
  {d \in DocId : d[2] = c /\ (HasRow(d) \/ (d[1] = r /\ c \in fresh[r]))}

\* An exception leaves the handler: get_session rolls the transaction back.
\* Objects already put stay, and jobs not yet enqueued never will be.
EndInError(r) ==
  /\ rpc' = [rpc EXCEPT ![r] = "error"]
  /\ todo' = [todo EXCEPT ![r] = <<>>]
  /\ fresh' = [fresh EXCEPT ![r] = {}]
  /\ UNCHANGED out

RefuseFile(r) ==
  /\ rpc[r] = "check" /\ todo[r] # <<>> /\ Head(todo[r]) = BadFile
  /\ EndInError(r)
  /\ UNCHANGED storeVars

\* Mutant of Dedupe: the loop does not move on after a duplicate.
DedupeWithoutContinue(r) ==
  /\ rpc[r] = "check" /\ todo[r] # <<>>
  /\ \E d \in Visible(r, Head(todo[r])) : out' = [out EXCEPT ![r] = @ \cup {d}]
  /\ UNCHANGED <<storeVars, rpc, todo, fresh>>

\* A file already known to the tenant: the existing document is returned,
\* whatever its status, and no job is enqueued for it.
Dedupe(r) ==
  /\ rpc[r] = "check" /\ todo[r] # <<>>
  /\ \E d \in Visible(r, Head(todo[r])) : out' = [out EXCEPT ![r] = @ \cup {d}]
  /\ todo' = [todo EXCEPT ![r] = Tail(@)]
  /\ UNCHANGED <<storeVars, rpc, fresh>>

NewFile(r) ==
  /\ rpc[r] = "check" /\ todo[r] # <<>> /\ Head(todo[r]) # BadFile
  /\ Visible(r, Head(todo[r])) = {}
  /\ rpc' = [rpc EXCEPT ![r] = "put"]
  /\ UNCHANGED <<storeVars, todo, fresh, out>>

PutRaw(r) ==
  /\ rpc[r] = "put"
  /\ objects' = objects \cup {<<<<r, Head(todo[r])>>, "raw">>}
  /\ rpc' = [rpc EXCEPT ![r] = "insert"]
  /\ UNCHANGED <<doc, rows, vectors, queue, faults, crashes, todo, fresh, out>>

\* The unique index uq_doc_checksum_per_tenant makes an INSERT wait for the
\* open transaction of another request that holds the same key.
WaitsFor(r, s) ==
  /\ rpc[r] = "insert" /\ s # r
  /\ rpc[s] \in InTransaction /\ Head(todo[r]) \in fresh[s]

Committed(c) == \E d \in DocId : d[2] = c /\ HasRow(d)

Insert(r) ==
  LET c == Head(todo[r]) IN
  /\ rpc[r] = "insert"
  /\ \A s \in Requests : ~WaitsFor(r, s)
  /\ ~Committed(c)
  /\ fresh' = [fresh EXCEPT ![r] = @ \cup {c}]
  /\ out' = [out EXCEPT ![r] = @ \cup {<<r, c>>}]
  /\ todo' = [todo EXCEPT ![r] = Tail(@)]
  /\ rpc' = [rpc EXCEPT ![r] = "check"]
  /\ UNCHANGED storeVars

\* The other transaction committed the same checksum since by_checksum looked:
\* IntegrityError, which the handler does not catch.
InsertConflict(r) ==
  /\ rpc[r] = "insert"
  /\ Committed(Head(todo[r]))
  /\ EndInError(r)
  /\ UNCHANGED storeVars

\* Postgres aborts one transaction of a cycle of waiting transactions.
DeadlockVictim(r) ==
  /\ \E S \in SUBSET Requests :
       /\ r \in S
       /\ \A x \in S : \E y \in S : WaitsFor(x, y)
       /\ \A y \in S : \E x \in S : WaitsFor(x, y)
  /\ EndInError(r)
  /\ UNCHANGED storeVars

Commit(r) ==
  /\ rpc[r] = "check" /\ todo[r] = <<>>
  /\ doc' = [d \in DocId |->
               IF d[1] = r /\ d[2] \in fresh[r] THEN NewRow ELSE doc[d]]
  /\ rpc' = [rpc EXCEPT ![r] = "enqueue"]
  /\ UNCHANGED <<rows, vectors, objects, queue, faults, crashes, todo, fresh, out>>

\* Mutant of Enqueue: jobs are enqueued while the transaction is still open.
EnqueueBeforeCommit(r) ==
  /\ rpc[r] \in {"check", "enqueue"}
  /\ \E c \in fresh[r] :
       /\ queue' = [queue EXCEPT ![ApiQueue] = @ \cup {<<r, c>>}]
       /\ fresh' = [fresh EXCEPT ![r] = @ \ {c}]
  /\ UNCHANGED <<doc, rows, vectors, objects, faults, crashes, rpc, todo, out>>

\* The loop of enqueue_job calls (in any order: no property tells them apart).
Enqueue(r) ==
  /\ rpc[r] = "enqueue"
  /\ \E c \in fresh[r] :
       /\ queue' = [queue EXCEPT ![ApiQueue] = @ \cup {<<r, c>>}]
       /\ fresh' = [fresh EXCEPT ![r] = @ \ {c}]
  /\ UNCHANGED <<doc, rows, vectors, objects, faults, crashes, rpc, todo, out>>

Respond(r) ==
  /\ rpc[r] = "enqueue" /\ fresh[r] = {}
  /\ rpc' = [rpc EXCEPT ![r] = "accepted"]
  /\ UNCHANGED <<storeVars, todo, fresh, out>>

\* put_object, the database or enqueue_job raises, or the API process dies.
RequestFails(r) ==
  /\ rpc[r] \in InTransaction \cup {"enqueue"}
  /\ SpendFault
  /\ EndInError(r)
  /\ UNCHANGED <<doc, rows, vectors, objects, queue, crashes>>

RequestStep(r) ==
  \/ RefuseFile(r) \/ Dedupe(r) \/ NewFile(r) \/ PutRaw(r) \/ Insert(r)
  \/ InsertConflict(r) \/ DeadlockVictim(r) \/ Commit(r) \/ Enqueue(r)
  \/ Respond(r)

UploadNext ==
  \E r \in Requests : Reject(r) \/ Start(r) \/ RequestStep(r) \/ RequestFails(r)
=============================================================================
