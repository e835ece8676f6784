----------------------------- MODULE FileEvents -----------------------------
(***************************************************************************)
(* GET /files/{id}/events (api/routes/files.py:171-206): clients follow a  *)
(* document over SSE while process_document runs.  The job publishes each  *)
(* status after committing it (worker/tasks/ingestion.py:30-33); Redis     *)
(* hands a published event to the streams subscribed at that moment, and   *)
(* to nobody else.                                                         *)
(*                                                                         *)
(* The documents start as an upload leaves them: a pending row, a raw      *)
(* object and a queued job.                                                *)
(***************************************************************************)
EXTENDS ProcessDocument, SequencesExt

CONSTANTS
  Clients,   \* SSE clients
  Watched,   \* the document each client follows
  MaxOpens   \* bound: streams a client opens (EventSource reconnects)

ASSUME ClientsAssumption == Watched \in [Clients -> DocId] /\ MaxOpens \in Nat

VARIABLES
  conn,   \* where each client's stream is
  snap,   \* the status the handler read before it subscribed
  inbox,  \* events Redis has queued for the stream
  shown,  \* statuses sent on the stream so far
  opens,  \* streams opened so far
  past    \* history: the statuses each row has had, without repetitions

clientVars == <<conn, snap, inbox, shown, opens>>
vars == <<storeVars, workerVars, clientVars, past>>

TypeOK ==
  /\ StoreTypeOK /\ WorkerTypeOK
  /\ conn \in [Clients -> {"away", "read", "subscribed", "listening", "closed"}]
  /\ snap \in [Clients -> Status]
  /\ inbox \in [Clients -> Seq(Status)]
  /\ shown \in [Clients -> Seq(Status)]
  /\ opens \in [Clients -> 0 .. MaxOpens]
  /\ past \in [DocId -> Seq(Status)]

Init ==
  /\ doc = [d \in DocId |-> NewRow]
  /\ rows = [d \in DocId |-> {}]
  /\ vectors = [d \in DocId |-> {}]
  /\ objects = DocId \X {"raw"}
  /\ queue = [q \in QueueNames |-> IF q = WorkerQueue THEN DocId ELSE {}]
  /\ faults = 0 /\ crashes = 0
  /\ WorkerInit
  /\ conn = [c \in Clients |-> "away"]
  /\ snap = [c \in Clients |-> "absent"]
  /\ inbox = [c \in Clients |-> <<>>]
  /\ shown = [c \in Clients |-> <<>>]
  /\ opens = [c \in Clients |-> 0]
  /\ past = [d \in DocId |-> <<"pending">>]

\* Mutant of Event: the name of the event in place of the status it carries.
EventName(here) ==
  IF here \in {"publish_parsing", "chunk", "delete_vectors", "publish_indexed",
              "publish_failed"}
    THEN <<"status">> ELSE <<>>

\* Mutant of Event: the run returns without publishing its success.
EventWithoutIndexed(here) ==
  CASE here = "publish_parsing" -> <<"parsing">>
    [] here = "chunk" -> <<"chunking">>
    [] here = "delete_vectors" -> <<"embedding">>
    [] here = "publish_failed" -> <<"failed">>
    [] OTHER -> <<>>

\* What a run publishes in the step it takes from a given place.  The event
\* `embedding` goes out just before the points are deleted.
Event(here) ==
  CASE here = "publish_parsing" -> <<"parsing">>
    [] here = "chunk" -> <<"chunking">>
    [] here = "delete_vectors" -> <<"embedding">>
    [] here = "publish_indexed" -> <<"indexed">>
    [] here = "publish_failed" -> <<"failed">>
    [] OTHER -> <<>>

Subscribed(c) == conn[c] \in {"subscribed", "listening"}

Publish(d, e) ==
  inbox' = [c \in Clients |->
              IF Watched[c] = d /\ Subscribed(c) THEN inbox[c] \o e ELSE inbox[c]]

Record(d) ==
  past' = [past EXCEPT ![d] =
             IF doc'[d].status = doc[d].status THEN @ ELSE Append(@, doc'[d].status)]

\* A step of the job publishes; a step that is cut off does not.
JobPublishes(d) ==
  /\ JobStep(d)
  /\ Publish(d, Event(wpc[d]))
  /\ Record(d)
  /\ UNCHANGED <<conn, snap, shown, opens>>

JobDisturbed(d) ==
  /\ Pick(d) \/ GiveUp(d) \/ CallRaises(d) \/ Timeout(d) \/ Crash(d)
  /\ UNCHANGED <<clientVars, past>>

\* The handler reads the row; generator and subscription come later.
Open(c) ==
  /\ conn[c] \in {"away", "closed"}
  /\ opens[c] < MaxOpens
  /\ opens' = [opens EXCEPT ![c] = @ + 1]
  /\ conn' = [conn EXCEPT ![c] = "read"]
  /\ snap' = [snap EXCEPT ![c] = doc[Watched[c]].status]
  /\ shown' = [shown EXCEPT ![c] = <<>>]
  /\ UNCHANGED <<storeVars, workerVars, inbox, past>>

Subscribe(c) ==
  /\ conn[c] = "read"
  /\ conn' = [conn EXCEPT ![c] = "subscribed"]
  /\ UNCHANGED <<storeVars, workerVars, snap, inbox, shown, opens, past>>

\* Mutant of Greet: the status as it is now, while older events wait.
GreetWithCurrent(c) ==
  /\ conn[c] = "subscribed"
  /\ shown' = [shown EXCEPT ![c] = Append(@, doc[Watched[c]].status)]
  /\ conn' = [conn EXCEPT ![c] = "listening"]
  /\ UNCHANGED <<storeVars, workerVars, snap, inbox, opens, past>>

\* The first event: the status as the handler read it.
Greet(c) ==
  /\ conn[c] = "subscribed"
  /\ shown' = [shown EXCEPT ![c] = Append(@, snap[c])]
  /\ snap' = [snap EXCEPT ![c] = "absent"]
  /\ conn' = [conn EXCEPT ![c] = "listening"]
  /\ UNCHANGED <<storeVars, workerVars, inbox, opens, past>>

\* pubsub.listen: forward the event, and unsubscribe after a final one.
Receive(c) ==
  /\ conn[c] = "listening" /\ inbox[c] # <<>>
  /\ shown' = [shown EXCEPT ![c] = Append(@, Head(inbox[c]))]
  /\ IF Head(inbox[c]) \in {"indexed", "failed"}
       THEN /\ conn' = [conn EXCEPT ![c] = "closed"]
            /\ inbox' = [inbox EXCEPT ![c] = <<>>]
       ELSE /\ inbox' = [inbox EXCEPT ![c] = Tail(@)]
            /\ UNCHANGED conn
  /\ UNCHANGED <<storeVars, workerVars, snap, opens, past>>

\* The client leaves, or the Redis or HTTP connection breaks.
HangUp(c) ==
  /\ conn[c] \in {"read", "subscribed", "listening"}
  /\ conn' = [conn EXCEPT ![c] = "away"]
  /\ inbox' = [inbox EXCEPT ![c] = <<>>]
  /\ shown' = [shown EXCEPT ![c] = <<>>]
  /\ snap' = [snap EXCEPT ![c] = "absent"]
  /\ UNCHANGED <<storeVars, workerVars, opens, past>>

StreamStep(c) == Subscribe(c) \/ Greet(c) \/ Receive(c)

Next ==
  \/ \E d \in DocId : JobPublishes(d) \/ JobDisturbed(d)
  \/ \E c \in Clients : Open(c) \/ StreamStep(c) \/ HangUp(c)

Spec == Init /\ [][Next]_vars

\* Jobs and streams are coroutines that the event loop runs; an idle worker
\* polls its queue.
FairSpec ==
  /\ Spec
  /\ \A d \in DocId :
       /\ WF_vars(JobPublishes(d))
       /\ SF_vars((Pick(d) \/ GiveUp(d)) /\ UNCHANGED <<clientVars, past>>)
  /\ \A c \in Clients : WF_vars(StreamStep(c))

-----------------------------------------------------------------------------
\* Where the statuses of s are found in p, each at or after the one before it:
\* found[i] is the place of s[i], and Len(p) + 1 once one is missing.
Embeds(s, p) ==
  LET Places(x, k) == {j \in k .. Len(p) : p[j] = x}
      found[i \in 0 .. Len(s)] ==
        IF i = 0 THEN 1
        ELSE IF found[i - 1] > Len(p) \/ Places(s[i], found[i - 1]) = {}
          THEN Len(p) + 1
        ELSE CHOOSE j \in Places(s[i], found[i - 1]) :
               \A k \in Places(s[i], found[i - 1]) : j <= k
  IN found[Len(s)] <= Len(p)

\* A stream never shows a status that the document did not have, nor goes back
\* to an earlier one, although the first status is read before the stream
\* subscribes, runs are repeated after crashes, and each status is committed
\* before it is published (files.py:177-201, ingestion.py:57-101).
StreamsFollowHistory ==
  \A c \in Clients : Embeds(shown[c], past[Watched[c]])

\* The worker died after the commit of `indexed` and before its publication:
\* the next delivery finds nothing to do and publishes nothing.
IndexedUnseen(d) ==
  doc[d].status = "indexed" /\ (At(d, "load") \/ d \in queue[WorkerQueue])

\* The worker died in the last of the job's deliveries.
DeliveriesUsedUp(d) == d \in queue[WorkerQueue] /\ tries[d] = MaxTries

\* A stream that is listening while a run of its document goes on is told how
\* it ends and is closed by that, over any number of crashes and redeliveries,
\* unless its client leaves, a call of the run raised or it timed out, the
\* worker died between the commit of `indexed` and its publication, which the
\* next delivery does not make good (ingestion.py:46-48, 97-103), or it died in
\* every delivery the job has, after which arq drops the job untold.
ListenersAreTold ==
  \A c \in Clients :
    LET d == Watched[c] IN
    (conn[c] = "listening" /\ ~At(d, "idle"))
      ~> \/ conn[c] \in {"closed", "away"}
         \/ faults > 0 \/ IndexedUnseen(d) \/ DeliveriesUsedUp(d)

-----------------------------------------------------------------------------
\* docs/15-streaming-sse.md:372: a client that reconnects still gets the current
\* status and the events to come; so whoever listens to a settled document is
\* shown how it ended.
OutcomeIsShown ==
  \A c \in Clients :
    (conn[c] = "listening" /\ doc[Watched[c]].status = "indexed")
      ~> (conn[c] # "listening" \/ Last(shown[c]) = doc[Watched[c]].status)
=============================================================================
