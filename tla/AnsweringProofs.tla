-------------------------- MODULE AnsweringProofs ---------------------------
(***************************************************************************)
(* Proofs about the components that an answer is made of, each under its   *)
(* own specification: the stream of events (AnswerStream), the embedding   *)
(* calls and their caches (ProviderCache), and the retrieval of documents  *)
(* (Retrieval).                                                            *)
(***************************************************************************)
EXTENDS AnswerStream, ProviderCache, Retrieval, OrderLemmas

(***************************************************************************)
(* AnswerStream.  A place for each event: the i-th event of an answer is   *)
(* the one that Placed(i) names, whatever fails; and an answer is told     *)
(* done only once its message, its cached history and its job are stored.  *)
(***************************************************************************)
\* Where each event of an answer has its place, and what is stored when.
Placed(i) ==
  CASE i = 1 -> <<"load_memory">>
    [] i = 2 -> <<"retrieve_docs">>
    [] i = 3 -> <<"citations">>
    [] OTHER -> <<"token", i - 3>>

Telling == {"model", "commit", "push", "enqueue", "finish"}

\* The events are where they belong, and the tokens are the ones from the
\* fourth on.
EventsPlaced ==
  /\ \A i \in DOMAIN sent :
       \/ sent[i] = Placed(i)
       \/ i = Len(sent) /\ gpc = "ended" /\ sent[i] \in {<<"done">>, <<"error">>}
  /\ \A i \in DOMAIN sent : sent[i][1] = "token" <=> 4 <= i /\ i <= text + 3
  /\ text = 0 \/ text + 3 <= Len(sent)

\* How many there are, by where the generator is.
EventsCounted ==
  /\ gpc = "begin" => Len(sent) = 0 /\ text = 0
  /\ gpc = "load" => Len(sent) = 1 /\ text = 0
  /\ gpc = "retrieve" => Len(sent) = 2 /\ text = 0
  /\ gpc \in Telling => Len(sent) = text + 3
  /\ gpc = "ended" => hungUp \/ (Len(sent) > 0 /\ sent[Len(sent)] \in {<<"done">>, <<"error">>})

StoredInv ==
  /\ gpc \in {"begin", "load", "retrieve", "model", "commit"} \/ broken => stored = {}
  /\ broken => gpc = "ended"
  /\ gpc \in {"push", "enqueue", "finish"} => stored = {text}
  /\ gpc \in {"enqueue", "finish"} => pushed = {text}
  /\ gpc \in {"begin", "load", "retrieve", "model", "commit", "push"} => pushed = {}
  /\ gpc \in {"begin", "load", "retrieve", "model", "commit", "push", "enqueue"} => enqueued = 0
  /\ stored \subseteq {text} /\ pushed \subseteq stored
  /\ enqueued # 0 => stored = {text}

DoneSent == \E i \in DOMAIN sent : sent[i] = <<"done">>
DoneStored == DoneSent => stored = {text} /\ pushed = {text}

AnswerInv == AnswerTypeOK /\ EventsPlaced /\ EventsCounted /\ StoredInv /\ DoneStored

EventType == {<<k>> : k \in Kinds} \cup {<<"token", n>> : n \in 1 .. MaxTokensOut}
Final == {<<"done">>, <<"error">>}

LEMMA InitAnswer == AnswerInit => AnswerInv
<1> SUFFICES ASSUME AnswerInit PROVE AnswerInv
  OBVIOUS
<1>1. AnswerTypeOK
  <2>1. sent \in Seq(EventType)
    <3>1. sent = <<>>
      BY DEF AnswerInit
    <3> HIDE DEF EventType
    <3> QED BY <3>1
  <2>2. text \in 0 .. MaxTokensOut /\ enqueued \in 0 .. 1
    BY AnswerAssumption DEF AnswerInit, AnswerAssumption
  <2> QED BY <2>1, <2>2 DEF AnswerInit, AnswerTypeOK, EventType
<1>2. EventsPlaced /\ EventsCounted
  <2>1. sent = <<>> /\ text = 0 /\ gpc = "begin" /\ DOMAIN sent = {} /\ Len(sent) = 0
    BY DEF AnswerInit
  <2> QED BY <2>1 DEF EventsPlaced, EventsCounted, Telling
<1>3. StoredInv /\ DoneStored
  BY DEF AnswerInit, StoredInv, DoneStored, DoneSent
<1> QED BY <1>1, <1>2, <1>3 DEF AnswerInv

\* An event goes out behind those that were sent.
LEMMA EventGoesOut ==
  ASSUME AnswerTypeOK, NEW e \in EventType, Send(e)
  PROVE  /\ sent' \in Seq(EventType) /\ Len(sent') = Len(sent) + 1 /\ Len(sent) \in Nat
         /\ DOMAIN sent = 1 .. Len(sent) /\ DOMAIN sent' = 1 .. Len(sent) + 1
         /\ \A i \in DOMAIN sent' : i \in DOMAIN sent \/ i = Len(sent) + 1
         /\ sent'[Len(sent) + 1] = e /\ \A i \in DOMAIN sent : sent'[i] = sent[i]
<1>1. sent \in Seq(EventType)
  BY DEF AnswerTypeOK, EventType
<1>2. sent' = Append(sent, e)
  BY DEF Send
<1> HIDE DEF EventType
<1> QED BY <1>1, <1>2

LEMMA EventTypes ==
  /\ \A k \in Kinds : <<k>> \in EventType
  /\ AnswerTypeOK /\ text < MaxTokensOut => <<"token", text + 1>> \in EventType
<1>1. \A k \in Kinds : <<k>> \in EventType
  BY DEF EventType
<1>2. AnswerTypeOK /\ text < MaxTokensOut => text + 1 \in 1 .. MaxTokensOut
  BY AnswerAssumption DEF AnswerTypeOK, AnswerAssumption
<1> QED BY <1>1, <1>2 DEF EventType

LEMMA AnswerTypes ==
  ASSUME AnswerInv, [AnswerNext]_streamVars
  PROVE  AnswerTypeOK'
<1> USE DEF AnswerInv
<1>1. sent' \in Seq(EventType)
  <2>1. sent' = sent \/ \E e \in EventType : Send(e)
    BY EventTypes DEF AnswerNext, AnswerStep, streamVars, Kinds,
     SendLoadMemory, SendRetrieveDocs, SendCitations, SendToken, ModelEnds, StoreAnswer,
     PushAnswer, EnqueueExtraction, SendDone, ModelBreaks, GenRaises, ClientHangsUp
  <2>2. sent \in Seq(EventType)
    BY DEF AnswerTypeOK, EventType
  <2> QED BY <2>1, <2>2, EventGoesOut
<1>2. text' \in 0 .. MaxTokensOut /\ enqueued' \in 0 .. 1
  <2>1. text' = text \/ (text < MaxTokensOut /\ text' = text + 1)
    BY DEF AnswerNext, AnswerStep, streamVars,
     SendLoadMemory, SendRetrieveDocs, SendCitations, SendToken, ModelEnds, StoreAnswer,
     PushAnswer, EnqueueExtraction, SendDone, ModelBreaks, GenRaises, ClientHangsUp
  <2>2. enqueued' = enqueued \/ (enqueued = 0 /\ enqueued' = enqueued + 1)
    BY DEF AnswerNext, AnswerStep, streamVars, Pass, NothingStored, StoredInv,
     SendLoadMemory, SendRetrieveDocs, SendCitations, SendToken, ModelEnds, StoreAnswer,
     PushAnswer, EnqueueExtraction, SendDone, ModelBreaks, GenRaises, ClientHangsUp
  <2> QED BY <2>1, <2>2, AnswerAssumption DEF AnswerTypeOK, AnswerAssumption
<1>3. /\ gpc' \in {"begin", "load", "retrieve", "model", "commit", "push", "enqueue", "finish", "ended"}
      /\ broken' \in BOOLEAN /\ hungUp' \in BOOLEAN
  BY DEF AnswerNext, AnswerStep, streamVars, Pass, AnswerTypeOK,
     SendLoadMemory, SendRetrieveDocs, SendCitations, SendToken, ModelEnds, StoreAnswer,
     PushAnswer, EnqueueExtraction, SendDone, ModelBreaks, GenRaises, ClientHangsUp
<1>4. stored' \in SUBSET (0 .. MaxTokensOut) /\ pushed' \in SUBSET (0 .. MaxTokensOut)
  BY DEF AnswerNext, AnswerStep, streamVars, AnswerTypeOK, NothingStored,
     SendLoadMemory, SendRetrieveDocs, SendCitations, SendToken, ModelEnds, StoreAnswer,
     PushAnswer, EnqueueExtraction, SendDone, ModelBreaks, GenRaises, ClientHangsUp
<1> QED BY <1>1, <1>2, <1>3, <1>4 DEF AnswerTypeOK, EventType

\* The next event is at its place, or the last.
LEMMA NextEvent ==
  ASSUME AnswerInv, NEW e \in EventType, Send(e), gpc # "ended",
         text' = text \/ text' = text + 1,
         text' = text + 1 => Len(sent) = text + 3 /\ e = <<"token", text + 1>>,
         text' = text => e[1] # "token" /\ (text = 0 \/ Len(sent) = text + 3),
         e = Placed(Len(sent) + 1) \/ (gpc' = "ended" /\ e \in Final)
  PROVE  EventsPlaced'
<1> DEFINE l == Len(sent) + 1
<1>1. /\ Len(sent') = Len(sent) + 1 /\ Len(sent) \in Nat /\ l \in Nat
      /\ DOMAIN sent = 1 .. Len(sent) /\ DOMAIN sent' = 1 .. l
      /\ \A i \in DOMAIN sent' : i \in DOMAIN sent \/ i = l
      /\ sent'[l] = e /\ \A i \in DOMAIN sent : sent'[i] = sent[i]
  BY EventGoesOut DEF AnswerInv
<1>2. text \in Nat
  BY AnswerAssumption DEF AnswerInv, AnswerTypeOK, AnswerAssumption
<1>3. \A i : Placed(i)' = Placed(i)
  BY DEF Placed
<1>4. \A i \in DOMAIN sent' : \/ sent'[i] = Placed(i)
                              \/ i = Len(sent') /\ gpc' = "ended" /\ sent'[i] \in Final
  <2>1. \A i \in DOMAIN sent : sent[i] = Placed(i)
    BY DEF AnswerInv, EventsPlaced
  <2>2. e = Placed(l) \/ (gpc' = "ended" /\ e \in Final)
    OBVIOUS
  <2> HIDE DEF l
  <2> QED BY <1>1, <2>1, <2>2 DEF l
<1>5. \A i \in DOMAIN sent' : sent'[i][1] = "token" <=> 4 <= i /\ i <= text' + 3
  <2> SUFFICES ASSUME NEW i \in DOMAIN sent'
               PROVE  sent'[i][1] = "token" <=> 4 <= i /\ i <= text' + 3
    OBVIOUS
  <2>1. CASE i \in DOMAIN sent
    <3>1. sent'[i][1] = "token" <=> 4 <= i /\ i <= text + 3
      BY <2>1, <1>1 DEF AnswerInv, EventsPlaced
    <3>2. i \in Nat /\ i <= Len(sent)
      BY <2>1, <1>1
    <3>3. CASE text' = text + 1
      <4>1. Len(sent) = text + 3
        BY <3>3
      <4>2. i <= text + 3 /\ i <= text' + 3
        BY <4>1, <3>2, <3>3, <1>2
      <4> QED BY <3>1, <4>2
    <3>4. CASE text' = text
      BY <3>1, <3>4
    <3> QED BY <3>3, <3>4
  <2>2. CASE i = l
    <3>1. sent'[i][1] = e[1]
      BY <2>2, <1>1
    <3>2. CASE text' = text + 1
      <4>1. e = <<"token", text + 1>>
        BY <3>2
      <4>3. e[1] = "token"
        BY <4>1
      <4>2. i = text' + 3 /\ 4 <= i
        BY <2>2, <3>2, <1>1, <1>2
      <4>4. i <= text' + 3
        BY <4>2, <1>2
      <4> QED BY <3>1, <4>2, <4>3, <4>4
    <3>3. CASE text' = text
      <4>1. e[1] # "token" /\ (text = 0 \/ Len(sent) = text + 3)
        BY <3>3
      <4>2. ~(4 <= i /\ i <= text + 3)
        <5>1. \A n, t \in Nat : t = 0 \/ n = t + 3 => ~(4 <= n + 1 /\ n + 1 <= t + 3)
          OBVIOUS
        <5> QED BY <5>1, <2>2, <4>1, <1>1, <1>2
      <4> QED BY <3>1, <3>3, <4>1, <4>2
    <3> QED BY <3>2, <3>3
  <2> QED BY <2>1, <2>2, <1>1
<1>6. text' = 0 \/ text' + 3 <= Len(sent')
  <2>1. CASE text' = text + 1
    BY <2>1, <1>1, <1>2
  <2>2. CASE text' = text
    <3>1. text = 0 \/ Len(sent) = text + 3
      BY <2>2
    <3>2. text = 0 \/ text + 3 <= Len(sent')
      <4>1. \A n, t \in Nat : t = 0 \/ n = t + 3 => t = 0 \/ t + 3 <= n + 1
        OBVIOUS
      <4> QED BY <4>1, <3>1, <1>1, <1>2
    <3> QED BY <2>2, <3>2
  <2> QED BY <2>1, <2>2
<1> QED BY <1>3, <1>4, <1>5, <1>6 DEF EventsPlaced, Final

\* Without an event, and up to the end of the answer, nothing moves.
LEMMA NoEvent ==
  ASSUME AnswerInv, UNCHANGED <<sent, text>>, gpc # "ended" \/ gpc' = gpc
  PROVE  EventsPlaced'
<1>1. \A i : Placed(i)' = Placed(i)
  BY DEF Placed
<1>2. sent' = sent /\ text' = text
  OBVIOUS
<1>3. \A i \in DOMAIN sent :
       \/ sent[i] = Placed(i)
       \/ i = Len(sent) /\ gpc' = "ended" /\ sent[i] \in {<<"done">>, <<"error">>}
  BY DEF AnswerInv, EventsPlaced
<1> QED BY <1>1, <1>2, <1>3 DEF AnswerInv, EventsPlaced

LEMMA NextPlaced ==
  ASSUME AnswerInv, [AnswerNext]_streamVars
  PROVE  EventsPlaced'
<1>0. text \in Nat /\ Len(sent) \in Nat
  BY AnswerAssumption DEF AnswerInv, AnswerTypeOK, AnswerAssumption
<1>1. CASE SendLoadMemory
  <2>1. Send(<<"load_memory">>) /\ <<"load_memory">> \in EventType /\ <<"load_memory">>[1] # "token"
    BY <1>1, EventTypes DEF SendLoadMemory, Kinds
  <2>2. gpc # "ended" /\ text' = text /\ text = 0 /\ Len(sent) + 1 = 1
    <3>1. gpc = "begin" /\ text' = text
      BY <1>1 DEF SendLoadMemory, Pass
    <3>2. Len(sent) = 0 /\ text = 0
      BY <3>1 DEF AnswerInv, EventsCounted
    <3> QED BY <3>1, <3>2
  <2>3. <<"load_memory">> = Placed(Len(sent) + 1)
    BY <2>2 DEF Placed
  <2> QED BY <2>1, <2>2, <2>3, <1>0, NextEvent
<1>2. CASE SendRetrieveDocs
  <2>1. Send(<<"retrieve_docs">>) /\ <<"retrieve_docs">> \in EventType /\ <<"retrieve_docs">>[1] # "token"
    BY <1>2, EventTypes DEF SendRetrieveDocs, Kinds
  <2>2. gpc # "ended" /\ text' = text /\ text = 0 /\ Len(sent) + 1 = 2
    <3>1. gpc = "load" /\ text' = text
      BY <1>2 DEF SendRetrieveDocs, Pass
    <3>2. Len(sent) = 1 /\ text = 0
      BY <3>1 DEF AnswerInv, EventsCounted
    <3> QED BY <3>1, <3>2
  <2>3. <<"retrieve_docs">> = Placed(Len(sent) + 1)
    BY <2>2 DEF Placed
  <2> QED BY <2>1, <2>2, <2>3, <1>0, NextEvent
<1>3. CASE SendCitations
  <2>1. Send(<<"citations">>) /\ <<"citations">> \in EventType /\ <<"citations">>[1] # "token"
    BY <1>3, EventTypes DEF SendCitations, Kinds
  <2>2. gpc # "ended" /\ text' = text /\ text = 0 /\ Len(sent) + 1 = 3
    <3>1. gpc = "retrieve" /\ text' = text
      BY <1>3 DEF SendCitations, Pass
    <3>2. Len(sent) = 2 /\ text = 0
      BY <3>1 DEF AnswerInv, EventsCounted
    <3> QED BY <3>1, <3>2
  <2>3. <<"citations">> = Placed(Len(sent) + 1)
    BY <2>2 DEF Placed
  <2> QED BY <2>1, <2>2, <2>3, <1>0, NextEvent
<1>4. CASE SendToken
  <2>1. Len(sent) = text + 3
    BY <1>4 DEF SendToken, AnswerInv, EventsCounted, Telling
  <2>2. Len(sent) + 1 # 1 /\ Len(sent) + 1 # 2 /\ Len(sent) + 1 # 3 /\ Len(sent) + 1 - 3 = text + 1
    BY <2>1, <1>0
  <2>3. Placed(Len(sent) + 1) = <<"token", text + 1>>
    BY <2>2 DEF Placed
  <2>4. <<"token", text + 1>> \in EventType
    BY <1>4, EventTypes DEF SendToken, AnswerInv
  <2> QED BY <1>4, <1>0, <2>1, <2>3, <2>4, NextEvent DEF SendToken
<1>5. CASE SendDone \/ ModelBreaks
  <2>1. Len(sent) = text + 3 /\ gpc # "ended" /\ gpc' = "ended" /\ text' = text
    BY <1>5 DEF SendDone, ModelBreaks, Pass, AnswerInv, EventsCounted, Telling
  <2>2. PICK e \in Final : Send(e)
    BY <1>5 DEF SendDone, ModelBreaks, Final
  <2>3. e \in EventType /\ e[1] # "token"
    BY EventTypes DEF Final, Kinds
  <2> QED BY <1>0, <2>1, <2>2, <2>3, NextEvent
<1>6. CASE GenRaises
  <2>1. (text = 0 \/ Len(sent) = text + 3) /\ gpc # "ended" /\ gpc' = "ended" /\ text' = text
    BY <1>6 DEF GenRaises, AnswerInv, EventsCounted, Telling
  <2>2. Send(<<"error">>) /\ <<"error">> \in Final
    BY <1>6 DEF GenRaises, Final
  <2>3. <<"error">> \in EventType /\ <<"error">>[1] # "token"
    BY EventTypes DEF Kinds
  <2> QED BY <1>0, <2>1, <2>2, <2>3, NextEvent
<1>7. CASE ModelEnds \/ StoreAnswer \/ PushAnswer \/ EnqueueExtraction \/ ClientHangsUp \/ UNCHANGED streamVars
  BY <1>7, NoEvent DEF ModelEnds, StoreAnswer, PushAnswer, EnqueueExtraction, ClientHangsUp,
     streamVars, Pass
<1> QED BY <1>1, <1>2, <1>3, <1>4, <1>5, <1>6, <1>7 DEF AnswerNext, AnswerStep

LEMMA NextCounted ==
  ASSUME AnswerInv, [AnswerNext]_streamVars
  PROVE  EventsCounted'
<1>0. /\ text \in Nat /\ Len(sent) \in Nat /\ Telling' = Telling
      /\ \A e \in EventType : Send(e) => Len(sent') = Len(sent) + 1 /\ sent'[Len(sent')] = e
  BY AnswerAssumption, EventGoesOut DEF AnswerInv, AnswerTypeOK, AnswerAssumption, Telling
<1>1. CASE SendLoadMemory \/ SendRetrieveDocs \/ SendCitations
  <2>1. Len(sent') = Len(sent) + 1
    BY <1>1, <1>0, EventTypes DEF SendLoadMemory, SendRetrieveDocs, SendCitations, Kinds
  <2>2. /\ text = 0 /\ text' = text
        /\ \/ Len(sent) = 0 /\ gpc' = "load"
           \/ Len(sent) = 1 /\ gpc' = "retrieve"
           \/ Len(sent) = 2 /\ gpc' = "model"
    BY <1>1 DEF SendLoadMemory, SendRetrieveDocs, SendCitations, Pass, AnswerInv, EventsCounted
  <2>3. /\ text' = 0
        /\ \/ Len(sent') = 1 /\ gpc' = "load"
           \/ Len(sent') = 2 /\ gpc' = "retrieve"
           \/ Len(sent') = text' + 3 /\ gpc' = "model"
    <3>1. text' = 0
      BY <2>2
    <3>3. CASE Len(sent) = 0 /\ gpc' = "load"
      BY <2>1, <3>1, <3>3
    <3>4. CASE Len(sent) = 1 /\ gpc' = "retrieve"
      BY <2>1, <3>1, <3>4
    <3>5. CASE Len(sent) = 2 /\ gpc' = "model"
      BY <2>1, <3>1, <3>5
    <3> QED BY <2>2, <3>1, <3>3, <3>4, <3>5
  <2> QED BY <2>3 DEF EventsCounted, Telling
<1>2. CASE SendToken
  <2>1. Len(sent') = Len(sent) + 1 /\ text' = text + 1 /\ Len(sent) = text + 3 /\ gpc' = "model"
    BY <1>2, <1>0, EventTypes DEF SendToken, AnswerInv, EventsCounted, Telling
  <2> QED BY <2>1, <1>0 DEF EventsCounted
<1>3. CASE SendDone \/ ModelBreaks \/ GenRaises
  <2>1. gpc' = "ended" /\ \E e \in Final : Send(e)
    BY <1>3 DEF SendDone, ModelBreaks, GenRaises, Pass, Final
  <2>2. \A e \in Final : e \in EventType
    BY EventTypes DEF Final, Kinds
  <2>3. Len(sent') > 0 /\ sent'[Len(sent')] \in Final
    BY <2>1, <2>2, <1>0
  <2> QED BY <2>1, <2>3 DEF EventsCounted, Final, Telling
<1>4. CASE ModelEnds \/ StoreAnswer \/ PushAnswer \/ EnqueueExtraction
  BY <1>4, <1>0 DEF ModelEnds, StoreAnswer, PushAnswer, EnqueueExtraction, Pass, AnswerInv,
     EventsCounted, Telling
<1>5. CASE ClientHangsUp \/ UNCHANGED streamVars
  BY <1>5, <1>0 DEF ClientHangsUp, streamVars, AnswerInv, EventsCounted, Telling
<1> QED BY <1>1, <1>2, <1>3, <1>4, <1>5 DEF AnswerNext, AnswerStep

\* No done is sent before the last step.
LEMMA DoneIsLast ==
  ASSUME AnswerInv, [AnswerNext]_streamVars
  PROVE  /\ DoneSent => gpc = "ended"
         /\ DoneSent' => DoneSent \/ SendDone
<1>1. DoneSent => gpc = "ended"
  <2>1. \A i : Placed(i) # <<"done">>
    BY DEF Placed
  <2> QED BY <2>1 DEF DoneSent, AnswerInv, EventsPlaced
<1>2. \A e \in EventType : Send(e) /\ e # <<"done">> => (DoneSent' => DoneSent)
  BY EventGoesOut DEF DoneSent, AnswerInv
<1>3. CASE SendLoadMemory \/ SendRetrieveDocs \/ SendCitations \/ ModelBreaks \/ GenRaises
  BY <1>3, <1>2, EventTypes, <1>1 DEF SendLoadMemory, SendRetrieveDocs, SendCitations,
     ModelBreaks, GenRaises, Kinds
<1>4. CASE SendToken
  <2>1. <<"token", text + 1>> \in EventType /\ <<"token", text + 1>> # <<"done">>
    BY <1>4, EventTypes DEF SendToken, AnswerInv
  <2> QED BY <1>4, <2>1, <1>1, <1>2 DEF SendToken
<1>5. CASE UNCHANGED sent
  BY <1>5, <1>1 DEF DoneSent
<1> QED BY <1>1, <1>3, <1>4, <1>5 DEF AnswerNext, AnswerStep, SendDone, ModelEnds, StoreAnswer,
           PushAnswer,
          EnqueueExtraction, ClientHangsUp, streamVars

LEMMA NextStored ==
  ASSUME AnswerInv, [AnswerNext]_streamVars
  PROVE  StoredInv' /\ DoneStored'
<1>1. StoredInv'
  <2>1. CASE SendLoadMemory \/ SendRetrieveDocs \/ SendCitations \/ SendDone \/ ModelEnds
    BY <2>1 DEF AnswerInv, StoredInv, SendLoadMemory, SendRetrieveDocs, SendCitations, SendDone,
       ModelEnds,
                Pass, NothingStored
  <2>2. CASE SendToken \/ ModelBreaks
    BY <2>2 DEF AnswerInv, StoredInv, SendToken, ModelBreaks, Pass, NothingStored
  <2>3. CASE StoreAnswer
    BY <2>3 DEF AnswerInv, StoredInv, StoreAnswer, Pass
  <2>4. CASE PushAnswer
    BY <2>4 DEF AnswerInv, StoredInv, PushAnswer, Pass
  <2>5. CASE EnqueueExtraction
    BY <2>5 DEF AnswerInv, StoredInv, EnqueueExtraction, Pass
  <2>6. CASE GenRaises
    BY <2>6 DEF AnswerInv, StoredInv, GenRaises
  <2>7. CASE ClientHangsUp
    <3>1. CASE gpc = "commit"
      BY <2>7, <3>1 DEF AnswerInv, StoredInv, ClientHangsUp
    <3>2. CASE gpc # "commit"
      <4>1. stored' = stored /\ UNCHANGED <<text, pushed, enqueued, broken>> /\ gpc' = "ended" /\ gpc # "ended"
        BY <2>7, <3>2 DEF ClientHangsUp
      <4> QED BY <4>1 DEF AnswerInv, StoredInv
    <3> QED BY <3>1, <3>2
  <2>8. CASE UNCHANGED streamVars
    BY <2>8 DEF AnswerInv, StoredInv, streamVars
  <2> QED BY <2>1, <2>2, <2>3, <2>4, <2>5, <2>6, <2>7, <2>8 DEF AnswerNext, AnswerStep
<1>2. DoneStored'
  <2> SUFFICES ASSUME DoneSent' PROVE stored' = {text'} /\ pushed' = {text'}
    BY DEF DoneStored
  <2>1. CASE SendDone
    BY <2>1 DEF AnswerInv, StoredInv, SendDone, Pass, NothingStored
  <2>2. CASE ~SendDone
    <3>1. DoneSent /\ gpc = "ended" /\ stored = {text} /\ pushed = {text}
      BY <2>2, DoneIsLast DEF AnswerInv, DoneStored
    <3>2. UNCHANGED streamVars
      BY <3>1 DEF AnswerNext, AnswerStep, SendLoadMemory, SendRetrieveDocs, SendCitations,
         SendToken, ModelEnds,
         StoreAnswer, PushAnswer, EnqueueExtraction, SendDone, ModelBreaks, GenRaises, ClientHangsUp, Pass
    <3> QED BY <3>1, <3>2 DEF streamVars
  <2> QED BY <2>1, <2>2
<1> QED BY <1>1, <1>2

\* Every event is sent, and every answer is stored, when it should be.
THEOREM AnswerIsInductive == AnswerSpec => []AnswerInv
<1>1. AnswerInit => AnswerInv
  BY InitAnswer
<1>2. AnswerInv /\ [AnswerNext]_streamVars => AnswerInv'
  BY AnswerTypes, NextPlaced, NextCounted, NextStored DEF AnswerInv
<1> QED BY <1>1, <1>2, PTL DEF AnswerSpec

\* The tokens sent are the answer.
LEMMA TokensAreTheAnswer ==
  ASSUME AnswerInv
  PROVE  /\ text \in Nat /\ Len(Tokens) = text /\ DOMAIN Tokens = 1 .. text
         /\ \A n \in 1 .. text : Tokens[n] = <<"token", n>>
<1>1. text \in Nat /\ Len(sent) \in Nat /\ DOMAIN sent = 1 .. Len(sent)
  BY AnswerAssumption DEF AnswerInv, AnswerTypeOK, AnswerAssumption
<1> DEFINE P == {i \in DOMAIN sent : Kind(i) = "token"}
           order == Ascending(P)
<1>2. P = 4 .. text + 3
  <2>1. \A i \in DOMAIN sent : Kind(i) = "token" <=> 4 <= i /\ i <= text + 3
    BY DEF AnswerInv, EventsPlaced, Kind
  <2>2. text = 0 \/ text + 3 <= Len(sent)
    BY DEF AnswerInv, EventsPlaced
  <2> QED BY <1>1, <2>1, <2>2
<1>3. Cardinality(P) = text /\ \A k \in 1 .. text : order[k] = k + 3
  <2>1. /\ Cardinality(4 .. text + 3) = (text + 3) - 4 + 1
        /\ \A k \in 1 .. (text + 3) - 4 + 1 : Ascending(4 .. text + 3)[k] = 4 + k - 1
    <3>1. 4 \in Int /\ text + 3 \in Int /\ 4 <= (text + 3) + 1
      BY <1>1
    <3> QED BY <3>1, IntervalSorts
  <2>2. (text + 3) - 4 + 1 = text /\ \A k \in 1 .. text : 4 + k - 1 = k + 3
    BY <1>1
  <2> HIDE DEF P
  <2> QED BY <1>2, <2>1, <2>2
<1>4. DOMAIN order = 1 .. text
  BY <1>3 DEF Sorted, Ascending
<1>5. Tokens = [k \in DOMAIN order |-> sent[order[k]]]
  BY DEF Tokens, AtPlaces
<1>6. \A n \in 1 .. text : sent[n + 3] = <<"token", n>>
  <2> SUFFICES ASSUME NEW n \in 1 .. text PROVE sent[n + 3] = <<"token", n>>
    OBVIOUS
  <2>1. n + 3 \in P
    BY <1>1, <1>2
  <2>2. n + 3 \in DOMAIN sent /\ sent[n + 3][1] = "token"
    BY <2>1 DEF Kind
  <2>3. sent[n + 3] = Placed(n + 3)
    BY <2>2 DEF AnswerInv, EventsPlaced
  <2>4. n \in Nat /\ n > 0 /\ n + 3 - 3 = n /\ n + 3 # 1 /\ n + 3 # 2 /\ n + 3 # 3
    BY <1>1
  <2> QED BY <2>3, <2>4 DEF Placed
<1> HIDE DEF P, order
<1>7. DOMAIN Tokens = 1 .. text /\ \A n \in 1 .. text : Tokens[n] = sent[n + 3]
  BY <1>3, <1>4, <1>5
<1>8. Tokens = [n \in 1 .. text |-> <<"token", n>>]
  BY <1>4, <1>5, <1>6, <1>7
<1>9. Len(Tokens) = text
  BY <1>1, <1>8
<1> QED BY <1>1, <1>6, <1>7, <1>9

\* The client is told how its turn ended once and last, the citations come
\* before the tokens, and the tokens are in order and complete.
THEOREM EventsInOrder == AnswerSpec => []EventsAreInOrder
<1>1. AnswerInv => EventsAreInOrder
  <2> SUFFICES ASSUME AnswerInv PROVE EventsAreInOrder
    OBVIOUS
  <2>1. \A i \in DOMAIN sent : Kind(i) \in Ends => i = Len(sent) /\ gpc = "ended"
    <3>1. \A i : Placed(i)[1] \notin Ends
      BY DEF Placed, Ends
    <3> QED BY <3>1 DEF AnswerInv, EventsPlaced, Kind
  <2>2. gpc = "ended" => hungUp \/ Kind(Len(sent)) \in Ends
    BY DEF AnswerInv, EventsCounted, Kind, Ends
  <2>3. \A n \in DOMAIN Tokens : Tokens[n] = <<"token", n>>
    BY TokensAreTheAnswer
  <2>4. \A i \in DOMAIN sent : Kind(i) = "token" => \E j \in 1 .. i - 1 : Kind(j) = "citations"
    <3> SUFFICES ASSUME NEW i \in DOMAIN sent, Kind(i) = "token"
                 PROVE  3 \in 1 .. i - 1 /\ Kind(3) = "citations"
      OBVIOUS
    <3>0. Len(sent) \in Nat /\ DOMAIN sent = 1 .. Len(sent)
      BY DEF AnswerInv, AnswerTypeOK
    <3>1. i \in Nat /\ 4 <= i /\ i <= Len(sent) /\ Len(sent) \in Nat /\ DOMAIN sent = 1 .. Len(sent)
      BY <3>0 DEF AnswerInv, EventsPlaced, Kind
    <3>2. 3 \in DOMAIN sent /\ 3 # Len(sent)
      BY <3>1
    <3>3. sent[3] = <<"citations">>
      <4>1. sent[3] = Placed(3)
        BY <3>2 DEF AnswerInv, EventsPlaced
      <4> QED BY <4>1 DEF Placed
    <3> QED BY <3>1, <3>3 DEF Kind
  <2> QED BY <2>1, <2>2, <2>3, <2>4 DEF EventsAreInOrder
<1> QED BY <1>1, AnswerIsInductive, PTL

\* Only a whole answer is stored, as it was sent, and done comes after that.
THEOREM DoneMeansStored == AnswerSpec => []DoneIsDurable
<1>1. AnswerInv => DoneIsDurable
  <2> SUFFICES ASSUME AnswerInv PROVE DoneIsDurable
    OBVIOUS
  <2>1. Len(Tokens) = text
    BY TokensAreTheAnswer
  <2>2. enqueued <= Cardinality(stored)
    <3>1. stored = {} \/ stored = {text}
      BY DEF AnswerInv, StoredInv
    <3>2. Cardinality(stored) = 0 \/ Cardinality(stored) = 1
      BY <3>1, FS_EmptySet, FS_Singleton
    <3>3. stored = {text} => Cardinality(stored) = 1
      BY FS_Singleton
    <3> QED BY <3>2, <3>3 DEF AnswerInv, StoredInv, AnswerTypeOK
  <2>3. (\E i \in DOMAIN sent : Kind(i) = "done") => DoneSent
    <3>1. \A i : Placed(i)[1] # "done"
      BY DEF Placed
    <3>2. <<"error">>[1] # "done"
      OBVIOUS
    <3> QED BY <3>1, <3>2 DEF AnswerInv, EventsPlaced, DoneSent, Kind
  <2>4. (\E i \in DOMAIN sent : Kind(i) = "done") => stored = {text} /\ pushed = {text}
    BY <2>3 DEF AnswerInv, DoneStored
  <2> QED BY <2>1, <2>2, <2>4 DEF DoneIsDurable, AnswerInv, StoredInv
<1> QED BY <1>1, AnswerIsInductive, PTL

-----------------------------------------------------------------------------
(***************************************************************************)
(* ProviderCache.  A call goes through its texts in order: what it has     *)
(* looked up, sent or stored determines which texts it still lacks, and    *)
(* both caches hold for each text the value of that text.                  *)
(***************************************************************************)
CallPlaces == {"new", "look", "send", "store", "done", "failed"}

Shapes ==
  /\ lru \in [Hosts -> Seq(Texts \X Texts)] /\ redis \in SUBSET (Texts \X Texts)
  /\ dropped \in SUBSET Texts /\ evictions \in 0 .. MaxEvictions
  /\ kpc \in [Callers -> CallPlaces]
  /\ input \in [Callers -> Seq(Texts)] /\ looked \in [Callers -> Nat]
  /\ misses \in [Callers -> Seq(Nat)] /\ due \in [Callers -> Nat]
  /\ answer \in [Callers -> Seq(Texts)] /\ attempts \in [Callers -> Nat]
  /\ results \in [Callers -> SUBSET (Nat \X Texts)]
  /\ asked \in [Callers -> SUBSET Texts] /\ known \in [Callers -> SUBSET Texts]
  /\ callFaults \in 0 .. MaxCallFaults

\* Both caches hold under each key what the provider produced for it.
CachesAreTrue ==
  /\ \A h \in Hosts : /\ Len(lru[h]) <= Capacity
                      /\ \A i \in DOMAIN lru[h] : lru[h][i][1] = lru[h][i][2]
  /\ \A e \in redis : e[1] = e[2]

\* Every position that was looked up has its result or is to be embedded.
CallCovers(c) ==
  /\ looked[c] <= Len(input[c])
  /\ \A i \in DOMAIN misses[c] : misses[c][i] \in 1 .. looked[c]
  /\ \A e \in results[c] : e[1] \in 1 .. looked[c] /\ e[2] = input[c][e[1]]
  /\ \A p \in 1 .. looked[c] : p \in Keys(results[c]) \/ \E i \in DOMAIN misses[c] : misses[c][i] = p

\* What is to be done where the call is.
CallStands(c) ==
  /\ kpc[c] = "new" => looked[c] = 0 /\ asked[c] = {}
  /\ kpc[c] = "look" => looked[c] < Len(input[c])
  /\ kpc[c] \in {"send", "store", "done"} => looked[c] = Len(input[c])
  /\ kpc[c] = "send" => Len(misses[c]) > 0
  /\ kpc[c] = "done" => Len(misses[c]) = 0
  /\ kpc[c] = "store" => /\ Len(answer[c]) <= due[c] /\ due[c] <= Len(misses[c]) /\ due[c] > 0
                         /\ \A i \in DOMAIN answer[c] : answer[c][i] = input[c][misses[c][i]]
  /\ due[c] <= BatchOf /\ attempts[c] <= MaxAttempts
  /\ kpc[c] # "failed" => attempts[c] < MaxAttempts

\* What Redis held when the call began it holds or has dropped, and what the call
\* has to ask or has asked for it did not hold or has dropped.
CallKnows(c) ==
  /\ known[c] \subseteq Keys(redis) \cup dropped
  /\ \A i \in DOMAIN misses[c] : input[c][misses[c][i]] \in known[c] => input[c][misses[c][i]] \in dropped
  /\ asked[c] \cap known[c] \subseteq dropped

CallInv(c) == CallCovers(c) /\ CallStands(c) /\ CallKnows(c)

ProviderInv == Shapes /\ CachesAreTrue /\ \A c \in Callers : CallInv(c)

LEMMA InitProvider == ProviderInit => ProviderInv
<1> SUFFICES ASSUME ProviderInit PROVE ProviderInv
  OBVIOUS
<1>1. Shapes
  <2>1. <<>> \in Seq(Texts \X Texts) /\ <<>> \in Seq(Texts) /\ <<>> \in Seq(Nat)
    OBVIOUS
  <2>2. evictions \in 0 .. MaxEvictions /\ callFaults \in 0 .. MaxCallFaults
    BY ProviderAssumption DEF ProviderInit, ProviderAssumption
  <2> QED BY <2>1, <2>2 DEF Shapes, ProviderInit, CallPlaces
<1>2. CachesAreTrue
  BY ProviderAssumption DEF ProviderInit, CachesAreTrue, ProviderAssumption
<1>3. ASSUME NEW c \in Callers PROVE CallInv(c)
  <2>1. /\ kpc[c] = "new" /\ input[c] = <<>> /\ looked[c] = 0 /\ misses[c] = <<>> /\ due[c] = 0
        /\ attempts[c] = 0 /\ results[c] = {} /\ asked[c] = {} /\ known[c] = {}
    BY DEF ProviderInit
  <2>2. CallCovers(c)
    BY <2>1 DEF CallCovers
  <2>3. CallStands(c)
    BY <2>1, ProviderAssumption DEF CallStands, ProviderAssumption
  <2>4. CallKnows(c)
    BY <2>1 DEF CallKnows
  <2> QED BY <2>2, <2>3, <2>4 DEF CallInv
<1> QED BY <1>1, <1>2, <1>3 DEF ProviderInv

\* The list an entry is put at the end of.
LEMMA TouchKeeps ==
  ASSUME NEW list \in Seq(Texts \X Texts), NEW entry \in Texts \X Texts, Len(list) <= Capacity
  PROVE  /\ Touch(list, entry) \in Seq(Texts \X Texts) /\ Len(Touch(list, entry)) <= Capacity
         /\ \A i \in DOMAIN Touch(list, entry) :
              Touch(list, entry)[i] = entry \/ \E j \in DOMAIN list : Touch(list, entry)[i] = list[j]
<1> DEFINE P == {i \in DOMAIN list : list[i][1] # entry[1]}
           rest == AtPlaces(list, P)
           moved == Append(rest, entry)
<1>0. P \in SUBSET (DOMAIN list)
  OBVIOUS
<1> HIDE DEF P
<1>1. /\ rest \in Seq(Texts \X Texts) /\ Len(rest) = Cardinality(P)
      /\ \A k \in DOMAIN rest : \E i \in P : rest[k] = list[i]
  BY <1>0, PlacesAreSublist
<1>2. Len(rest) <= Len(list)
  BY <1>0, <1>1, PlacesAreFew
<1>3. Touch(list, entry) = IF Len(moved) > Capacity THEN Tail(moved) ELSE moved
  BY DEF Touch, P
<1>4. \A k \in DOMAIN rest : \E j \in DOMAIN list : rest[k] = list[j]
  BY <1>0, <1>1
<1> HIDE DEF rest
<1>5. /\ moved \in Seq(Texts \X Texts) /\ Len(moved) = Len(rest) + 1
      /\ \A i \in DOMAIN moved : moved[i] = entry \/ \E j \in DOMAIN list : moved[i] = list[j]
  <2>1. /\ moved \in Seq(Texts \X Texts) /\ Len(moved) = Len(rest) + 1
        /\ DOMAIN moved = 1 .. Len(rest) + 1 /\ DOMAIN rest = 1 .. Len(rest) /\ Len(rest) \in Nat
        /\ moved[Len(rest) + 1] = entry /\ \A i \in DOMAIN rest : moved[i] = rest[i]
    BY <1>1
  <2>2. \A i \in DOMAIN moved : i \in DOMAIN rest \/ i = Len(rest) + 1
    BY <2>1
  <2> QED BY <2>1, <2>2, <1>4
<1> HIDE DEF moved
<1>6. Capacity \in Nat /\ Len(list) \in Nat /\ Len(rest) \in Nat
  BY <1>1, ProviderAssumption DEF ProviderAssumption
<1>7. CASE Len(moved) > Capacity
  <2>1. Len(moved) > 0
    BY <1>5, <1>6
  <2>2. /\ Tail(moved) \in Seq(Texts \X Texts) /\ Len(Tail(moved)) = Len(moved) - 1
        /\ \A i \in DOMAIN Tail(moved) : i + 1 \in DOMAIN moved /\ Tail(moved)[i] = moved[i + 1]
    BY <1>5, <2>1
  <2>3. Len(Tail(moved)) <= Capacity
    BY <1>2, <1>5, <1>6, <2>2
  <2> QED BY <2>2, <2>3, <1>3, <1>5, <1>7
<1>8. CASE ~(Len(moved) > Capacity)
  <2>1. Len(moved) <= Capacity
    BY <1>8, <1>5, <1>6
  <2> QED BY <1>3, <1>5, <1>8, <2>1
<1> QED BY <1>7, <1>8

Same(c) ==
  /\ input'[c] = input[c] /\ looked'[c] = looked[c] /\ misses'[c] = misses[c] /\ due'[c] = due[c]
  /\ answer'[c] = answer[c] /\ attempts'[c] = attempts[c] /\ results'[c] = results[c]
  /\ asked'[c] = asked[c] /\ known'[c] = known[c]

\* Redis loses no text that is not dropped.
RedisKeeps == Keys(redis) \subseteq Keys(redis') \cup dropped' /\ dropped \subseteq dropped'

LEMMA CallTypes ==
  ASSUME Shapes, NEW c \in Callers
  PROVE  /\ kpc[c] \in CallPlaces /\ input[c] \in Seq(Texts) /\ looked[c] \in Nat
         /\ misses[c] \in Seq(Nat) /\ due[c] \in Nat /\ answer[c] \in Seq(Texts)
         /\ attempts[c] \in Nat /\ results[c] \in SUBSET (Nat \X Texts)
         /\ asked[c] \in SUBSET Texts /\ known[c] \in SUBSET Texts
         /\ HostOf[c] \in Hosts /\ lru[HostOf[c]] \in Seq(Texts \X Texts)
BY ProviderAssumption DEF Shapes, ProviderAssumption

\* A call that did nothing, or was given up, stands as it stood.
LEMMA SameCall ==
  ASSUME NEW c \in Callers, CallInv(c), Same(c), RedisKeeps, kpc'[c] = kpc[c] \/ kpc'[c] = "failed"
  PROVE  CallInv(c)'
<1>1. CallCovers(c)'
  BY DEF CallInv, CallCovers, Same, Keys
<1>2. CallStands(c)'
  BY DEF CallInv, CallStands, Same
<1>3. CallKnows(c)'
  BY DEF CallInv, CallKnows, Same, RedisKeeps, Keys
<1> QED BY <1>1, <1>2, <1>3 DEF CallInv

\* The others' calls stand when one takes a step.
OthersRest(c) == \A d \in Callers \ {c} : Same(d) /\ kpc'[d] = kpc[d]

LEMMA OthersStand ==
  ASSUME ProviderInv, NEW c \in Callers, OthersRest(c), RedisKeeps, CallInv(c)'
  PROVE  \A d \in Callers : CallInv(d)'
BY SameCall DEF ProviderInv, OthersRest

LEMMA RememberKeeps ==
  ASSUME ProviderInv, NEW c \in Callers, NEW entry \in Texts \X Texts, entry[1] = entry[2],
         Remember(c, entry)
  PROVE  /\ lru' \in [Hosts -> Seq(Texts \X Texts)]
         /\ \A h \in Hosts : Len(lru'[h]) <= Capacity /\ \A i \in DOMAIN lru'[h] : lru'[h][i][1] = lru'[h][i][2]
<1>1. lru \in [Hosts -> Seq(Texts \X Texts)] /\ HostOf[c] \in Hosts
  BY CallTypes DEF ProviderInv, Shapes
<1>2. \A h \in Hosts : Len(lru[h]) <= Capacity /\ \A i \in DOMAIN lru[h] : lru[h][i][1] = lru[h][i][2]
  BY DEF ProviderInv, CachesAreTrue
<1> DEFINE new == Touch(lru[HostOf[c]], entry)
<1>3. lru' = [lru EXCEPT ![HostOf[c]] = new]
  BY DEF Remember
<1>4. /\ new \in Seq(Texts \X Texts) /\ Len(new) <= Capacity
      /\ \A i \in DOMAIN new : new[i] = entry \/ \E j \in DOMAIN lru[HostOf[c]] : new[i] = lru[HostOf[c]][j]
  <2>1. lru[HostOf[c]] \in Seq(Texts \X Texts) /\ Len(lru[HostOf[c]]) <= Capacity
    BY <1>1, <1>2
  <2> QED BY <2>1, TouchKeeps
<1> HIDE DEF new
<1>5. \A i \in DOMAIN new : new[i][1] = new[i][2]
  BY <1>1, <1>2, <1>4
<1>6. \A h \in Hosts : lru'[h] = lru[h] \/ lru'[h] = new
  BY <1>1, <1>3
<1>7. lru' \in [Hosts -> Seq(Texts \X Texts)]
  BY <1>1, <1>3, <1>4
<1> QED BY <1>2, <1>4, <1>5, <1>6, <1>7

LEMMA CallProviderKeeps ==
  ASSUME ProviderInv, NEW c \in Callers, CallProvider(c)
  PROVE  ProviderInv'
<1>1. PICK list \in Inputs : input' = [input EXCEPT ![c] = list]
  BY DEF CallProvider
<1>2. list \in Seq(Texts) /\ Len(list) > 0
  BY <1>1, ProviderAssumption DEF ProviderAssumption
<1>3. Keys(redis) \in SUBSET Texts
  BY DEF ProviderInv, Shapes, Keys
<1>4. Shapes'
  BY <1>1, <1>2, <1>3 DEF ProviderInv, Shapes, CallProvider, Turn, CallPlaces, cacheVars, workVars
<1>5. CachesAreTrue'
  BY DEF ProviderInv, CachesAreTrue, CallProvider, cacheVars
<1>6. OthersRest(c) /\ RedisKeeps
  BY <1>1 DEF ProviderInv, Shapes, OthersRest, Same, RedisKeeps, CallProvider, Turn, cacheVars, workVars
<1>7. /\ kpc[c] = "new" /\ kpc'[c] = "look" /\ input'[c] = list /\ known'[c] = Keys(redis)
      /\ UNCHANGED <<looked, misses, due, answer, attempts, results, asked, redis, dropped>>
  BY <1>1 DEF ProviderInv, Shapes, CallProvider, Turn, cacheVars, workVars
<1>8. looked[c] = 0 /\ asked[c] = {} /\ (\A i \in DOMAIN misses[c] : FALSE) /\ (\A e \in results[c] : FALSE)
  BY <1>7 DEF ProviderInv, CallInv, CallCovers, CallStands
<1>9. CallCovers(c)'
  BY <1>2, <1>7, <1>8 DEF CallCovers
<1>10. CallStands(c)'
  BY <1>2, <1>7, <1>8 DEF CallStands, ProviderInv, CallInv
<1>11. CallKnows(c)'
  BY <1>7, <1>8 DEF CallKnows, Keys
<1> QED BY <1>4, <1>5, <1>6, <1>9, <1>10, <1>11, OthersStand DEF ProviderInv, CallInv

\* What is found under the next text is what was produced for it.
LEMMA CachedEntries ==
  ASSUME ProviderInv, NEW c \in Callers, kpc[c] = "look"
  PROVE  /\ looked[c] + 1 \in 1 .. Len(input[c]) /\ input[c][looked[c] + 1] \in Texts
         /\ \A entry \in Cached(c) : entry \in Texts \X Texts /\ entry[1] = entry[2]
                                     /\ entry[1] = input[c][looked[c] + 1]
         /\ Cached(c) = {} => input[c][looked[c] + 1] \notin Keys(redis)
<1>1. looked[c] + 1 \in 1 .. Len(input[c]) /\ input[c][looked[c] + 1] \in Texts
  <2>1. looked[c] \in Nat /\ input[c] \in Seq(Texts) /\ looked[c] < Len(input[c])
    BY CallTypes DEF ProviderInv, CallInv, CallStands
  <2>2. looked[c] + 1 \in 1 .. Len(input[c])
    BY <2>1
  <2> QED BY <2>1, <2>2
<1> DEFINE t == input[c][looked[c] + 1]
           list == lru[HostOf[c]]
           near == {e \in {list[i] : i \in DOMAIN list} : e[1] = t}
           far == {e \in redis : e[1] = t}
<1>2. \A e \in near : e \in Texts \X Texts /\ e[1] = e[2] /\ e[1] = t
  <2>1. list \in Seq(Texts \X Texts) /\ \A i \in DOMAIN list : list[i][1] = list[i][2]
    BY CallTypes DEF ProviderInv, CachesAreTrue
  <2> QED BY <2>1
<1>3. \A e \in far : e \in Texts \X Texts /\ e[1] = e[2] /\ e[1] = t
  BY DEF ProviderInv, Shapes, CachesAreTrue
<1>4. Cached(c) = IF near # {} THEN near ELSE far
  BY DEF Cached
<1>5. far = {} => t \notin Keys(redis)
  BY DEF Keys
<1> QED BY <1>1, <1>2, <1>3, <1>4, <1>5

LEMMA AfterLook ==
  ASSUME NEW c \in Callers, NEW missed
  PROVE  /\ After(c, missed) \in {"look", "done", "send"}
         /\ After(c, missed) = "look" <=> looked[c] + 1 < Len(input[c])
         /\ After(c, missed) = "done" => missed = <<>>
         /\ After(c, missed) = "send" => missed # <<>>
BY DEF After

LEMMA HitKeeps ==
  ASSUME ProviderInv, NEW c \in Callers, Hit(c)
  PROVE  ProviderInv'
<1> DEFINE l == looked[c] + 1
<1>1. PICK entry \in Cached(c) : Remember(c, entry) /\ Keep(c, <<l, entry[2]>>)
  BY DEF Hit
<1>2. /\ l \in 1 .. Len(input[c]) /\ looked[c] \in Nat /\ l \in Nat
      /\ entry \in Texts \X Texts /\ entry[1] = entry[2] /\ entry[1] = input[c][l]
  BY <1>1, CachedEntries, CallTypes DEF Hit, ProviderInv
<1>3. /\ lru' \in [Hosts -> Seq(Texts \X Texts)]
      /\ \A h \in Hosts : Len(lru'[h]) <= Capacity /\ \A i \in DOMAIN lru'[h] : lru'[h][i][1] = lru'[h][i][2]
  BY <1>1, <1>2, RememberKeeps
<1>4. After(c, misses[c]) \in CallPlaces
  BY AfterLook DEF CallPlaces
<1>5. <<l, entry[2]>> \in Nat \X Texts
  BY <1>2
<1>6. Shapes'
  BY <1>1, <1>3, <1>4, <1>5, <1>2 DEF ProviderInv, Shapes, Hit, Turn, Keep
<1>7. CachesAreTrue'
  BY <1>3 DEF ProviderInv, CachesAreTrue, Hit
<1>8. OthersRest(c) /\ RedisKeeps
  BY <1>1 DEF ProviderInv, Shapes, OthersRest, Same, RedisKeeps, Hit, Turn, Keep
<1>9. /\ kpc[c] = "look" /\ kpc'[c] = After(c, misses[c]) /\ looked'[c] = l
      /\ results'[c] = results[c] \cup {<<l, entry[2]>>}
      /\ UNCHANGED <<redis, dropped, input, misses, due, answer, attempts, asked, known>>
  BY <1>1 DEF ProviderInv, Shapes, Hit, Turn, Keep
<1>10. CallInv(c) /\ misses[c] \in Seq(Nat) /\ input[c] \in Seq(Texts)
  BY CallTypes DEF ProviderInv
<1>11. CallCovers(c)'
  <2>1. \A i \in DOMAIN misses[c] : misses[c][i] \in 1 .. l
    BY <1>2, <1>10 DEF CallInv, CallCovers
  <2>2. \A e \in results'[c] : e[1] \in 1 .. l /\ e[2] = input[c][e[1]]
    <3>1. \A e \in results[c] : e[1] \in 1 .. looked[c] /\ e[2] = input[c][e[1]]
      BY <1>10 DEF CallInv, CallCovers
    <3>2. l \in 1 .. l /\ 1 .. looked[c] \subseteq 1 .. l
      BY <1>2
    <3> DEFINE new == <<l, entry[2]>>
    <3>3. new[1] \in 1 .. l /\ new[2] = input[c][new[1]]
      <4>1. new[1] = l /\ new[2] = entry[2]
        OBVIOUS
      <4> HIDE DEF new
      <4> QED BY <4>1, <3>2, <1>2
    <3>4. results'[c] = results[c] \cup {new}
      BY <1>9
    <3> HIDE DEF new, l
    <3> QED BY <3>1, <3>2, <3>3, <3>4
  <2>3. \A p \in 1 .. l : p \in Keys(results'[c]) \/ \E i \in DOMAIN misses[c] : misses[c][i] = p
    <3>1. \A p \in 1 .. looked[c] : p \in Keys(results[c]) \/ \E i \in DOMAIN misses[c] : misses[c][i] = p
      BY <1>10 DEF CallInv, CallCovers
    <3>2. Keys(results[c]) \subseteq Keys(results'[c])
      BY <1>9 DEF Keys
    <3>3. l \in Keys(results'[c])
      <4>1. <<l, entry[2]>> \in results'[c] /\ <<l, entry[2]>>[1] = l
        BY <1>9
      <4> HIDE DEF l
      <4> QED BY <4>1 DEF Keys
    <3>4. \A p \in 1 .. l : p \in 1 .. looked[c] \/ p = l
      BY <1>2
    <3> QED BY <3>1, <3>2, <3>3, <3>4
  <2>4. l <= Len(input[c])
    BY <1>2
  <2> HIDE DEF l
  <2> QED BY <2>1, <2>2, <2>3, <2>4, <1>9 DEF CallCovers, Keys
<1>12. CallStands(c)'
  <2>1. After(c, misses[c]) = "look" <=> l < Len(input[c])
    BY AfterLook
  <2>2. After(c, misses[c]) \in {"send", "done"} => l = Len(input[c])
    BY <2>1, <1>2
  <2>3. (After(c, misses[c]) = "send" => Len(misses[c]) > 0) /\ (After(c, misses[c]) = "done" => Len(misses[c]) = 0)
    BY AfterLook, <1>10
  <2>4. After(c, misses[c]) \in {"look", "done", "send"}
    BY AfterLook
  <2> HIDE DEF l
  <2> QED BY <2>1, <2>2, <2>3, <2>4, <1>9, <1>10 DEF CallStands, CallInv
<1>13. CallKnows(c)'
  BY <1>9, <1>10 DEF CallKnows, CallInv, Keys
<1> QED BY <1>6, <1>7, <1>8, <1>11, <1>12, <1>13, OthersStand DEF ProviderInv, CallInv

LEMMA MissKeeps ==
  ASSUME ProviderInv, NEW c \in Callers, Miss(c)
  PROVE  ProviderInv'
<1> DEFINE l == looked[c] + 1
           more == Append(misses[c], l)
<1>1. /\ l \in 1 .. Len(input[c]) /\ looked[c] \in Nat /\ l \in Nat /\ misses[c] \in Seq(Nat)
      /\ input[c][l] \notin Keys(redis) /\ input[c] \in Seq(Texts)
  BY CachedEntries, CallTypes DEF Miss, ProviderInv
<1>2. /\ more \in Seq(Nat) /\ Len(more) = Len(misses[c]) + 1 /\ Len(misses[c]) \in Nat
      /\ DOMAIN misses[c] = 1 .. Len(misses[c]) /\ DOMAIN more = 1 .. Len(misses[c]) + 1
      /\ more[Len(misses[c]) + 1] = l /\ \A i \in DOMAIN misses[c] : more[i] = misses[c][i]
  BY <1>1
<1>3. /\ DOMAIN misses[c] \subseteq DOMAIN more /\ Len(misses[c]) + 1 \in DOMAIN more
      /\ \A i \in DOMAIN more : i \in DOMAIN misses[c] \/ i = Len(misses[c]) + 1
  BY <1>2
<1> HIDE DEF more
<1>4. misses' = [misses EXCEPT ![c] = more] /\ misses'[c] = more
  BY DEF Miss, ProviderInv, Shapes, more
<1>5. After(c, more) \in CallPlaces
  BY AfterLook DEF CallPlaces
<1>6. Shapes'
  BY <1>1, <1>2, <1>4, <1>5 DEF ProviderInv, Shapes, Miss, Turn, cacheVars
<1>7. CachesAreTrue'
  BY DEF ProviderInv, CachesAreTrue, Miss, cacheVars
<1>8. OthersRest(c) /\ RedisKeeps
  BY <1>4 DEF ProviderInv, Shapes, OthersRest, Same, RedisKeeps, Miss, Turn, cacheVars
<1>9. /\ kpc[c] = "look" /\ kpc'[c] = After(c, more) /\ looked'[c] = l
      /\ UNCHANGED <<redis, dropped, input, results, due, answer, attempts, asked, known>>
  BY <1>4 DEF ProviderInv, Shapes, Miss, Turn, cacheVars
<1>10. CallInv(c)
  BY DEF ProviderInv
<1>11. CallCovers(c)'
  <2>1. \A i \in DOMAIN more : more[i] \in 1 .. l
    <3>1. \A i \in DOMAIN misses[c] : misses[c][i] \in 1 .. looked[c]
      BY <1>10 DEF CallInv, CallCovers
    <3>2. l \in 1 .. l /\ 1 .. looked[c] \subseteq 1 .. l
      BY <1>1
    <3> HIDE DEF l
    <3> QED BY <3>1, <3>2, <1>2, <1>3
  <2>2. \A e \in results[c] : e[1] \in 1 .. l /\ e[2] = input[c][e[1]]
    BY <1>1, <1>10 DEF CallInv, CallCovers
  <2>3. \A p \in 1 .. l : p \in Keys(results[c]) \/ \E i \in DOMAIN more : more[i] = p
    <3>1. \A p \in 1 .. looked[c] : p \in Keys(results[c]) \/ \E i \in DOMAIN misses[c] : misses[c][i] = p
      BY <1>10 DEF CallInv, CallCovers
    <3>2. \A p \in 1 .. l : p \in 1 .. looked[c] \/ p = l
      BY <1>1
    <3> QED BY <3>1, <3>2, <1>2, <1>3
  <2>4. l <= Len(input[c])
    BY <1>1
  <2> HIDE DEF l
  <2> QED BY <2>1, <2>2, <2>3, <2>4, <1>4, <1>9 DEF CallCovers, Keys
<1>12. CallStands(c)'
  <2>1. After(c, more) = "look" <=> l < Len(input[c])
    BY AfterLook
  <2>2. After(c, more) \in {"send", "done"} => l = Len(input[c])
    BY <2>1, <1>1
  <2>3. Len(more) > 0 /\ After(c, more) # "done"
    BY AfterLook, <1>2
  <2>4. After(c, more) \in {"look", "done", "send"}
    BY AfterLook
  <2> HIDE DEF l
  <2> QED BY <2>1, <2>2, <2>3, <2>4, <1>4, <1>9, <1>10 DEF CallStands, CallInv
<1>13. CallKnows(c)'
  <2>1. known[c] \subseteq Keys(redis) \cup dropped /\ asked[c] \cap known[c] \subseteq dropped
    BY <1>10 DEF CallInv, CallKnows
  <2>2. \A i \in DOMAIN more : input[c][more[i]] \in known[c] => input[c][more[i]] \in dropped
    <3>1. \A i \in DOMAIN misses[c] : input[c][misses[c][i]] \in known[c] => input[c][misses[c][i]] \in dropped
      BY <1>10 DEF CallInv, CallKnows
    <3>2. input[c][l] \in known[c] => input[c][l] \in dropped
      BY <2>1, <1>1
    <3> HIDE DEF l
    <3> QED BY <3>1, <3>2, <1>2, <1>3
  <2> QED BY <2>1, <2>2, <1>4, <1>9 DEF CallKnows, Keys
<1> QED BY <1>6, <1>7, <1>8, <1>11, <1>12, <1>13, OthersStand DEF ProviderInv, CallInv

LEMMA AnsweredKeeps ==
  ASSUME ProviderInv, NEW c \in Callers, NEW n \in 0 .. Len(Batch(c)), Answered(c, n),
         callFaults' \in 0 .. MaxCallFaults
  PROVE  ProviderInv'
<1> DEFINE m == misses[c]
           b == IF Len(m) < BatchOf THEN Len(m) ELSE BatchOf
           batch == SubSeq(m, 1, b)
           vectors == TextsOf(c, batch)
           given == SubSeq(vectors, 1, n)
           these == {input[c][p] : p \in {batch[i] : i \in DOMAIN batch}}
<1>1. /\ CallInv(c) /\ m \in Seq(Nat) /\ input[c] \in Seq(Texts) /\ looked[c] \in Nat
      /\ BatchOf \in Nat /\ BatchOf > 0 /\ kpc[c] = "send"
  BY CallTypes, ProviderAssumption DEF ProviderInv, ProviderAssumption, Answered
<1>2. Batch(c) = batch
  BY DEF Batch
<1>3. Len(m) \in Nat /\ Len(m) > 0 /\ looked[c] = Len(input[c])
  BY <1>1 DEF CallInv, CallStands
<1>4. b \in 1 .. Len(m) /\ b <= BatchOf
  BY <1>1, <1>3
<1> HIDE DEF b
<1>5. /\ batch \in Seq(Nat) /\ Len(batch) = b /\ DOMAIN batch = 1 .. b
      /\ \A i \in 1 .. b : batch[i] = m[i]
  BY <1>1, <1>3, <1>4
<1>6. DOMAIN m = 1 .. Len(m) /\ 1 .. b \subseteq DOMAIN m
  BY <1>1, <1>3, <1>4
<1>7. \A i \in 1 .. b : m[i] \in DOMAIN input[c] /\ input[c][m[i]] \in Texts
  <2>1. \A i \in DOMAIN m : m[i] \in 1 .. Len(input[c])
    BY <1>1, <1>3 DEF CallInv, CallCovers
  <2> HIDE DEF m
  <2> QED BY <2>1, <1>1, <1>6
<1> HIDE DEF m, batch
<1>8. vectors = [i \in 1 .. b |-> input[c][m[i]]]
  BY <1>5 DEF TextsOf
<1>9. vectors \in Seq(Texts) /\ Len(vectors) = b /\ \A i \in 1 .. b : vectors[i] = input[c][m[i]]
  BY <1>4, <1>7, <1>8
<1> HIDE DEF vectors
<1>10. n \in 0 .. b
  BY <1>2, <1>5
<1>11. /\ given \in Seq(Texts) /\ Len(given) = n /\ DOMAIN given = 1 .. n
       /\ \A i \in DOMAIN given : given[i] = input[c][m[i]]
  BY <1>9, <1>10, <1>4
<1> HIDE DEF given
<1>12. \A t \in these : t \in Texts /\ \E i \in DOMAIN m : t = input[c][m[i]]
  BY <1>5, <1>6, <1>7
<1> HIDE DEF these
<1>13. /\ kpc' = [kpc EXCEPT ![c] = "store"] /\ due' = [due EXCEPT ![c] = b]
       /\ answer' = [answer EXCEPT ![c] = given] /\ asked' = [asked EXCEPT ![c] = @ \cup these]
       /\ attempts' = [attempts EXCEPT ![c] = 0]
       /\ UNCHANGED <<cacheVars, input, looked, misses, results, known>>
  BY <1>2, <1>5 DEF Answered, Turn, given, vectors, these
<1>14. b \in Nat /\ MaxAttempts \in Nat /\ MaxAttempts > 0
  BY <1>4, ProviderAssumption DEF ProviderAssumption
<1>15. Shapes'
  BY <1>11, <1>12, <1>13, <1>14 DEF ProviderInv, Shapes, CallPlaces, cacheVars
<1>16. CachesAreTrue'
  BY <1>13 DEF ProviderInv, CachesAreTrue, cacheVars
<1>17. OthersRest(c) /\ RedisKeeps
  BY <1>13 DEF ProviderInv, Shapes, OthersRest, Same, RedisKeeps, cacheVars
<1>18. /\ kpc'[c] = "store" /\ due'[c] = b /\ answer'[c] = given /\ asked'[c] = asked[c] \cup these
       /\ attempts'[c] = 0
       /\ UNCHANGED <<redis, dropped, input, looked, misses, results, known>>
  BY <1>13 DEF ProviderInv, Shapes, cacheVars
<1>19. CallCovers(c)'
  BY <1>1, <1>18 DEF CallInv, CallCovers, Keys
<1>20. CallStands(c)'
  <2>1. Len(given) <= b /\ b <= Len(m) /\ b > 0
    BY <1>4, <1>10, <1>11, <1>3
  <2> QED BY <2>1, <1>3, <1>4, <1>11, <1>14, <1>18 DEF CallStands, m
<1>21. CallKnows(c)'
  <2>1. these \cap known[c] \subseteq dropped
    BY <1>1, <1>12 DEF CallInv, CallKnows, m
  <2> QED BY <2>1, <1>1, <1>18 DEF CallInv, CallKnows, Keys
<1> QED BY <1>15, <1>16, <1>17, <1>19, <1>20, <1>21, OthersStand DEF ProviderInv, CallInv

LEMMA FaultCounts == ASSUME ProviderInv, Fault PROVE callFaults' \in 0 .. MaxCallFaults
BY ProviderAssumption DEF ProviderInv, Shapes, Fault, ProviderAssumption

LEMMA RetryableKeeps ==
  ASSUME ProviderInv, NEW c \in Callers, Retryable(c)
  PROVE  ProviderInv'
<1>1. callFaults' \in 0 .. MaxCallFaults
  BY FaultCounts DEF Retryable
<1>2. attempts[c] \in Nat /\ CallInv(c) /\ kpc[c] = "send" /\ MaxAttempts \in Nat
  BY CallTypes, ProviderAssumption DEF ProviderInv, Retryable, ProviderAssumption
<1>3. Shapes'
  BY <1>1, <1>2 DEF ProviderInv, Shapes, Retryable, Turn, CallPlaces, cacheVars
<1>4. CachesAreTrue'
  BY DEF ProviderInv, CachesAreTrue, Retryable, cacheVars
<1>5. OthersRest(c) /\ RedisKeeps
  BY DEF ProviderInv, Shapes, OthersRest, Same, RedisKeeps, Retryable, Turn, cacheVars
<1>6. /\ kpc'[c] = (IF attempts[c] + 1 < MaxAttempts THEN "send" ELSE "failed")
      /\ attempts'[c] = attempts[c] + 1
      /\ UNCHANGED <<redis, dropped, input, looked, misses, due, answer, results, asked, known>>
  BY DEF ProviderInv, Shapes, Retryable, Turn, cacheVars
<1>7. CallCovers(c)'
  BY <1>2, <1>6 DEF CallInv, CallCovers, Keys
<1>8. CallStands(c)'
  <2>1. attempts[c] < MaxAttempts
    BY <1>2 DEF CallInv, CallStands
  <2>2. attempts[c] + 1 <= MaxAttempts
    BY <2>1, <1>2
  <2> QED BY <1>2, <1>6, <2>2 DEF CallInv, CallStands
<1>9. CallKnows(c)'
  BY <1>2, <1>6 DEF CallInv, CallKnows, Keys
<1> QED BY <1>3, <1>4, <1>5, <1>7, <1>8, <1>9, OthersStand DEF ProviderInv, CallInv

\* The next pair of the zip.
LEMMA NextPair ==
  ASSUME ProviderInv, NEW c \in Callers, kpc[c] = "store", answer[c] # <<>>
  PROVE  /\ misses[c] \in Seq(Nat) /\ answer[c] \in Seq(Texts) /\ Len(misses[c]) > 0
         /\ Len(misses[c]) \in Nat /\ Len(answer[c]) \in Nat /\ Len(answer[c]) > 0
         /\ Head(misses[c]) = misses[c][1] /\ 1 \in DOMAIN misses[c]
         /\ Head(misses[c]) \in 1 .. Len(input[c]) /\ input[c][Head(misses[c])] \in Texts
         /\ Head(answer[c]) \in Texts /\ Head(answer[c]) = input[c][Head(misses[c])]
<1>1. CallInv(c) /\ misses[c] \in Seq(Nat) /\ answer[c] \in Seq(Texts) /\ due[c] \in Nat /\ input[c] \in Seq(Texts)
  BY CallTypes DEF ProviderInv
<1>2. Len(answer[c]) \in Nat /\ Len(answer[c]) > 0 /\ Len(misses[c]) \in Nat
  BY <1>1
<1>3. Len(misses[c]) > 0
  BY <1>1, <1>2 DEF CallInv, CallStands
<1>4. /\ 1 \in DOMAIN misses[c] /\ 1 \in DOMAIN answer[c]
      /\ Head(misses[c]) = misses[c][1] /\ Head(answer[c]) = answer[c][1] /\ Head(answer[c]) \in Texts
  BY <1>1, <1>2, <1>3
<1>5. Head(answer[c]) = input[c][Head(misses[c])]
  BY <1>1, <1>4 DEF CallInv, CallStands
<1>6. Head(misses[c]) \in 1 .. Len(input[c])
  BY <1>1, <1>4 DEF CallInv, CallCovers, CallStands
<1>7. input[c][Head(misses[c])] \in Texts
  BY <1>1, <1>6
<1> QED BY <1>1, <1>2, <1>3, <1>4, <1>5, <1>6, <1>7

LEMMA StoreKeeps ==
  ASSUME ProviderInv, NEW c \in Callers, Store(c)
  PROVE  ProviderInv'
<1> DEFINE m == misses[c]
           a == answer[c]
           q == Head(m)
           key == input[c][q]
           entry == <<key, Head(a)>>
           made == <<q, Head(a)>>
<1>1. kpc[c] = "store" /\ a # <<>>
  BY DEF Store, StorePair
<1>2. /\ m \in Seq(Nat) /\ a \in Seq(Texts) /\ Len(m) > 0 /\ Len(m) \in Nat /\ Len(a) \in Nat /\ Len(a) > 0
      /\ q = m[1] /\ 1 \in DOMAIN m /\ q \in 1 .. Len(input[c]) /\ key \in Texts /\ Head(a) = key
  BY <1>1, NextPair
<1>3. CallInv(c) /\ due[c] \in Nat /\ looked[c] = Len(input[c]) /\ Len(input[c]) \in Nat /\ BatchOf \in Nat
  BY <1>1, CallTypes, ProviderAssumption DEF ProviderInv, CallInv, CallStands, ProviderAssumption
<1>4. /\ Tail(m) \in Seq(Nat) /\ Len(Tail(m)) = Len(m) - 1
      /\ DOMAIN m = 1 .. Len(m) /\ DOMAIN Tail(m) = 1 .. Len(m) - 1
      /\ \A i \in DOMAIN Tail(m) : i + 1 \in DOMAIN m /\ Tail(m)[i] = m[i + 1]
  BY <1>2
<1>5. /\ Tail(a) \in Seq(Texts) /\ Len(Tail(a)) = Len(a) - 1
      /\ \A i \in DOMAIN Tail(a) : i \in Nat /\ i + 1 \in DOMAIN a /\ Tail(a)[i] = a[i + 1] /\ i <= Len(a) - 1
  BY <1>2
<1>6. /\ kpc' = [kpc EXCEPT ![c] = IF due[c] > 1 THEN "store" ELSE IF Len(m) > 1 THEN "send" ELSE "done"]
      /\ results' = [results EXCEPT ![c] = @ \cup {made}] /\ Remember(c, entry)
      /\ redis' = {e \in redis : e[1] # key} \cup {entry}
      /\ misses' = [misses EXCEPT ![c] = Tail(m)] /\ answer' = [answer EXCEPT ![c] = Tail(a)]
      /\ due' = [due EXCEPT ![c] = due[c] - 1]
      /\ UNCHANGED <<dropped, evictions, input, looked, attempts, asked, known, callFaults>>
  BY DEF Store, StorePair, Keep, Turn, ProviderInv, Shapes
<1>7. /\ entry \in Texts \X Texts /\ entry[1] = key /\ entry[2] = key
      /\ made \in Nat \X Texts /\ made[1] = q /\ made[2] = key
  BY <1>2
<1>8. /\ Len(a) <= due[c] /\ due[c] <= Len(m) /\ due[c] > 0 /\ due[c] <= BatchOf
      /\ \A i \in DOMAIN a : a[i] = input[c][m[i]]
  BY <1>1, <1>3 DEF CallInv, CallStands
<1>9. /\ lru' \in [Hosts -> Seq(Texts \X Texts)]
      /\ \A h \in Hosts : Len(lru'[h]) <= Capacity /\ \A i \in DOMAIN lru'[h] : lru'[h][i][1] = lru'[h][i][2]
  BY <1>6, <1>7, RememberKeeps
<1> HIDE DEF entry, made, key, q, m, a
<1>10. due[c] - 1 \in Nat
  BY <1>3, <1>8
<1>11. Shapes'
  BY <1>4, <1>5, <1>6, <1>7, <1>9, <1>10 DEF ProviderInv, Shapes, CallPlaces
<1>12. CachesAreTrue'
  BY <1>6, <1>7, <1>9 DEF ProviderInv, CachesAreTrue
<1>13. RedisKeeps
  <2>1. \A e \in redis : e[1] = key \/ e \in redis'
    BY <1>6
  <2>2. entry \in redis'
    BY <1>6
  <2> QED BY <2>1, <2>2, <1>6, <1>7 DEF RedisKeeps, Keys
<1>14. OthersRest(c)
  BY <1>6 DEF ProviderInv, Shapes, OthersRest, Same
<1>15. /\ kpc'[c] = (IF due[c] > 1 THEN "store" ELSE IF Len(m) > 1 THEN "send" ELSE "done")
       /\ results'[c] = results[c] \cup {made} /\ misses'[c] = Tail(m) /\ answer'[c] = Tail(a)
       /\ due'[c] = due[c] - 1
       /\ UNCHANGED <<dropped, input, looked, attempts, asked, known>>
  BY <1>6 DEF ProviderInv, Shapes
<1>16. CallCovers(c)'
  <2>1. \A i \in DOMAIN Tail(m) : Tail(m)[i] \in 1 .. looked[c]
    BY <1>3, <1>4 DEF CallInv, CallCovers, m
  <2>2. \A e \in results'[c] : e[1] \in 1 .. looked[c] /\ e[2] = input[c][e[1]]
    <3>1. \A e \in results[c] : e[1] \in 1 .. looked[c] /\ e[2] = input[c][e[1]]
      BY <1>3 DEF CallInv, CallCovers
    <3>2. made[1] \in 1 .. looked[c] /\ made[2] = input[c][made[1]]
      BY <1>2, <1>3, <1>7 DEF key
    <3> QED BY <3>1, <3>2, <1>15
  <2>3. \A p \in 1 .. looked[c] : p \in Keys(results'[c]) \/ \E i \in DOMAIN Tail(m) : Tail(m)[i] = p
    <3> SUFFICES ASSUME NEW p \in 1 .. looked[c], p \notin Keys(results'[c])
                 PROVE  \E i \in DOMAIN Tail(m) : Tail(m)[i] = p
      OBVIOUS
    <3>1. p # q
      BY <1>7, <1>15 DEF Keys
    <3>2. p \notin Keys(results[c])
      BY <1>15 DEF Keys
    <3>3. PICK i \in DOMAIN m : m[i] = p
      BY <3>2, <1>3 DEF CallInv, CallCovers, m
    <3>4. i # 1
      BY <3>1, <3>3, <1>2
    <3>5. i - 1 \in DOMAIN Tail(m) /\ (i - 1) + 1 = i
      BY <3>4, <1>2, <1>4
    <3> QED BY <3>3, <3>5, <1>4
  <2> QED BY <2>1, <2>2, <2>3, <1>3, <1>15 DEF CallCovers, CallInv, Keys
<1>17. CallStands(c)'
  <2>1. \A i \in DOMAIN Tail(a) : Tail(a)[i] = input[c][Tail(m)[i]]
    <3> SUFFICES ASSUME NEW i \in DOMAIN Tail(a) PROVE Tail(a)[i] = input[c][Tail(m)[i]]
      OBVIOUS
    <3>1. Tail(a)[i] = a[i + 1] /\ i + 1 \in DOMAIN a
      BY <1>5
    <3>2. i \in DOMAIN Tail(m)
      <4>1. i \in Nat /\ i <= Len(a) - 1 /\ Len(a) <= Len(m)
        BY <1>5, <1>8, <1>2, <1>3
      <4>2. i >= 1
        BY <1>5, <1>2
      <4> QED BY <4>1, <4>2, <1>2, <1>4
    <3>3. Tail(m)[i] = m[i + 1]
      BY <3>2, <1>4
    <3> QED BY <3>1, <3>3, <1>8
  <2>2. Len(Tail(a)) <= due[c] - 1 /\ due[c] - 1 <= Len(Tail(m)) /\ due[c] - 1 <= BatchOf
    BY <1>2, <1>3, <1>4, <1>5, <1>8
  <2>3. due[c] > 1 => due[c] - 1 > 0
    BY <1>3
  <2>4. (Len(m) > 1 => Len(Tail(m)) > 0) /\ (~(Len(m) > 1) => Len(Tail(m)) = 0)
    BY <1>2, <1>4
  <2>5. attempts[c] <= MaxAttempts /\ attempts[c] < MaxAttempts
    BY <1>1, <1>3 DEF CallInv, CallStands
  <2> QED BY <2>1, <2>2, <2>3, <2>4, <2>5, <1>3, <1>15 DEF CallStands
<1>18. CallKnows(c)'
  <2>1. \A i \in DOMAIN Tail(m) : input[c][Tail(m)[i]] \in known[c] => input[c][Tail(m)[i]] \in dropped
    BY <1>3, <1>4 DEF CallInv, CallKnows, m
  <2>2. known[c] \subseteq Keys(redis') \cup dropped
    BY <1>3, <1>13, <1>15 DEF CallInv, CallKnows, RedisKeeps
  <2> QED BY <2>1, <2>2, <1>3, <1>15 DEF CallInv, CallKnows, Keys
<1> QED BY <1>11, <1>12, <1>13, <1>14, <1>16, <1>17, <1>18, OthersStand DEF ProviderInv, CallInv

LEMMA StoreFailsKeeps ==
  ASSUME ProviderInv, NEW c \in Callers, StoreFails(c)
  PROVE  ProviderInv'
<1> DEFINE q == Head(misses[c])
           key == input[c][q]
           entry == <<key, Head(answer[c])>>
           made == <<q, Head(answer[c])>>
<1>1. kpc[c] = "store" /\ answer[c] # <<>>
  BY DEF StoreFails
<1>2. /\ q \in 1 .. Len(input[c]) /\ key \in Texts /\ Head(answer[c]) = key
      /\ CallInv(c) /\ looked[c] = Len(input[c]) /\ q \in Nat
  <2>1. q \in 1 .. Len(input[c]) /\ key \in Texts /\ Head(answer[c]) = key
    BY <1>1, NextPair
  <2>2. CallInv(c) /\ looked[c] = Len(input[c])
    BY <1>1 DEF ProviderInv, CallInv, CallStands
  <2> HIDE DEF q, key
  <2> QED BY <2>1, <2>2
<1>3. /\ entry \in Texts \X Texts /\ entry[1] = key /\ entry[2] = key
      /\ made \in Nat \X Texts /\ made[1] = q /\ made[2] = key
  BY <1>2
<1>4. Remember(c, entry) /\ Keep(c, made)
  BY DEF StoreFails
<1>5. /\ lru' \in [Hosts -> Seq(Texts \X Texts)]
      /\ \A h \in Hosts : Len(lru'[h]) <= Capacity /\ \A i \in DOMAIN lru'[h] : lru'[h][i][1] = lru'[h][i][2]
  BY <1>3, <1>4, RememberKeeps
<1> HIDE DEF entry, made
<1>6. callFaults' \in 0 .. MaxCallFaults
  BY FaultCounts DEF StoreFails
<1>7. Shapes'
  <2>1. /\ kpc' = [kpc EXCEPT ![c] = "failed"] /\ results' = [results EXCEPT ![c] = @ \cup {made}]
        /\ UNCHANGED <<redis, dropped, evictions, input, looked, misses, due, answer, attempts, asked, known>>
    BY <1>4 DEF StoreFails, Turn, Keep
  <2> QED BY <1>3, <1>5, <1>6, <2>1 DEF ProviderInv, Shapes, CallPlaces
<1>8. CachesAreTrue'
  BY <1>5 DEF ProviderInv, CachesAreTrue, StoreFails
<1>9. OthersRest(c) /\ RedisKeeps
  BY <1>4 DEF ProviderInv, Shapes, OthersRest, Same, RedisKeeps, StoreFails, Turn, Keep
<1>10. /\ kpc'[c] = "failed" /\ results'[c] = results[c] \cup {made}
       /\ UNCHANGED <<redis, dropped, input, looked, misses, due, answer, attempts, asked, known>>
  BY <1>4 DEF ProviderInv, Shapes, StoreFails, Turn, Keep
<1>11. CallCovers(c)'
  <2>1. \A e \in results'[c] : e[1] \in 1 .. looked[c] /\ e[2] = input[c][e[1]]
    <3>1. \A e \in results[c] : e[1] \in 1 .. looked[c] /\ e[2] = input[c][e[1]]
      BY <1>2 DEF CallInv, CallCovers
    <3>2. made[1] \in 1 .. looked[c] /\ made[2] = input[c][made[1]]
      BY <1>2, <1>3
    <3> QED BY <3>1, <3>2, <1>10
  <2>2. Keys(results[c]) \subseteq Keys(results'[c])
    BY <1>10 DEF Keys
  <2> QED BY <2>1, <2>2, <1>2, <1>10 DEF CallCovers, CallInv, Keys
<1>12. CallStands(c)'
  BY <1>2, <1>10 DEF CallStands, CallInv
<1>13. CallKnows(c)'
  BY <1>2, <1>10 DEF CallKnows, CallInv, Keys
<1> QED BY <1>7, <1>8, <1>9, <1>11, <1>12, <1>13, OthersStand DEF ProviderInv, CallInv

\* A call given up, Redis making room and a restart leave the calls as they are.
LEMMA GivingUpKeeps ==
  ASSUME ProviderInv, \/ \E c \in Callers : NoticeShort(c) \/ CallFails(c)
                      \/ Evict \/ \E h \in Hosts : HostRestarts(h)
  PROVE  ProviderInv'
<1>1. CASE \E c \in Callers : NoticeShort(c) \/ CallFails(c)
  <2>1. PICK c \in Callers : NoticeShort(c) \/ CallFails(c)
    BY <1>1
  <2>2. callFaults' \in 0 .. MaxCallFaults
    BY <2>1, FaultCounts DEF NoticeShort, CallFails, ProviderInv, Shapes
  <2>3. Shapes'
    BY <2>1, <2>2 DEF ProviderInv, Shapes, NoticeShort, CallFails, Turn, CallPlaces, cacheVars, workVars
  <2>4. CachesAreTrue'
    BY <2>1 DEF ProviderInv, CachesAreTrue, NoticeShort, CallFails, cacheVars
  <2>5. \A d \in Callers : Same(d) /\ (kpc'[d] = kpc[d] \/ kpc'[d] = "failed")
    BY <2>1 DEF ProviderInv, Shapes, Same, NoticeShort, CallFails, Turn, cacheVars, workVars
  <2>6. RedisKeeps
    BY <2>1 DEF RedisKeeps, NoticeShort, CallFails, cacheVars
  <2> QED BY <2>3, <2>4, <2>5, <2>6, SameCall DEF ProviderInv
<1>2. CASE Evict
  <2>1. PICK e \in redis : redis' = redis \ {e} /\ dropped' = dropped \cup {e[1]}
    BY <1>2 DEF Evict
  <2>2. e[1] \in Texts
    BY <2>1 DEF ProviderInv, Shapes
  <2>3. evictions' \in 0 .. MaxEvictions
    BY <1>2, ProviderAssumption DEF Evict, ProviderInv, Shapes, ProviderAssumption
  <2>4. UNCHANGED <<lru, callVars>>
    BY <1>2 DEF Evict
  <2>5. Shapes'
    BY <2>1, <2>2, <2>3, <2>4 DEF ProviderInv, Shapes, callVars, workVars
  <2>6. CachesAreTrue'
    BY <2>1, <2>4 DEF ProviderInv, CachesAreTrue
  <2>7. \A d \in Callers : Same(d) /\ kpc'[d] = kpc[d]
    BY <2>4 DEF Same, callVars, workVars
  <2>8. RedisKeeps
    BY <2>1 DEF RedisKeeps, Keys
  <2> QED BY <2>5, <2>6, <2>7, <2>8, SameCall DEF ProviderInv
<1>3. CASE \E h \in Hosts : HostRestarts(h)
  <2>1. PICK h \in Hosts : HostRestarts(h)
    BY <1>3
  <2>2. callFaults' \in 0 .. MaxCallFaults
    BY <2>1, FaultCounts DEF HostRestarts
  <2>3. <<>> \in Seq(Texts \X Texts) /\ Len(<<>>) = 0 /\ Capacity \in Nat
    BY ProviderAssumption DEF ProviderAssumption
  <2>4. \A g \in Hosts : lru'[g] = lru[g] \/ lru'[g] = <<>>
    BY <2>1 DEF HostRestarts, ProviderInv, Shapes
  <2>5. Shapes'
    BY <2>1, <2>2, <2>3 DEF ProviderInv, Shapes, HostRestarts, CallPlaces, workVars
  <2>6. CachesAreTrue'
    BY <2>1, <2>3, <2>4 DEF ProviderInv, CachesAreTrue, HostRestarts
  <2>7. \A d \in Callers : Same(d) /\ (kpc'[d] = kpc[d] \/ kpc'[d] = "failed")
    BY <2>1 DEF Same, HostRestarts, workVars
  <2>8. RedisKeeps
    BY <2>1 DEF RedisKeeps, HostRestarts
  <2> QED BY <2>5, <2>6, <2>7, <2>8, SameCall DEF ProviderInv
<1> QED BY <1>1, <1>2, <1>3

LEMMA StutterKeeps == ASSUME ProviderInv, UNCHANGED providerVars PROVE ProviderInv'
<1>1. Shapes' /\ CachesAreTrue'
  BY DEF ProviderInv, Shapes, CachesAreTrue, providerVars, cacheVars, callVars, workVars
<1>2. \A d \in Callers : Same(d) /\ kpc'[d] = kpc[d]
  BY DEF Same, providerVars, callVars, workVars
<1>3. RedisKeeps
  BY DEF RedisKeeps, providerVars, cacheVars
<1> QED BY <1>1, <1>2, <1>3, SameCall DEF ProviderInv

\* Every call and both caches stand as they should.
THEOREM ProviderIsInductive == ProviderSpec => []ProviderInv
<1>1. ASSUME ProviderInv, [ProviderNext]_providerVars PROVE ProviderInv'
  <2> USE <1>1
  <2>1. ASSUME NEW c \in Callers, Embed(c) \/ EmbedShort(c) PROVE ProviderInv'
    <3>1. PICK n \in 0 .. Len(Batch(c)) : Answered(c, n) /\ callFaults' \in 0 .. MaxCallFaults
      <4>1. Len(Batch(c)) \in Nat
        <5>1. misses[c] \in Seq(Nat) /\ BatchOf \in Nat
          BY CallTypes, ProviderAssumption DEF ProviderInv, ProviderAssumption
        <5>2. Batch(c) \in Seq(Nat)
          BY <5>1 DEF Batch
        <5> QED BY <5>2
      <4>2. CASE Embed(c)
        BY <4>1, <4>2 DEF Embed, ProviderInv, Shapes
      <4>3. CASE EmbedShort(c)
        BY <4>1, <4>3, FaultCounts DEF EmbedShort
      <4> QED BY <2>1, <4>2, <4>3
    <3> QED BY <3>1, AnsweredKeeps
  <2> QED BY <2>1, StutterKeeps, GivingUpKeeps, CallProviderKeeps, HitKeeps, MissKeeps, RetryableKeeps,
          StoreKeeps, StoreFailsKeeps DEF ProviderNext, ProviderStep
<1> QED BY <1>1, InitProvider, PTL DEF ProviderSpec

\* Every result and every cached value is what the provider produced for its
\* text.
THEOREM ValuesAreTheirTexts == ProviderSpec => []ValuesBelongToTexts
<1>1. ProviderInv => ValuesBelongToTexts
  <2> SUFFICES ASSUME ProviderInv PROVE ValuesBelongToTexts
    OBVIOUS
  <2>1. ASSUME NEW c \in Callers, kpc[c] = "done" PROVE Keys(results[c]) = DOMAIN input[c]
    <3>1. CallInv(c) /\ input[c] \in Seq(Texts) /\ misses[c] \in Seq(Nat)
      BY CallTypes DEF ProviderInv
    <3>2. looked[c] = Len(input[c]) /\ Len(misses[c]) = 0 /\ DOMAIN input[c] = 1 .. looked[c] /\ DOMAIN misses[c] = {}
      BY <3>1, <2>1 DEF CallInv, CallStands
    <3>3. \A p \in 1 .. looked[c] : p \in Keys(results[c])
      BY <3>1, <3>2 DEF CallInv, CallCovers
    <3>4. \A p \in Keys(results[c]) : p \in 1 .. looked[c]
      BY <3>1 DEF CallInv, CallCovers, Keys
    <3> QED BY <3>2, <3>3, <3>4
  <2> QED BY <2>1 DEF ProviderInv, CachesAreTrue, CallInv, CallCovers, ValuesBelongToTexts
<1> QED BY <1>1, ProviderIsInductive, PTL

\* A text Redis held when the call began is asked for only if Redis dropped it.
THEOREM CachedIsPaidOnce == ProviderSpec => []CachedIsNotAskedAgain
<1>1. ProviderInv => CachedIsNotAskedAgain
  BY DEF ProviderInv, CallInv, CallKnows, CachedIsNotAskedAgain
<1> QED BY <1>1, ProviderIsInductive, PTL

\* The cache and its calls have the types they are declared with.
THEOREM ProviderTyped == ProviderSpec => []ProviderTypeOK
<1>1. ProviderInv => ProviderTypeOK
  <2> SUFFICES ASSUME ProviderInv PROVE ProviderTypeOK
    OBVIOUS
  <2>1. ASSUME NEW c \in Callers
        PROVE  /\ looked[c] \in 0 .. Len(input[c]) /\ misses[c] \in Seq(DOMAIN input[c])
               /\ due[c] \in 0 .. BatchOf /\ attempts[c] \in 0 .. MaxAttempts
               /\ results[c] \in SUBSET ((DOMAIN input[c]) \X Texts)
    <3>1. CallInv(c) /\ input[c] \in Seq(Texts) /\ misses[c] \in Seq(Nat) /\ looked[c] \in Nat
          /\ results[c] \in SUBSET (Nat \X Texts) /\ due[c] \in Nat /\ attempts[c] \in Nat
      BY CallTypes DEF ProviderInv
    <3>2. looked[c] \in 0 .. Len(input[c]) /\ 1 .. looked[c] \subseteq DOMAIN input[c]
      BY <3>1 DEF CallInv, CallCovers
    <3>3. misses[c] \in Seq(DOMAIN input[c])
      <4>1. \A i \in DOMAIN misses[c] : misses[c][i] \in DOMAIN input[c]
        BY <3>1, <3>2 DEF CallInv, CallCovers
      <4>2. DOMAIN misses[c] = 1 .. Len(misses[c])
        BY <3>1, Elements
      <4> QED BY <3>1, <4>1, <4>2, Retyped
    <3>4. due[c] \in 0 .. BatchOf /\ attempts[c] \in 0 .. MaxAttempts
      BY <3>1, ProviderAssumption DEF CallInv, CallStands, ProviderAssumption
    <3>5. results[c] \in SUBSET ((DOMAIN input[c]) \X Texts)
      <4>1. \A e \in results[c] : e[1] \in DOMAIN input[c]
        BY <3>1, <3>2 DEF CallInv, CallCovers
      <4> QED BY <4>1, <3>1
    <3> QED BY <3>2, <3>3, <3>4, <3>5
  <2> QED BY <2>1 DEF ProviderInv, Shapes, CachesAreTrue, ProviderTypeOK, CallPlaces
<1> QED BY <1>1, ProviderIsInductive, PTL

-----------------------------------------------------------------------------
(***************************************************************************)
(* Retrieval.  The candidates are the best hits of all searches, each      *)
(* once; scores are cached under the text they were given for; and the     *)
(* result is a sublist of the ranking that the reranker or the dense       *)
(* scores give.                                                            *)
(***************************************************************************)
\* j comes before i in the order of descending scores.
Better(score) ==
  {p \in (DOMAIN score) \X (DOMAIN score) :
     score[p[1]] > score[p[2]] \/ (score[p[1]] = score[p[2]] /\ p[1] < p[2])}

LEMMA BetterOrders ==
  ASSUME NEW S \in SUBSET Int, NEW score \in [S -> Int]
  PROVE  /\ Orders(Better(score), S)
         /\ \A i, j \in S : <<j, i>> \in Better(score) <=>
              score[j] > score[i] \/ (score[j] = score[i] /\ j < i)
<1>1. \A i, j \in S : <<j, i>> \in Better(score) <=>
         score[j] > score[i] \/ (score[j] = score[i] /\ j < i)
  BY DEF Better
<1>2. \A i \in S : i \in Int /\ score[i] \in Int
  OBVIOUS
<1>3. \A i \in S : <<i, i>> \notin Better(score)
  BY <1>1, <1>2
<1>4. \A i, j \in S : i # j => <<i, j>> \in Better(score) \/ <<j, i>> \in Better(score)
  BY <1>1, <1>2
<1>5. \A i, j, k \in S : <<i, j>> \in Better(score) /\ <<j, k>> \in Better(score) => <<i, k>> \in Better(score)
  BY <1>1, <1>2
<1> QED BY <1>1, <1>3, <1>4, <1>5 DEF Orders

\* Descending lists the positions by descending score.
LEMMA DescendingLists ==
  ASSUME NEW S \in SUBSET Int, IsFiniteSet(S), NEW score \in [S -> Int]
  PROVE  /\ Cardinality(S) \in Nat
         /\ Descending(score) \in [1 .. Cardinality(S) -> S]
         /\ \A k, l \in 1 .. Cardinality(S) :
              k < l => score[Descending(score)[k]] >= score[Descending(score)[l]]
         /\ \A k, l \in 1 .. Cardinality(S) : Descending(score)[k] = Descending(score)[l] => k = l
         /\ \A i \in S : \E k \in 1 .. Cardinality(S) : Descending(score)[k] = i
<1> DEFINE R == Better(score)
           order == Descending(score)
<1>1. Orders(R, S) /\ Cardinality(S) \in Nat
  BY BetterOrders, FS_CardinalityType
<1>2. \A i \in S : {j \in S : score[j] > score[i] \/ (score[j] = score[i] /\ j < i)} = Ahead(i, R, S)
  BY BetterOrders DEF Ahead
<1>3. order = [k \in 1 .. Cardinality(S) |-> CHOOSE i \in S : Rank(i, R, S) = k - 1]
  <2>1. DOMAIN score = S
    OBVIOUS
  <2>2. order = [k \in 1 .. Cardinality(S) |->
                   CHOOSE i \in S : Cardinality({j \in S : score[j] > score[i] \/ (score[j] = score[i] /\ j < i)}) = k - 1]
    BY <2>1 DEF Descending, Sorted
  <2>3. \A k : (CHOOSE i \in S : Cardinality({j \in S : score[j] > score[i] \/ (score[j] = score[i] /\ j < i)}) = k - 1)
               = (CHOOSE i \in S : Rank(i, R, S) = k - 1)
    BY <1>2 DEF Rank
  <2> QED BY <2>2, <2>3
<1> HIDE DEF R
<1>4. \A k \in 1 .. Cardinality(S) : order[k] \in S /\ Rank(order[k], R, S) = k - 1
  <2> SUFFICES ASSUME NEW k \in 1 .. Cardinality(S) PROVE order[k] \in S /\ Rank(order[k], R, S) = k - 1
    OBVIOUS
  <2>1. \E i \in S : Rank(i, R, S) = k - 1
    BY <1>1, RankExists
  <2>2. order[k] = CHOOSE i \in S : Rank(i, R, S) = k - 1
    BY <1>3
  <2> HIDE DEF order
  <2> QED BY <2>1, <2>2
<1>5. order \in [1 .. Cardinality(S) -> S]
  BY <1>3, <1>4
<1> HIDE DEF order
<1>6. Lists(order, R, S)
  BY <1>1, <1>4, <1>5, OrderLists
<1>7. \A i, j \in S : <<j, i>> \in R => score[j] >= score[i]
  BY BetterOrders DEF R
<1>8. \A k, l \in 1 .. Cardinality(S) : k < l => score[order[k]] >= score[order[l]]
  BY <1>5, <1>6, <1>7 DEF Lists
<1> QED BY <1>1, <1>5, <1>6, <1>8 DEF Lists, order

\* The first elements of a list.
LEMMA CutKeeps ==
  ASSUME NEW S, NEW list \in Seq(S), NEW n \in Nat
  PROVE  /\ Cut(list, n) \in Seq(S) /\ Len(Cut(list, n)) <= n /\ Len(Cut(list, n)) <= Len(list)
         /\ Len(Cut(list, n)) \in {n, Len(list)}
         /\ \A i \in DOMAIN Cut(list, n) : i \in DOMAIN list /\ Cut(list, n)[i] = list[i]
<1> DEFINE m == IF Len(list) < n THEN Len(list) ELSE n
<1>1. m \in 0 .. Len(list) /\ m <= n /\ m \in {n, Len(list)}
  OBVIOUS
<1>2. Cut(list, n) = SubSeq(list, 1, m)
  BY DEF Cut
<1> HIDE DEF m
<1>3. /\ SubSeq(list, 1, m) \in Seq(S) /\ Len(SubSeq(list, 1, m)) = m
      /\ \A i \in DOMAIN SubSeq(list, 1, m) : i \in DOMAIN list /\ SubSeq(list, 1, m)[i] = list[i]
  BY <1>1
<1> QED BY <1>1, <1>2, <1>3

\* Lists joined are a list.
LEMMA JoinedLists ==
  ASSUME NEW S, NEW seqs \in Seq(Seq(S))
  PROVE  FlattenSeq(seqs) \in Seq(S)
<1> DEFINE n == Len(seqs)
<1>1. n \in Nat /\ DOMAIN seqs = 1 .. n /\ \A i \in 1 .. n : seqs[i] \in Seq(S)
  OBVIOUS
<1>2. CASE n = 0
  <2>1. seqs = <<>>
    BY <1>2
  <2> QED BY <1>2, <2>1 DEF FlattenSeq
<1>3. CASE n # 0
  <2> DEFINE Joins(g, k) == g \in [1 .. k -> Seq(S)]
               /\ \A i \in 1 .. k : g[i] = IF i = 1 THEN seqs[i] ELSE g[i - 1] \o seqs[i]
             T == {k \in Nat : k <= n => \E g : Joins(g, k)}
  <2>1. T \in SUBSET Nat
    OBVIOUS
  <2>2. 0 \in T
    <3>1. Joins([i \in 1 .. 0 |-> seqs], 0)
      OBVIOUS
    <3> QED BY <3>1
  <2>3. ASSUME NEW k \in T PROVE k + 1 \in T
    <3>1. k \in Nat /\ k + 1 \in Nat
      BY <2>1
    <3>2. SUFFICES ASSUME k + 1 <= n PROVE \E g : Joins(g, k + 1)
      BY <3>1
    <3>3. PICK g : Joins(g, k)
      BY <3>1, <3>2
    <3> DEFINE h == [i \in 1 .. k + 1 |-> IF i = k + 1 THEN (IF k = 0 THEN seqs[1] ELSE g[k] \o seqs[k + 1])
                                          ELSE g[i]]
    <3>4. k + 1 \in 1 .. n /\ seqs[k + 1] \in Seq(S) /\ seqs[1] \in Seq(S)
      BY <1>1, <1>3, <3>1, <3>2
    <3>5. k # 0 => k \in 1 .. k /\ g[k] \in Seq(S)
      BY <3>1, <3>3
    <3>6. (IF k = 0 THEN seqs[1] ELSE g[k] \o seqs[k + 1]) \in Seq(S)
      BY <3>4, <3>5
    <3>7. \A i \in 1 .. k + 1 : i = k + 1 \/ i \in 1 .. k
      BY <3>1
    <3>8. h \in [1 .. k + 1 -> Seq(S)]
      BY <3>3, <3>6, <3>7
    <3>9. \A i \in 1 .. k + 1 : h[i] = IF i = 1 THEN seqs[i] ELSE h[i - 1] \o seqs[i]
      <4> SUFFICES ASSUME NEW i \in 1 .. k + 1 PROVE h[i] = IF i = 1 THEN seqs[i] ELSE h[i - 1] \o seqs[i]
        OBVIOUS
      <4>1. CASE i \in 1 .. k
        <5>1. h[i] = g[i] /\ (i # 1 => i - 1 \in 1 .. k + 1 /\ h[i - 1] = g[i - 1])
          BY <4>1, <3>1
        <5> QED BY <4>1, <5>1, <3>3
      <4>2. CASE i = k + 1
        <5>1. CASE k = 0
          BY <4>2, <5>1
        <5>2. CASE k # 0
          <6>1. k \in 1 .. k + 1 /\ k # k + 1 /\ i # 1 /\ i - 1 = k
            BY <4>2, <5>2, <3>1
          <6>2. h[k] = g[k]
            BY <6>1
          <6>3. h[i] = g[k] \o seqs[i]
            BY <4>2, <5>2
          <6> HIDE DEF h
          <6> QED BY <6>1, <6>2, <6>3
        <5> QED BY <5>1, <5>2
      <4> QED BY <4>1, <4>2, <3>7
    <3> HIDE DEF h
    <3>10. Joins(h, k + 1)
      BY <3>8, <3>9
    <3> QED BY <3>10
  <2> HIDE DEF Joins
  <2>4. n \in T
    BY <1>1, <2>1, <2>2, <2>3, NaturalsByInduction
  <2>5. \E g : Joins(g, n)
    BY <1>1, <2>4
  <2> DEFINE E(f) == [i \in 1 .. n |-> IF i = 1 THEN seqs[i] ELSE f[i - 1] \o seqs[i]]
             flat == CHOOSE f : f = E(f)
  <2>6. \E f : f = E(f)
    <3>1. PICK g : Joins(g, n)
      BY <2>5
    <3>2. g = E(g)
      BY <3>1 DEF Joins
    <3> QED BY <3>2
  <2>7. flat = E(flat)
    BY <2>6
  <2>8. FlattenSeq(seqs) = flat[n]
    BY <1>3 DEF FlattenSeq
  <2> HIDE DEF flat
  <2> DEFINE U == {k \in Nat : k \in 1 .. n => flat[k] \in Seq(S)}
  <2>9. U \in SUBSET Nat /\ 0 \in U
    OBVIOUS
  <2>10. ASSUME NEW k \in U PROVE k + 1 \in U
    <3>1. k \in Nat
      BY <2>9
    <3>2. SUFFICES ASSUME k + 1 \in 1 .. n PROVE flat[k + 1] \in Seq(S)
      BY <3>1
    <3>3. flat[k + 1] = IF k + 1 = 1 THEN seqs[k + 1] ELSE flat[k] \o seqs[k + 1]
      <4>1. \A f, i : i \in 1 .. n => E(f)[i] = IF i = 1 THEN seqs[i] ELSE f[i - 1] \o seqs[i]
        OBVIOUS
      <4>2. E(flat)[k + 1] = IF k + 1 = 1 THEN seqs[k + 1] ELSE flat[(k + 1) - 1] \o seqs[k + 1]
        BY <4>1, <3>2
      <4>3. (k + 1) - 1 = k
        BY <3>1
      <4> HIDE DEF E
      <4> QED BY <2>7, <4>2, <4>3
    <3>4. k + 1 # 1 => k \in 1 .. n /\ flat[k] \in Seq(S)
      BY <3>1, <3>2, <1>1
    <3> QED BY <3>2, <3>3, <3>4, <1>1
  <2>11. n \in U
    BY <1>1, <2>9, <2>10, NaturalsByInduction
  <2> QED BY <1>1, <1>3, <2>8, <2>11
<1> QED BY <1>2, <1>3

Firsts(flat) == {i \in DOMAIN flat : \A j \in 1 .. i - 1 : flat[j].id # flat[i].id}
SameId(flat, i) == {j \in DOMAIN flat : flat[j].id = flat[i].id}
BestOf(flat, i) ==
  CHOOSE j \in SameId(flat, i) : \A k \in SameId(flat, i) :
    flat[j].dense > flat[k].dense \/ (flat[j].dense = flat[k].dense /\ j <= k)

LEMMA BestExists ==
  ASSUME NEW flat \in Seq(Hits), NEW i \in DOMAIN flat
  PROVE  /\ BestOf(flat, i) \in DOMAIN flat /\ flat[BestOf(flat, i)].id = flat[i].id
         /\ \A k \in DOMAIN flat : flat[k].id = flat[i].id => flat[BestOf(flat, i)].dense >= flat[k].dense
<1> DEFINE S == SameId(flat, i)
           score == [j \in S |-> flat[j].dense]
           R == Better(score)
<1>1. Len(flat) \in Nat /\ DOMAIN flat = 1 .. Len(flat) /\ \A j \in DOMAIN flat : flat[j] \in Hits
  OBVIOUS
<1>2. \A j \in DOMAIN flat : flat[j].dense \in Int
  BY <1>1, RetrievalAssumption DEF RetrievalAssumption
<1>3. S \in SUBSET (DOMAIN flat) /\ i \in S /\ S \in SUBSET Int
  BY <1>1 DEF SameId
<1>4. IsFiniteSet(S)
  BY <1>3, PlacesAreFew
<1>5. score \in [S -> Int]
  BY <1>2, <1>3
<1>6. /\ Orders(R, S)
      /\ \A j, k \in S : <<j, k>> \in R <=> flat[j].dense > flat[k].dense \/ (flat[j].dense = flat[k].dense /\ j < k)
  <2>1. /\ Orders(R, S)
        /\ \A k, j \in S : <<j, k>> \in R <=> score[j] > score[k] \/ (score[j] = score[k] /\ j < k)
    <3> HIDE DEF score, S
    <3> QED BY <1>3, <1>5, BetterOrders
  <2> QED BY <2>1
<1>7. \E j \in S : Rank(j, R, S) = 0
  <2>1. Cardinality(S) \in Nat /\ Cardinality(S) # 0
    BY <1>3, <1>4, FS_CardinalityType, FS_EmptySet
  <2>2. 1 \in 1 .. Cardinality(S) /\ 1 - 1 = 0
    BY <2>1
  <2> HIDE DEF R, S
  <2> QED BY <1>4, <1>6, <2>2, RankExists
<1>8. PICK j \in S : Rank(j, R, S) = 0
  BY <1>7
<1>9. Ahead(j, R, S) = {}
  <2>1. Ahead(j, R, S) \in SUBSET S
    BY DEF Ahead
  <2> QED BY <1>4, <1>8, <2>1, FS_Subset, FS_EmptySet DEF Rank
<1>10. \A k \in S : flat[j].dense > flat[k].dense \/ (flat[j].dense = flat[k].dense /\ j <= k)
  <2> SUFFICES ASSUME NEW k \in S
               PROVE flat[j].dense > flat[k].dense \/ (flat[j].dense = flat[k].dense /\ j <= k)
    OBVIOUS
  <2>1. <<k, j>> \notin R
    BY <1>9 DEF Ahead
  <2>2. k # j => <<j, k>> \in R
    BY <2>1, <1>6 DEF Orders
  <2>3. CASE k = j
    BY <2>3, <1>3
  <2>4. CASE k # j
    <3>1. flat[j].dense > flat[k].dense \/ (flat[j].dense = flat[k].dense /\ j < k)
      BY <2>2, <2>4, <1>6
    <3> QED BY <3>1, <1>3
  <2> QED BY <2>3, <2>4
<1> HIDE DEF S
<1>11. /\ BestOf(flat, i) \in S
       /\ \A k \in S : flat[BestOf(flat, i)].dense > flat[k].dense
                       \/ (flat[BestOf(flat, i)].dense = flat[k].dense /\ BestOf(flat, i) <= k)
  BY <1>10 DEF BestOf, S
<1>12. \A k \in DOMAIN flat : flat[k].id = flat[i].id => k \in S
  BY DEF S, SameId
<1>13. BestOf(flat, i) \in DOMAIN flat /\ flat[BestOf(flat, i)].id = flat[i].id
  BY <1>11 DEF S, SameId
<1> QED BY <1>2, <1>11, <1>12, <1>13

\* One hit per point, at its best score.
LEMMA MergedHits ==
  ASSUME NEW flat \in Seq(Hits)
  PROVE  /\ Merged(flat) \in Seq(Hits)
         /\ \A k \in DOMAIN Merged(flat) : \E i \in DOMAIN flat : Merged(flat)[k] = flat[i]
         /\ \A k, l \in DOMAIN Merged(flat) : k < l => Merged(flat)[k].dense >= Merged(flat)[l].dense
         /\ \A k, l \in DOMAIN Merged(flat) : Merged(flat)[k].id = Merged(flat)[l].id => k = l
         /\ \A i \in DOMAIN flat : \E k \in DOMAIN Merged(flat) :
              Merged(flat)[k].id = flat[i].id /\ Merged(flat)[k].dense >= flat[i].dense
<1> DEFINE F == Firsts(flat)
           score == [i \in F |-> flat[BestOf(flat, i)].dense]
           order == Descending(score)
           n == Cardinality(F)
<1>1. Len(flat) \in Nat /\ DOMAIN flat = 1 .. Len(flat) /\ \A j \in DOMAIN flat : flat[j] \in Hits
  OBVIOUS
<1>2. \A j \in DOMAIN flat : flat[j].dense \in Int
  BY <1>1, RetrievalAssumption DEF RetrievalAssumption
<1>3. F \in SUBSET (DOMAIN flat) /\ F \in SUBSET Int
  BY <1>1 DEF Firsts
<1>4. IsFiniteSet(F)
  BY <1>3, PlacesAreFew
<1>5. \A i \in F : BestOf(flat, i) \in DOMAIN flat /\ flat[BestOf(flat, i)].id = flat[i].id
  BY <1>3, BestExists
<1>6. score \in [F -> Int]
  BY <1>2, <1>5
<1>7. Merged(flat) = [k \in DOMAIN order |-> flat[BestOf(flat, order[k])]]
  BY DEF Merged, Firsts, BestOf, SameId
<1>8. \A i \in F : score[i] = flat[BestOf(flat, i)].dense
  OBVIOUS
<1> HIDE DEF F, score
<1>9. /\ n \in Nat /\ order \in [1 .. n -> F]
      /\ \A k, l \in 1 .. n : k < l => score[order[k]] >= score[order[l]]
      /\ \A k, l \in 1 .. n : order[k] = order[l] => k = l
      /\ \A i \in F : \E k \in 1 .. n : order[k] = i
  BY <1>3, <1>4, <1>6, DescendingLists
<1> HIDE DEF order, n
<1> DEFINE M == Merged(flat)
<1>10. /\ DOMAIN M = 1 .. n
       /\ \A k \in 1 .. n : order[k] \in F /\ M[k] = flat[BestOf(flat, order[k])]
  BY <1>7, <1>9
<1>11. M = [k \in 1 .. n |-> flat[BestOf(flat, order[k])]]
  BY <1>7, <1>9
<1>12. M \in Seq(Hits)
  <2>1. \A k \in 1 .. n : flat[BestOf(flat, order[k])] \in Hits
    BY <1>1, <1>5, <1>10
  <2> HIDE DEF M
  <2> QED BY <2>1, <1>9, <1>11
<1> HIDE DEF M
<1>13. \A k \in DOMAIN M : \E i \in DOMAIN flat : M[k] = flat[i]
  BY <1>5, <1>10
<1>14. \A k, l \in DOMAIN M : k < l => M[k].dense >= M[l].dense
  BY <1>8, <1>9, <1>10
<1>15. \A k, l \in DOMAIN M : M[k].id = M[l].id => k = l
  <2> SUFFICES ASSUME NEW k \in 1 .. n, NEW l \in 1 .. n, M[k].id = M[l].id PROVE k = l
    BY <1>10
  <2>1. flat[order[k]].id = flat[order[l]].id /\ order[k] \in F /\ order[l] \in F
    BY <1>5, <1>10
  <2>2. \A i, j \in F : flat[i].id = flat[j].id => ~(j < i)
    <3> SUFFICES ASSUME NEW i \in F, NEW j \in F, flat[i].id = flat[j].id, j < i PROVE FALSE
      OBVIOUS
    <3>1. j \in 1 .. i - 1
      BY <1>1, <1>3
    <3> QED BY <3>1 DEF F, Firsts
  <2>3. order[k] = order[l]
    BY <2>1, <2>2, <1>3
  <2> QED BY <2>3, <1>9
<1>16. \A i \in DOMAIN flat : \E k \in DOMAIN M : M[k].id = flat[i].id /\ M[k].dense >= flat[i].dense
  <2> SUFFICES ASSUME NEW i \in DOMAIN flat
               PROVE  \E k \in DOMAIN M : M[k].id = flat[i].id /\ M[k].dense >= flat[i].dense
    OBVIOUS
  <2>1. SameId(flat, i) \in SUBSET Nat /\ i \in SameId(flat, i)
    BY <1>1 DEF SameId
  <2>2. PICK x \in SameId(flat, i) : \A y \in SameId(flat, i) : x <= y
    <3> HIDE DEF SameId
    <3> QED BY <2>1, LeastNumber
  <2>3. x \in DOMAIN flat /\ flat[x].id = flat[i].id
    BY DEF SameId
  <2>4. x \in F
    <3> SUFFICES ASSUME NEW j \in 1 .. x - 1, flat[j].id = flat[x].id PROVE FALSE
      BY <2>3 DEF F, Firsts
    <3>1. j \in DOMAIN flat /\ j < x
      BY <2>3, <1>1
    <3>2. j \in SameId(flat, i)
      BY <3>1, <2>3 DEF SameId
    <3>3. x <= j
      BY <3>2, <2>2
    <3> QED BY <3>1, <3>3, <2>3, <1>1
  <2>5. PICK k \in 1 .. n : order[k] = x
    BY <2>4, <1>9
  <2>6. M[k] = flat[BestOf(flat, x)] /\ k \in DOMAIN M
    BY <2>5, <1>10
  <2>7. flat[BestOf(flat, x)].id = flat[i].id /\ flat[BestOf(flat, x)].dense >= flat[i].dense
    BY <2>3, BestExists
  <2> QED BY <2>6, <2>7
<1> QED BY <1>12, <1>13, <1>14, <1>15, <1>16 DEF M

\* The best of them, each once, and nothing better is left out.
LEMMA CandidatesHits ==
  ASSUME NEW flat \in Seq(Hits)
  PROVE  LET c == Candidates(flat) IN
         /\ c \in Seq(Hits) /\ Len(c) <= MaxCandidates
         /\ \A k \in DOMAIN c : \E i \in DOMAIN flat : c[k] = flat[i]
         /\ \A k, l \in DOMAIN c : c[k].id = c[l].id => k = l
         /\ \A i \in DOMAIN flat :
              \/ \E k \in DOMAIN c : c[k].id = flat[i].id /\ c[k].dense >= flat[i].dense
              \/ Len(c) \in {2 * TopSearch, MaxCandidates} /\ \A k \in DOMAIN c : c[k].dense >= flat[i].dense
<1> DEFINE m == Merged(flat)
           half == Cut(m, 2 * TopSearch)
           c == Candidates(flat)
<1>1. MaxCandidates \in Nat /\ 2 * TopSearch \in Nat /\ \A h \in Hits : h.dense \in Int
  BY RetrievalAssumption DEF RetrievalAssumption
<1>2. /\ m \in Seq(Hits)
      /\ \A k \in DOMAIN m : \E i \in DOMAIN flat : m[k] = flat[i]
      /\ \A k, l \in DOMAIN m : k < l => m[k].dense >= m[l].dense
      /\ \A k, l \in DOMAIN m : m[k].id = m[l].id => k = l
      /\ \A i \in DOMAIN flat : \E k \in DOMAIN m : m[k].id = flat[i].id /\ m[k].dense >= flat[i].dense
  BY MergedHits
<1>3. c = Cut(half, MaxCandidates)
  BY DEF Candidates
<1> HIDE DEF m
<1>4. /\ half \in Seq(Hits) /\ Len(half) \in {2 * TopSearch, Len(m)}
      /\ \A k \in DOMAIN half : k \in DOMAIN m /\ half[k] = m[k]
  BY <1>1, <1>2, CutKeeps
<1> HIDE DEF half
<1>5. /\ c \in Seq(Hits) /\ Len(c) <= MaxCandidates /\ Len(c) \in {MaxCandidates, Len(half)}
      /\ \A k \in DOMAIN c : k \in DOMAIN half /\ c[k] = half[k]
  BY <1>1, <1>3, <1>4, CutKeeps
<1> HIDE DEF c
<1>6. \A k \in DOMAIN c : k \in DOMAIN m /\ c[k] = m[k]
  BY <1>4, <1>5
<1>7. Len(c) \in {2 * TopSearch, MaxCandidates, Len(m)}
  BY <1>4, <1>5
<1>8. DOMAIN c = 1 .. Len(c) /\ DOMAIN m = 1 .. Len(m) /\ Len(c) \in Nat /\ Len(m) \in Nat
  BY <1>2, <1>5
<1>9. ASSUME NEW i \in DOMAIN flat
      PROVE  \/ \E k \in DOMAIN c : c[k].id = flat[i].id /\ c[k].dense >= flat[i].dense
             \/ Len(c) \in {2 * TopSearch, MaxCandidates} /\ \A k \in DOMAIN c : c[k].dense >= flat[i].dense
  <2>1. PICK j \in DOMAIN m : m[j].id = flat[i].id /\ m[j].dense >= flat[i].dense
    BY <1>2
  <2>2. CASE j \in DOMAIN c
    BY <2>1, <2>2, <1>6
  <2>3. CASE j \notin DOMAIN c
    <3>1. Len(c) # Len(m)
      BY <2>3, <1>8
    <3>2. Len(c) \in {2 * TopSearch, MaxCandidates}
      BY <3>1, <1>7
    <3>3. \A k \in DOMAIN c : k < j
      BY <2>3, <1>8
    <3>4. flat[i] \in Hits /\ m[j] \in Hits /\ \A k \in DOMAIN m : m[k] \in Hits
      BY <1>2
    <3>5. ASSUME NEW k \in DOMAIN c PROVE c[k].dense >= flat[i].dense
      <4>1. m[k].dense >= m[j].dense /\ c[k] = m[k] /\ k \in DOMAIN m
        BY <3>3, <1>2, <1>6
      <4> QED BY <4>1, <2>1, <3>4, <1>1
    <3> QED BY <3>2, <3>5
  <2> QED BY <2>2, <2>3
<1>10. \A k \in DOMAIN c : \E i \in DOMAIN flat : c[k] = flat[i]
  BY <1>2, <1>6
<1>11. \A k, l \in DOMAIN c : c[k].id = c[l].id => k = l
  BY <1>2, <1>6
<1> QED BY <1>5, <1>9, <1>10, <1>11 DEF c

-----------------------------------------------------------------------------
\* scores are some of who's for the points ids, by their positions.
ScoresOf(scores, ids, who) ==
  /\ DOMAIN scores \subseteq DOMAIN ids
  /\ \A i \in DOMAIN scores :
       scores[i].from = who /\ scores[i].of = ids[i] /\ scores[i].value \in Int
  /\ who = "cohere" => DOMAIN scores = DOMAIN ids

ResultOf(list, who) ==
  \A i, j \in DOMAIN list :
    /\ list[i].of = list[i].id /\ list[i].from \in {"dense", who}
    /\ i < j => list[i].id # list[j].id /\ list[i].value >= list[j].value

\* What a call makes of scores for its candidates.
LEMMA MaterializeKeeps ==
  ASSUME NEW s \in Searches, pool[s] \in Seq(Hits),
         \A k, l \in DOMAIN pool[s] : pool[s][k].id = pool[s][l].id => k = l,
         NEW scores, NEW who, ScoresOf(scores, Ids(pool[s]), who)
  PROVE  /\ Len(Materialize(s, scores)) <= TopFinal
         /\ ResultOf(Materialize(s, scores), who)
         /\ who = "cohere" => \A i \in DOMAIN Materialize(s, scores) : Materialize(s, scores)[i].from = "cohere"
<1> DEFINE p == pool[s]
           Entry(i) == IF i \in DOMAIN scores
                  THEN [id |-> p[i].id, value |-> scores[i].value,
                        from |-> scores[i].from, of |-> scores[i].of]
                  ELSE [id |-> p[i].id, value |-> p[i].dense,
                        from |-> "dense", of |-> p[i].id]
           D == DOMAIN p
           entry == [i \in D |-> Entry(i)]
           score == [i \in D |-> Entry(i).value]
           order == Descending(score)
           n == Cardinality(D)
           all == [k \in DOMAIN order |-> Entry(order[k])]
           E == {entry[i] : i \in D}
<1>1. /\ Len(p) \in Nat /\ D = 1 .. Len(p) /\ D \in SUBSET Int /\ IsFiniteSet(D)
      /\ \A i \in D : p[i].dense \in Int
  <2>1. Len(p) \in Nat /\ D = 1 .. Len(p) /\ \A i \in D : p[i] \in Hits
    OBVIOUS
  <2>2. IsFiniteSet(D)
    BY PlacesAreFew
  <2> QED BY <2>1, <2>2, RetrievalAssumption DEF RetrievalAssumption
<1>2. /\ DOMAIN scores \subseteq D
      /\ \A i \in DOMAIN scores : scores[i].from = who /\ scores[i].of = p[i].id /\ scores[i].value \in Int
      /\ who = "cohere" => DOMAIN scores = D
  BY DEF ScoresOf, Ids
<1>3. \A i \in D : /\ Entry(i).id = p[i].id /\ Entry(i).of = p[i].id /\ Entry(i).value \in Int
                   /\ Entry(i).from \in {"dense", who}
                   /\ who = "cohere" => Entry(i).from = "cohere"
  <2> SUFFICES ASSUME NEW i \in D
               PROVE /\ Entry(i).id = p[i].id /\ Entry(i).of = p[i].id /\ Entry(i).value \in Int
                     /\ Entry(i).from \in {"dense", who}
                     /\ who = "cohere" => Entry(i).from = "cohere"
    OBVIOUS
  <2>1. CASE i \in DOMAIN scores
    BY <2>1, <1>2
  <2>2. CASE i \notin DOMAIN scores
    BY <2>2, <1>1, <1>2
  <2> QED BY <2>1, <2>2
<1>4. Materialize(s, scores) = Cut(all, TopFinal)
  BY DEF Materialize
<1>5. \A i \in D : entry[i] = Entry(i) /\ score[i] = entry[i].value /\ entry[i] \in E
  OBVIOUS
<1>6. all = [k \in DOMAIN order |-> Entry(order[k])]
  OBVIOUS
<1>7. score \in [D -> Int]
  BY <1>3
<1>20. D \in SUBSET Int /\ IsFiniteSet(D)
  BY <1>1
<1> HIDE DEF p, Entry, entry, score, D, E, all
<1>8. /\ n \in Nat /\ order \in [1 .. n -> D]
      /\ \A k, l \in 1 .. n : k < l => score[order[k]] >= score[order[l]]
      /\ \A k, l \in 1 .. n : order[k] = order[l] => k = l
  BY <1>20, <1>7, DescendingLists
<1> HIDE DEF order, n
<1>9. all = [k \in 1 .. n |-> entry[order[k]]]
  BY <1>5, <1>6, <1>8
<1>10. all \in Seq(E) /\ DOMAIN all = 1 .. n /\ \A k \in 1 .. n : all[k] = entry[order[k]] /\ order[k] \in D
  BY <1>5, <1>8, <1>9
<1> DEFINE list == Materialize(s, scores)
<1>11. TopFinal \in Nat
  BY RetrievalAssumption DEF RetrievalAssumption
<1>12. /\ list \in Seq(E) /\ Len(list) <= TopFinal
       /\ \A k \in DOMAIN list : k \in 1 .. n /\ list[k] = all[k]
  <2>1. /\ Cut(all, TopFinal) \in Seq(E) /\ Len(Cut(all, TopFinal)) <= TopFinal
        /\ \A k \in DOMAIN Cut(all, TopFinal) : k \in DOMAIN all /\ Cut(all, TopFinal)[k] = all[k]
    <3>1. all \in Seq(E) /\ TopFinal \in Nat
      BY <1>10, <1>11
    <3> QED BY <3>1, CutKeeps
  <2>2. list = Cut(all, TopFinal) /\ DOMAIN all = 1 .. n
    BY <1>4, <1>10
  <2> HIDE DEF list
  <2> QED BY <2>1, <2>2
<1> HIDE DEF list
<1>13. \A k \in DOMAIN list : k \in 1 .. n /\ order[k] \in D /\ list[k] = entry[order[k]]
  BY <1>10, <1>12
<1>14. \A i \in D : /\ entry[i].id = p[i].id /\ entry[i].of = p[i].id
                    /\ entry[i].from \in {"dense", who}
                    /\ who = "cohere" => entry[i].from = "cohere"
  BY <1>3, <1>5
<1>15. \A k, l \in DOMAIN list : k < l => list[k].id # list[l].id /\ list[k].value >= list[l].value
  <2> SUFFICES ASSUME NEW k \in DOMAIN list, NEW l \in DOMAIN list, k < l
               PROVE  list[k].id # list[l].id /\ list[k].value >= list[l].value
    OBVIOUS
  <2>1. order[k] # order[l] /\ order[k] \in D /\ order[l] \in D /\ k \in 1 .. n /\ l \in 1 .. n
    BY <1>8, <1>13
  <2>2. p[order[k]].id # p[order[l]].id
    BY <2>1 DEF D, p
  <2>3. list[k].value >= list[l].value
    BY <2>1, <1>5, <1>8, <1>13
  <2> QED BY <2>1, <2>2, <2>3, <1>13, <1>14
<1>16. ResultOf(list, who)
  BY <1>13, <1>14, <1>15 DEF ResultOf
<1>17. who = "cohere" => \A i \in DOMAIN list : list[i].from = "cohere"
  BY <1>13, <1>14
<1> QED BY <1>12, <1>16, <1>17 DEF list

-----------------------------------------------------------------------------
SearchPlaces == {"new", "rewrite", "search", "rank", "save", "done", "failed"}

SearchShapes ==
  /\ rpc \in [Searches -> SearchPlaces]
  /\ question \in [Searches -> Questions] /\ by \in [Searches -> {"cohere", "llm"}]
  /\ DOMAIN found = Searches /\ DOMAIN pool = Searches
  /\ DOMAIN judged = Searches /\ DOMAIN ranked = Searches
  /\ searchFaults \in 0 .. MaxSearchFaults

\* The candidates of a call are the best hits, each once.
PoolInv(s) ==
  /\ found[s] \in Seq(HitLists \cup {<<>>}) /\ Len(found[s]) <= MaxQueries
  /\ pool[s] \in Seq(Hits) /\ Len(pool[s]) <= MaxCandidates
  /\ \A k, l \in DOMAIN pool[s] : pool[s][k].id = pool[s][l].id => k = l
  /\ \A k \in DOMAIN pool[s] : \E i \in DOMAIN Flat(s) : pool[s][k] = Flat(s)[i]
  /\ rpc[s] \in {"new", "rewrite", "search"} => pool[s] = <<>>
  /\ rpc[s] \in {"rank", "save", "done"} => \A i \in DOMAIN Flat(s) :
       \/ \E k \in DOMAIN pool[s] : pool[s][k].id = Flat(s)[i].id /\ pool[s][k].dense >= Flat(s)[i].dense
       \/ /\ Len(pool[s]) \in {2 * TopSearch, MaxCandidates}
          /\ \A k \in DOMAIN pool[s] : pool[s][k].dense >= Flat(s)[i].dense

\* Its scores are for them, from one reranker.
RankInv(s) ==
  /\ rpc[s] # "done" => ranked[s] = <<>>
  /\ ResultOf(ranked[s], by[s]) /\ Len(ranked[s]) <= TopFinal
  /\ rpc[s] = "done" /\ by[s] = "cohere" /\ Len(pool[s]) > 1
       => \A i \in DOMAIN ranked[s] : ranked[s][i].from = "cohere"
  /\ rpc[s] = "save" => ScoresOf(judged[s], Ids(pool[s]), by[s])
  /\ DOMAIN judged[s] \subseteq DOMAIN pool[s]

\* Cached scores are for the points of their key, by their positions.
ScoreCacheInv ==
  \A e \in scoreCache : /\ e[1].by \in {"cohere", "llm"} /\ e[1].question \in Questions
                        /\ ScoresOf(e[2], e[1].ids, e[1].by)

RetrievalInv ==
  SearchShapes /\ ScoreCacheInv /\ \A s \in Searches : PoolInv(s) /\ RankInv(s)

LEMMA InitRetrieval == RetrievalInit => RetrievalInv
<1> SUFFICES ASSUME RetrievalInit PROVE RetrievalInv
  OBVIOUS
<1>1. SearchShapes
  BY RetrievalAssumption DEF RetrievalInit, SearchShapes, SearchPlaces, RetrievalAssumption
<1>2. ScoreCacheInv
  BY DEF RetrievalInit, ScoreCacheInv
<1>3. ASSUME NEW s \in Searches PROVE PoolInv(s) /\ RankInv(s)
  <2>1. rpc[s] = "new" /\ found[s] = <<>> /\ pool[s] = <<>> /\ judged[s] = <<>> /\ ranked[s] = <<>>
    BY <1>3 DEF RetrievalInit
  <2>2. /\ <<>> \in Seq(HitLists \cup {<<>>}) /\ <<>> \in Seq(Hits) /\ Len(<<>>) = 0 /\ DOMAIN <<>> = {}
    OBVIOUS
  <2>3. 0 <= MaxQueries /\ 0 <= MaxCandidates /\ 0 <= TopFinal
    BY RetrievalAssumption DEF RetrievalAssumption
  <2>4. PoolInv(s)
    BY <2>1, <2>2, <2>3 DEF PoolInv
  <2>5. RankInv(s)
    BY <2>1, <2>2, <2>3 DEF RankInv, ResultOf
  <2> QED BY <2>4, <2>5
<1> QED BY <1>1, <1>2, <1>3 DEF RetrievalInv

SameFinds(s) == found'[s] = found[s] /\ pool'[s] = pool[s]
SameRanks(s) == by'[s] = by[s] /\ judged'[s] = judged[s] /\ ranked'[s] = ranked[s]

LEMMA SameSearch ==
  ASSUME NEW s \in Searches, PoolInv(s), RankInv(s), SameFinds(s), SameRanks(s),
         rpc'[s] = rpc[s]
  PROVE  PoolInv(s)' /\ RankInv(s)'
<1>1. PoolInv(s)'
  BY DEF PoolInv, SameFinds, Flat
<1>2. RankInv(s)'
  BY DEF RankInv, SameFinds, SameRanks
<1> QED BY <1>1, <1>2

\* Its candidates stand while it ranks them.
LEMMA SamePool ==
  ASSUME NEW s \in Searches, PoolInv(s), SameFinds(s),
         \/ rpc[s] \in {"rank", "save", "done"}
         \/ rpc'[s] \in {"new", "rewrite", "search"} /\ rpc[s] \in {"new", "rewrite", "search"}
         \/ rpc'[s] = "failed",
         rpc'[s] \in {"new", "rewrite", "search"} => rpc[s] \in {"new", "rewrite", "search"}
  PROVE  PoolInv(s)'
BY DEF PoolInv, SameFinds, Flat

OtherSearchesRest(s) == \A t \in Searches \ {s} : SameFinds(t) /\ SameRanks(t) /\ rpc'[t] = rpc[t]

LEMMA OtherSearchesStand ==
  ASSUME RetrievalInv, NEW s \in Searches, OtherSearchesRest(s), PoolInv(s)', RankInv(s)'
  PROVE  \A t \in Searches : PoolInv(t)' /\ RankInv(t)'
BY SameSearch DEF RetrievalInv, OtherSearchesRest

LEMMA SearchFaultCounts ==
  ASSUME RetrievalInv, SearchFault PROVE searchFaults' \in 0 .. MaxSearchFaults
BY RetrievalAssumption DEF RetrievalInv, SearchShapes, SearchFault, RetrievalAssumption

LEMMA RetrieveKeeps ==
  ASSUME RetrievalInv, NEW s \in Searches, Retrieve(s) \/ Rewrite(s) \/ RetrievalFails(s)
  PROVE  RetrievalInv'
<1>1. searchFaults' \in 0 .. MaxSearchFaults
  BY SearchFaultCounts DEF Retrieve, Rewrite, RetrievalFails, RetrievalInv, SearchShapes
<1>2. SearchShapes'
  BY <1>1 DEF RetrievalInv, SearchShapes, SearchPlaces, Retrieve, Rewrite, RetrievalFails, Place
<1>3. ScoreCacheInv'
  BY DEF RetrievalInv, ScoreCacheInv, Retrieve, Rewrite, RetrievalFails, ScoresOf
<1>4. OtherSearchesRest(s)
  BY DEF RetrievalInv, SearchShapes, OtherSearchesRest, SameFinds, SameRanks, Retrieve, Rewrite,
         RetrievalFails, Place
<1>5. PoolInv(s) /\ RankInv(s)
  BY DEF RetrievalInv
<1>6. CASE Retrieve(s) \/ RetrievalFails(s)
  <2>1. /\ SameFinds(s) /\ SameRanks(s)
        /\ \/ rpc[s] = "new" /\ rpc'[s] = "rewrite"
           \/ rpc[s] \in {"rewrite", "search", "rank", "save"} /\ rpc'[s] = "failed"
    BY <1>6 DEF RetrievalInv, SearchShapes, SameFinds, SameRanks, Retrieve, RetrievalFails, Place
  <2>2. PoolInv(s)'
    BY <1>5, <2>1, SamePool
  <2>3. RankInv(s)'
    BY <1>5, <2>1 DEF RankInv, SameFinds, SameRanks, ResultOf
  <2> QED BY <1>2, <1>3, <1>4, <2>2, <2>3, OtherSearchesStand DEF RetrievalInv
<1>7. CASE Rewrite(s)
  <2>1. PICK n \in 1 .. MaxQueries : found' = [found EXCEPT ![s] = [i \in 1 .. n |-> <<>>]]
    BY <1>7 DEF Rewrite
  <2>2. /\ rpc[s] = "rewrite" /\ rpc'[s] = "search" /\ SameRanks(s) /\ pool'[s] = pool[s]
        /\ found'[s] = [i \in 1 .. n |-> <<>>]
    BY <1>7, <2>1 DEF RetrievalInv, SearchShapes, SameRanks, Rewrite, Place
  <2>3. found'[s] \in Seq(HitLists \cup {<<>>}) /\ Len(found'[s]) <= MaxQueries
    BY <2>2, RetrievalAssumption DEF RetrievalAssumption
  <2>4. PoolInv(s)'
    BY <1>5, <2>2, <2>3 DEF PoolInv
  <2>5. RankInv(s)'
    BY <1>5, <2>2 DEF RankInv, SameRanks, ResultOf
  <2> QED BY <1>2, <1>3, <1>4, <2>4, <2>5, OtherSearchesStand DEF RetrievalInv
<1> QED BY <1>6, <1>7

LEMMA SearchKeeps ==
  ASSUME RetrievalInv, NEW s \in Searches, Search(s)
  PROVE  RetrievalInv'
<1>1. PICK lists \in [DOMAIN found[s] -> HitLists] :
        /\ found' = [found EXCEPT ![s] = lists]
        /\ pool' = [pool EXCEPT ![s] = Candidates(FlattenSeq(lists))]
        /\ Place(s, IF Len(Candidates(FlattenSeq(lists))) < 2 THEN "done" ELSE "rank")
        /\ ranked' = IF Len(Candidates(FlattenSeq(lists))) # 1 THEN ranked
                     ELSE [ranked EXCEPT ![s] =
                            <<[id |-> Candidates(FlattenSeq(lists))[1].id,
                               value |-> 2 * Candidates(FlattenSeq(lists))[1].dense,
                               from |-> "dense", of |-> Candidates(FlattenSeq(lists))[1].id]>>]
  BY DEF Search
<1> DEFINE flat == FlattenSeq(lists)
           best == Candidates(flat)
<1>2. PoolInv(s) /\ RankInv(s)
  BY DEF RetrievalInv
<1>3. lists \in Seq(HitLists \cup {<<>>}) /\ lists \in Seq(Seq(Hits)) /\ Len(lists) <= MaxQueries
  <2>1. found[s] \in Seq(HitLists \cup {<<>>}) /\ Len(found[s]) <= MaxQueries
    BY <1>2 DEF PoolInv
  <2>2. DOMAIN lists = 1 .. Len(found[s]) /\ Len(found[s]) \in Nat
    BY <2>1
  <2>3. lists \in Seq(HitLists) /\ Len(lists) = Len(found[s])
    BY <2>2
  <2>4. HitLists \subseteq Seq(Hits)
    BY RetrievalAssumption DEF RetrievalAssumption
  <2> QED BY <2>1, <2>3, <2>4
<1>4. flat \in Seq(Hits)
  BY <1>3, JoinedLists
<1> HIDE DEF flat
<1>5. /\ best \in Seq(Hits) /\ Len(best) <= MaxCandidates
      /\ \A k \in DOMAIN best : \E i \in DOMAIN flat : best[k] = flat[i]
      /\ \A k, l \in DOMAIN best : best[k].id = best[l].id => k = l
      /\ \A i \in DOMAIN flat :
           \/ \E k \in DOMAIN best : best[k].id = flat[i].id /\ best[k].dense >= flat[i].dense
           \/ Len(best) \in {2 * TopSearch, MaxCandidates} /\ \A k \in DOMAIN best : best[k].dense >= flat[i].dense
  BY <1>4, CandidatesHits
<1> DEFINE single == <<[id |-> best[1].id, value |-> 2 * best[1].dense, from |-> "dense", of |-> best[1].id]>>
<1>6. /\ found' = [found EXCEPT ![s] = lists] /\ pool' = [pool EXCEPT ![s] = best]
      /\ rpc' = [rpc EXCEPT ![s] = IF Len(best) < 2 THEN "done" ELSE "rank"]
      /\ ranked' = IF Len(best) # 1 THEN ranked ELSE [ranked EXCEPT ![s] = single]
      /\ rpc[s] = "search"
      /\ UNCHANGED <<question, by, judged, scoreCache, searchFaults>>
  BY <1>1 DEF Search, Place, flat
<1>7. /\ Len(single) = 1 /\ DOMAIN single = {1} /\ single[1].of = single[1].id /\ single[1].from = "dense"
  OBVIOUS
<1> HIDE DEF best, single
<1>8. SearchShapes'
  BY <1>6 DEF RetrievalInv, SearchShapes, SearchPlaces
<1>9. ScoreCacheInv'
  BY <1>6 DEF RetrievalInv, ScoreCacheInv, ScoresOf
<1>10. OtherSearchesRest(s)
  BY <1>6 DEF RetrievalInv, SearchShapes, OtherSearchesRest, SameFinds, SameRanks
<1>11. /\ found'[s] = lists /\ pool'[s] = best /\ by'[s] = by[s] /\ judged'[s] = judged[s]
       /\ rpc'[s] = (IF Len(best) < 2 THEN "done" ELSE "rank")
       /\ ranked'[s] = (IF Len(best) # 1 THEN ranked[s] ELSE single)
  BY <1>6 DEF RetrievalInv, SearchShapes
<1>12. Flat(s)' = flat
  BY <1>11 DEF Flat, flat
<1>13. PoolInv(s)'
  BY <1>3, <1>5, <1>11, <1>12 DEF PoolInv
<1>14. RankInv(s)'
  <2>1. ranked[s] = <<>> /\ pool[s] = <<>> /\ DOMAIN judged[s] = {}
    BY <1>2, <1>6 DEF RankInv, PoolInv
  <2>2. Len(best) \in Nat /\ TopFinal \in Nat /\ TopFinal > 0
    BY <1>5, RetrievalAssumption DEF RetrievalAssumption
  <2>3. rpc'[s] # "done" => ranked'[s] = <<>>
    <3>1. rpc'[s] # "done" => Len(best) # 1
      <4>1. CASE Len(best) = 1
        BY <4>1, <1>11
      <4> QED BY <4>1
    <3> QED BY <3>1, <1>11, <2>1
  <2>4. ResultOf(ranked'[s], by'[s]) /\ Len(ranked'[s]) <= TopFinal
    <3>1. ResultOf(<<>>, by[s]) /\ Len(<<>>) = 0
      BY DEF ResultOf
    <3>2. ResultOf(single, by[s])
      BY <1>7 DEF ResultOf
    <3>3. CASE Len(best) # 1
      <4>1. ranked'[s] = <<>> /\ by'[s] = by[s]
        BY <3>3, <1>11, <2>1
      <4> QED BY <4>1, <3>1, <2>2
    <3>4. CASE Len(best) = 1
      <4>1. ranked'[s] = single /\ by'[s] = by[s]
        BY <3>4, <1>11
      <4>2. Len(single) <= TopFinal
        BY <1>7, <2>2
      <4> QED BY <4>1, <4>2, <3>2
    <3> QED BY <3>3, <3>4
  <2>5. rpc'[s] = "done" => ~(Len(best) > 1)
    BY <1>11, <2>2
  <2>6. rpc'[s] # "save"
    BY <1>11
  <2> QED BY <1>11, <2>1, <2>3, <2>4, <2>5, <2>6 DEF RankInv
<1> QED BY <1>8, <1>9, <1>10, <1>13, <1>14, OtherSearchesStand DEF RetrievalInv

\* A call that has its scores finishes.
LEMMA FinishKeeps ==
  ASSUME RetrievalInv, NEW s \in Searches, NEW scores, rpc[s] \in {"rank", "save"},
         ScoresOf(scores, Ids(pool[s]), by[s]), FinishRanking(s, scores),
         UNCHANGED <<question, found, pool, by, judged, searchFaults>>, ScoreCacheInv'
  PROVE  RetrievalInv'
<1>1. PoolInv(s) /\ RankInv(s)
  BY DEF RetrievalInv
<1> DEFINE list == Materialize(s, scores)
<1>2. /\ Len(list) <= TopFinal /\ ResultOf(list, by[s])
      /\ by[s] = "cohere" => \A i \in DOMAIN list : list[i].from = "cohere"
  <2>1. pool[s] \in Seq(Hits) /\ \A k, l \in DOMAIN pool[s] : pool[s][k].id = pool[s][l].id => k = l
    BY <1>1 DEF PoolInv
  <2> QED BY <2>1, MaterializeKeeps
<1>3. ranked' = [ranked EXCEPT ![s] = list] /\ rpc' = [rpc EXCEPT ![s] = "done"]
  BY DEF FinishRanking, Place
<1> HIDE DEF list
<1>4. SearchShapes'
  BY <1>3 DEF RetrievalInv, SearchShapes, SearchPlaces
<1>5. OtherSearchesRest(s)
  BY <1>3 DEF RetrievalInv, SearchShapes, OtherSearchesRest, SameFinds, SameRanks
<1>6. rpc'[s] = "done" /\ ranked'[s] = list /\ SameFinds(s) /\ by'[s] = by[s] /\ judged'[s] = judged[s]
  BY <1>3 DEF RetrievalInv, SearchShapes, SameFinds
<1>7. PoolInv(s)'
  BY <1>1, <1>6, SamePool
<1>8. RankInv(s)'
  BY <1>1, <1>2, <1>6 DEF RankInv, SameFinds
<1> QED BY <1>4, <1>5, <1>7, <1>8, OtherSearchesStand DEF RetrievalInv

LEMMA CachedRankingKeeps ==
  ASSUME RetrievalInv, NEW s \in Searches, CachedRanking(s)
  PROVE  RetrievalInv'
<1>1. PICK e \in scoreCache : e[1] = Key(s) /\ FinishRanking(s, e[2])
  BY DEF CachedRanking
<1>2. e[1].ids = Ids(pool[s]) /\ e[1].by = by[s]
  BY <1>1 DEF Key
<1>3. ScoresOf(e[2], Ids(pool[s]), by[s])
  BY <1>1, <1>2 DEF RetrievalInv, ScoreCacheInv
<1>4. UNCHANGED <<question, found, pool, by, judged, scoreCache, searchFaults>> /\ rpc[s] = "rank"
  BY DEF CachedRanking
<1>5. ScoreCacheInv'
  BY <1>4 DEF RetrievalInv, ScoreCacheInv
<1> QED BY <1>1, <1>3, <1>4, <1>5, FinishKeeps

LEMMA SaveScoresKeeps ==
  ASSUME RetrievalInv, NEW s \in Searches, SaveScores(s)
  PROVE  RetrievalInv'
<1>1. /\ rpc[s] = "save" /\ FinishRanking(s, judged[s])
      /\ UNCHANGED <<question, found, pool, by, judged, searchFaults>>
  BY DEF SaveScores
<1>2. ScoresOf(judged[s], Ids(pool[s]), by[s])
  BY <1>1 DEF RetrievalInv, RankInv
<1> DEFINE new == <<Key(s), judged[s]>>
<1>3. /\ new[1].by = by[s] /\ new[1].question = question[s] /\ new[1].ids = Ids(pool[s]) /\ new[2] = judged[s]
      /\ by[s] \in {"cohere", "llm"} /\ question[s] \in Questions
  BY DEF Key, RetrievalInv, SearchShapes
<1>4. \A e \in scoreCache' : e \in scoreCache \/ e = new
  BY DEF SaveScores
<1> HIDE DEF new
<1>5. ScoreCacheInv'
  <2>1. \A e \in scoreCache' : /\ e[1].by \in {"cohere", "llm"} /\ e[1].question \in Questions
                               /\ ScoresOf(e[2], e[1].ids, e[1].by)
    BY <1>2, <1>3, <1>4 DEF RetrievalInv, ScoreCacheInv
  <2> QED BY <2>1 DEF ScoreCacheInv
<1> QED BY <1>1, <1>2, <1>5, FinishKeeps

LEMMA ScoreKeeps ==
  ASSUME RetrievalInv, NEW s \in Searches, Score(s)
  PROVE  RetrievalInv'
<1>1. PICK P \in Scored(s) : \E value \in [P -> Judgements] :
       judged' = [judged EXCEPT ![s] =
         [i \in P |-> [value |-> value[i], from |-> by[s], of |-> pool[s][i].id]]]
  BY DEF Score
<1>2. PICK value \in [P -> Judgements] :
       judged' = [judged EXCEPT ![s] =
         [i \in P |-> [value |-> value[i], from |-> by[s], of |-> pool[s][i].id]]]
  BY <1>1
<1> DEFINE new == [i \in P |-> [value |-> value[i], from |-> by[s], of |-> pool[s][i].id]]
<1>3. P \subseteq DOMAIN pool[s] /\ (by[s] = "cohere" => P = DOMAIN pool[s])
  BY DEF Scored
<1>4. DOMAIN new = P /\ \A i \in P : new[i].value = value[i] /\ new[i].from = by[s] /\ new[i].of = pool[s][i].id
  OBVIOUS
<1>5. \A i \in P : value[i] \in Int
  <2>1. Judgements \subseteq Int
    BY RetrievalAssumption DEF RetrievalAssumption
  <2>2. \A i \in P : value[i] \in Judgements
    <3> HIDE DEF new
    <3> QED BY <1>2
  <2> QED BY <2>1, <2>2
<1>6. DOMAIN Ids(pool[s]) = DOMAIN pool[s] /\ \A i \in DOMAIN pool[s] : Ids(pool[s])[i] = pool[s][i].id
  BY DEF Ids
<1>7. judged' = [judged EXCEPT ![s] = new]
  BY <1>2
<1> HIDE DEF new
<1>8. ScoresOf(new, Ids(pool[s]), by[s])
  BY <1>3, <1>4, <1>5, <1>6 DEF ScoresOf
<1>9. /\ rpc' = [rpc EXCEPT ![s] = "save"] /\ rpc[s] = "rank"
      /\ UNCHANGED <<question, found, pool, by, ranked, scoreCache, searchFaults>>
  BY DEF Score, Place
<1>10. SearchShapes' /\ ScoreCacheInv'
  BY <1>7, <1>9 DEF RetrievalInv, SearchShapes, SearchPlaces, ScoreCacheInv
<1>11. OtherSearchesRest(s)
  BY <1>7, <1>9 DEF RetrievalInv, SearchShapes, OtherSearchesRest, SameFinds, SameRanks
<1>12. /\ rpc'[s] = "save" /\ judged'[s] = new /\ SameFinds(s) /\ by'[s] = by[s] /\ ranked'[s] = ranked[s]
  BY <1>7, <1>9 DEF RetrievalInv, SearchShapes, SameFinds
<1>13. PoolInv(s)'
  BY <1>9, <1>12, SamePool DEF RetrievalInv
<1>14. RankInv(s)'
  BY <1>3, <1>4, <1>8, <1>9, <1>12 DEF RankInv, SameFinds, RetrievalInv
<1> QED BY <1>10, <1>11, <1>13, <1>14, OtherSearchesStand DEF RetrievalInv

LEMMA CohereFailsKeeps ==
  ASSUME RetrievalInv, NEW s \in Searches, CohereFails(s)
  PROVE  RetrievalInv'
<1>1. /\ rpc' = [rpc EXCEPT ![s] = "rank"] /\ rpc[s] \in {"rank", "save"}
      /\ by' = [by EXCEPT ![s] = "llm"] /\ judged' = [judged EXCEPT ![s] = <<>>]
      /\ UNCHANGED <<question, found, pool, ranked, scoreCache>>
  BY DEF CohereFails, Place
<1>2. searchFaults' \in 0 .. MaxSearchFaults
  BY SearchFaultCounts DEF CohereFails
<1>3. SearchShapes' /\ ScoreCacheInv'
  BY <1>1, <1>2 DEF RetrievalInv, SearchShapes, SearchPlaces, ScoreCacheInv
<1>4. OtherSearchesRest(s)
  BY <1>1 DEF RetrievalInv, SearchShapes, OtherSearchesRest, SameFinds, SameRanks
<1>5. /\ rpc'[s] = "rank" /\ judged'[s] = <<>> /\ SameFinds(s) /\ by'[s] = "llm" /\ ranked'[s] = ranked[s]
  BY <1>1 DEF RetrievalInv, SearchShapes, SameFinds
<1>6. PoolInv(s)'
  BY <1>1, <1>5, SamePool DEF RetrievalInv
<1>7. ranked[s] = <<>> /\ Len(ranked[s]) <= TopFinal
  BY <1>1 DEF RetrievalInv, RankInv
<1>8. ResultOf(<<>>, "llm")
  BY DEF ResultOf
<1>9. RankInv(s)'
  BY <1>5, <1>7, <1>8 DEF RankInv, SameFinds
<1> QED BY <1>3, <1>4, <1>6, <1>9, OtherSearchesStand DEF RetrievalInv

LEMMA RetrievalRests ==
  ASSUME RetrievalInv, ForgetScores \/ UNCHANGED retrievalVars PROVE RetrievalInv'
<1>1. UNCHANGED <<rpc, question, found, pool, by, judged, ranked, searchFaults>> /\ scoreCache' \subseteq scoreCache
  BY DEF ForgetScores, retrievalVars
<1>2. SearchShapes' /\ ScoreCacheInv'
  BY <1>1 DEF RetrievalInv, SearchShapes, ScoreCacheInv
<1>3. \A s \in Searches : SameFinds(s) /\ SameRanks(s) /\ rpc'[s] = rpc[s]
  BY <1>1 DEF SameFinds, SameRanks
<1> QED BY <1>2, <1>3, SameSearch DEF RetrievalInv

\* Candidates, scores and cached scores belong together.
THEOREM RetrievalIsInductive == RetrievalSpec => []RetrievalInv
<1>1. RetrievalInv /\ [RetrievalNext]_retrievalVars => RetrievalInv'
  BY RetrievalRests, RetrieveKeeps, SearchKeeps, CachedRankingKeeps, ScoreKeeps, SaveScoresKeeps,
     CohereFailsKeeps DEF RetrievalNext, RetrievalStep
<1> QED BY <1>1, InitRetrieval, PTL DEF RetrievalSpec

\* Every score in a result was given for its hit, by one reranker or for want of
\* a score by the search, and results are in order.
THEOREM ScoresAreTheirHits == RetrievalSpec => []ScoresBelongToHits
<1>1. RetrievalInv => ScoresBelongToHits
  BY DEF RetrievalInv, RankInv, ResultOf, ScoresBelongToHits
<1> QED BY <1>1, RetrievalIsInductive, PTL

\* A result ranked by Cohere has scores by Cohere only.
THEOREM CohereScoresThemAll == RetrievalSpec => []CohereScoresAll
<1>1. RetrievalInv => CohereScoresAll
  BY DEF RetrievalInv, RankInv, CohereScoresAll
<1> QED BY <1>1, RetrievalIsInductive, PTL

\* What a sub-query found is a candidate, or the pool is full of as good ones.
THEOREM TheBestAreCandidates == RetrievalSpec => []BestAreCandidates
<1>1. RetrievalInv => BestAreCandidates
  <2> SUFFICES ASSUME RetrievalInv, NEW s \in Searches, rpc[s] \in {"rank", "save", "done"},
                      NEW i \in DOMAIN Flat(s)
               PROVE  \/ \E c \in ToSet(pool[s]) : c.id = Flat(s)[i].id /\ c.dense >= Flat(s)[i].dense
                      \/ /\ Len(pool[s]) \in {2 * TopSearch, MaxCandidates}
                         /\ \A c \in ToSet(pool[s]) : c.dense >= Flat(s)[i].dense
    BY DEF BestAreCandidates
  <2>1. \/ \E k \in DOMAIN pool[s] : pool[s][k].id = Flat(s)[i].id /\ pool[s][k].dense >= Flat(s)[i].dense
        \/ /\ Len(pool[s]) \in {2 * TopSearch, MaxCandidates}
           /\ \A k \in DOMAIN pool[s] : pool[s][k].dense >= Flat(s)[i].dense
    BY DEF RetrievalInv, PoolInv
  <2>2. ToSet(pool[s]) = {pool[s][k] : k \in DOMAIN pool[s]}
    BY DEF ToSet
  <2> QED BY <2>1, <2>2
<1> QED BY <1>1, RetrievalIsInductive, PTL

\* Calls and the cache have the types they are declared with.
THEOREM RetrievalTyped == RetrievalSpec => []RetrievalTypeOK
<1>1. RetrievalInv => RetrievalTypeOK
  <2> SUFFICES ASSUME RetrievalInv PROVE RetrievalTypeOK
    OBVIOUS
  <2>1. ASSUME NEW s \in Searches
        PROVE  /\ ToSet(found[s]) \subseteq HitLists \cup {<<>>}
               /\ ToSet(pool[s]) \subseteq ToSet(Flat(s))
    BY DEF RetrievalInv, PoolInv, ToSet
  <2> QED BY <2>1 DEF RetrievalInv, SearchShapes, SearchPlaces, PoolInv, RankInv, ScoreCacheInv,
             RetrievalTypeOK
<1> QED BY <1>1, RetrievalIsInductive, PTL
=============================================================================
