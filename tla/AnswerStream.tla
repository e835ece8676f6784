----------------------------- MODULE AnswerStream -----------------------------
(***************************************************************************)
(* What one client of POST /conversations/{id}/messages is sent, and what  *)
(* is stored of it: the agent's events (agent/graph.py run_agent_stream)   *)
(* and the response generator around it (api/routes/chat.py gen).  Any     *)
(* call may raise, the model's stream may break off in the middle, and the *)
(* client may hang up at any await, which cancels the generator.  Where    *)
(* turns meet (the message tables, the buffer) is in ChatTurn.             *)
(*                                                                         *)
(* A token is an event with its place in the answer; an answer is the      *)
(* number of tokens it is made of.                                         *)
(***************************************************************************)
EXTENDS Integers, Sequences, FiniteSets, Orders

CONSTANT MaxTokensOut   \* bound: tokens of an answer

ASSUME AnswerAssumption == MaxTokensOut \in Nat

VARIABLES
  gpc,        \* where the generator is
  sent,       \* events the client was sent: <<kind>> or <<"token", place>>
  text,       \* tokens in the agent's full_text
  stored,     \* committed answers, each the number of its tokens
  pushed,     \* answers pushed to the buffer
  enqueued,   \* extract_facts jobs enqueued
  broken,     \* did the model's stream break off? (history)
  hungUp      \* has the client hung up?

streamVars == <<gpc, sent, text, stored, pushed, enqueued, broken, hungUp>>

Kinds == {"load_memory", "retrieve_docs", "citations", "done", "error"}

AnswerTypeOK ==
  /\ gpc \in {"begin", "load", "retrieve", "model", "commit", "push", "enqueue",
              "finish", "ended"}
  /\ sent \in Seq({<<k>> : k \in Kinds} \cup {<<"token", n>> : n \in 1 .. MaxTokensOut})
  /\ text \in 0 .. MaxTokensOut
  /\ stored \in SUBSET (0 .. MaxTokensOut) /\ pushed \in SUBSET (0 .. MaxTokensOut)
  /\ enqueued \in 0 .. 1
  /\ broken \in BOOLEAN /\ hungUp \in BOOLEAN

AnswerInit ==
  /\ gpc = "begin" /\ sent = <<>> /\ text = 0
  /\ stored = {} /\ pushed = {} /\ enqueued = 0
  /\ broken = FALSE /\ hungUp = FALSE

Send(event) == sent' = Append(sent, event)
Pass(here, there) == gpc = here /\ gpc' = there
NothingStored == UNCHANGED <<stored, pushed, enqueued>>

-----------------------------------------------------------------------------
SendLoadMemory ==
  /\ Pass("begin", "load") /\ Send(<<"load_memory">>)
  /\ NothingStored /\ UNCHANGED <<text, broken, hungUp>>

\* load_memory_node has returned.
SendRetrieveDocs ==
  /\ Pass("load", "retrieve") /\ Send(<<"retrieve_docs">>)
  /\ NothingStored /\ UNCHANGED <<text, broken, hungUp>>

\* retrieve_docs_node has returned.
SendCitations ==
  /\ Pass("retrieve", "model") /\ Send(<<"citations">>)
  /\ NothingStored /\ UNCHANGED <<text, broken, hungUp>>

SendToken ==
  /\ gpc = "model" /\ text < MaxTokensOut
  /\ text' = text + 1 /\ Send(<<"token", text + 1>>)
  /\ NothingStored /\ UNCHANGED <<gpc, broken, hungUp>>

\* The agent catches the exception, sends an error and returns; so does gen.
ModelBreaks ==
  /\ Pass("model", "ended") /\ Send(<<"error">>) /\ broken' = TRUE
  /\ NothingStored /\ UNCHANGED <<text, hungUp>>

\* Mutant of ModelEnds: the agent's done is sent on when it is received.
ModelEndsAndDone ==
  /\ Pass("model", "commit") /\ Send(<<"done">>)
  /\ NothingStored /\ UNCHANGED <<text, broken, hungUp>>

\* The agent's done has the whole answer and is not sent on yet.
ModelEnds ==
  /\ Pass("model", "commit") /\ UNCHANGED sent
  /\ NothingStored /\ UNCHANGED <<text, broken, hungUp>>

\* Mutant of StoreAnswer: a COMMIT that fails is only logged.
StoreOrLog ==
  /\ Pass("commit", "push") /\ stored' \in {stored, stored \cup {text}}
  /\ UNCHANGED <<sent, text, pushed, enqueued, broken, hungUp>>

StoreAnswer ==
  /\ Pass("commit", "push") /\ stored' = stored \cup {text}
  /\ UNCHANGED <<sent, text, pushed, enqueued, broken, hungUp>>

PushAnswer ==
  /\ Pass("push", "enqueue") /\ pushed' = pushed \cup {text}
  /\ UNCHANGED <<sent, text, stored, enqueued, broken, hungUp>>

\* A failure to enqueue is only logged.
EnqueueExtraction ==
  /\ Pass("enqueue", "finish")
  /\ enqueued' \in {enqueued, enqueued + 1}
  /\ UNCHANGED <<sent, text, stored, pushed, broken, hungUp>>

SendDone ==
  /\ Pass("finish", "ended") /\ Send(<<"done">>)
  /\ NothingStored /\ UNCHANGED <<text, broken, hungUp>>

\* A node, the commit (which may have happened all the same) or the push
\* raises: gen catches it and sends an error.
GenRaises ==
  /\ gpc \in {"load", "retrieve", "commit", "push"} /\ gpc' = "ended"
  /\ Send(<<"error">>)
  /\ stored' \in {stored, IF gpc = "commit" THEN stored \cup {text} ELSE stored}
  /\ UNCHANGED <<text, pushed, enqueued, broken, hungUp>>

\* The generator is cancelled: CancelledError passes both except clauses.
ClientHangsUp ==
  /\ gpc # "ended" /\ gpc' = "ended" /\ hungUp' = TRUE
  /\ stored' \in {stored, IF gpc = "commit" THEN stored \cup {text} ELSE stored}
  /\ UNCHANGED <<sent, text, pushed, enqueued, broken>>

AnswerStep ==
  \/ SendLoadMemory \/ SendRetrieveDocs \/ SendCitations \/ SendToken
  \/ ModelEnds \/ StoreAnswer \/ PushAnswer \/ EnqueueExtraction \/ SendDone

AnswerNext == AnswerStep \/ ModelBreaks \/ GenRaises \/ ClientHangsUp

AnswerSpec == AnswerInit /\ [][AnswerNext]_streamVars

-----------------------------------------------------------------------------
Kind(i) == sent[i][1]
Ends == {"done", "error"}
Tokens == AtPlaces(sent, {i \in DOMAIN sent : Kind(i) = "token"})

\* A client that stays is told how its turn ended once, and last, with the
\* citations before the first token and the tokens in order and complete
\* (graph.py:86-94, 140-152, chat.py:78-96, 119-132).
EventsAreInOrder ==
  /\ \A i \in DOMAIN sent : Kind(i) \in Ends => i = Len(sent) /\ gpc = "ended"
  /\ gpc = "ended" => hungUp \/ Kind(Len(sent)) \in Ends
  /\ \A n \in DOMAIN Tokens : Tokens[n] = <<"token", n>>
  /\ \A i \in DOMAIN sent : Kind(i) = "token" => \E j \in 1 .. i - 1 : Kind(j) = "citations"

\* Only a whole answer is stored, as it was sent; done comes after it is stored
\* and in the buffer, and facts are extracted from stored answers only.  An
\* error may follow a stored answer (graph.py:140-143, chat.py:90-132).
DoneIsDurable ==
  /\ stored \subseteq {Len(Tokens)} /\ (broken => stored = {})
  /\ pushed \subseteq stored
  /\ enqueued <= Cardinality(stored)
  /\ (\E i \in DOMAIN sent : Kind(i) = "done") => stored = {Len(Tokens)} /\ pushed = stored
=============================================================================
