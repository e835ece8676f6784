------------------------------ MODULE ChatTurn ------------------------------
(***************************************************************************)
(* POST /conversations/{id}/messages (api/routes/chat.py:38-134) on one    *)
(* conversation: turns of several devices interleave between the message   *)
(* tables (Postgres, the source of truth) and the short-term buffer (a     *)
(* Redis list that caches the last messages).  Every await that touches    *)
(* either store is an action; each Redis pipeline is a MULTI, so atomic.   *)
(*                                                                         *)
(* A message is named by its turn and role.  created_at is the start of    *)
(* the inserting transaction (now() in Postgres), so the order of messages *)
(* is the order in which their transactions began, not committed.          *)
(***************************************************************************)
EXTENDS Integers, Sequences, SequencesExt, FiniteSets, Orders

CONSTANTS
  Turns,        \* chat requests on the conversation
  BufferSize,   \* short_term_buffer_size
  RecentLimit,  \* n of recent_messages (20 in the handler)
  MaxLosses,    \* bound: times Redis loses the buffer (restart, expiry)
  MaxFaults     \* bound: turns cut short by an error or a disconnect

ASSUME SizesAssumption == BufferSize \in Nat \ {0} /\ RecentLimit \in Nat \ {0}
ASSUME FaultsAssumption == MaxLosses \in Nat /\ MaxFaults \in Nat

Question(t) == <<t, "user">>
Answer(t) == <<t, "assistant">>
Message == Turns \X {"user", "assistant"}

VARIABLES
  begun,      \* messages in the order of created_at, committed or not
  committed,  \* rows of messages
  count,      \* conversations.message_count
  buffer,     \* the Redis list conv:buf:{id}
  pc,         \* where each turn is
  seen,       \* message_count as the turn's session last read it
  recent,     \* what recent_messages returned to the turn
  history,    \* the history that load_memory put in the turn's prompt
  losses,     \* buffers lost so far (bounded by MaxLosses)
  faults      \* turns cut short so far (bounded by MaxFaults)

dbVars == <<begun, committed, count>>
turnVars == <<pc, seen, recent, history>>
boundVars == <<losses, faults>>
vars == <<dbVars, buffer, turnVars, boundVars>>

TurnPc == {"new", "opened", "loaded", "check", "recent", "warm", "append_user",
           "agent", "stream", "commit_answer", "append_answer", "done",
           "refused", "failed"}

TypeOK ==
  /\ begun \in Seq(Message)
  /\ committed \in SUBSET Message
  /\ count \in Nat
  /\ buffer \in Seq(Message)
  /\ pc \in [Turns -> TurnPc]
  /\ seen \in [Turns -> Nat]
  /\ recent \in [Turns -> Seq(Message)]
  /\ history \in [Turns -> Seq(Message)]
  /\ losses \in 0 .. MaxLosses
  /\ faults \in 0 .. MaxFaults

Init ==
  /\ begun = <<>> /\ committed = {} /\ count = 0 /\ buffer = <<>>
  /\ pc = [t \in Turns |-> "new"]
  /\ seen = [t \in Turns |-> 0]
  /\ recent = [t \in Turns |-> <<>>]
  /\ history = [t \in Turns |-> <<>>]
  /\ losses = 0 /\ faults = 0

LastOf(n, s) == IF Len(s) <= n THEN s ELSE SubSeq(s, Len(s) - n + 1, Len(s))

\* Committed messages, oldest first.
Log == AtPlaces(begun, {i \in DOMAIN begun : begun[i] \in committed})

Step(t, here, there) == pc[t] = here /\ pc' = [pc EXCEPT ![t] = there]

\* The session's first query, in current_user, begins the transaction that
\* will insert the question.
Begin(t) ==
  /\ Step(t, "new", "opened")
  /\ begun' = Append(begun, Question(t))
  /\ UNCHANGED <<committed, count, buffer, seen, recent, history, boundVars>>

\* Rate limited, or no conversation of this user: nothing is written.
Refuse(t) ==
  /\ Step(t, "opened", "refused")
  /\ UNCHANGED <<dbVars, buffer, seen, recent, history, boundVars>>

\* repo.get reads the row; the session keeps the object, so add_message adds
\* one to the count read here.
LoadConversation(t) ==
  /\ Step(t, "opened", "loaded")
  /\ seen' = [seen EXCEPT ![t] = count]
  /\ UNCHANGED <<dbVars, buffer, recent, history, boundVars>>

\* What a turn has read and will not use again is dropped.
Drop(f, t, empty) == [f EXCEPT ![t] = empty]

\* Mutant of CommitQuestion: the handler's commit is missing.
QuestionNotCommitted(t) ==
  /\ Step(t, "loaded", "check")
  /\ seen' = Drop(seen, t, 0)
  /\ UNCHANGED <<dbVars, buffer, recent, history, boundVars>>

\* Mutant of CommitQuestion: the counter is advanced for the answer as well.
CountTwoAtOnce(t) ==
  /\ Step(t, "loaded", "check")
  /\ committed' = committed \cup {Question(t)}
  /\ count' = seen[t] + 2
  /\ seen' = Drop(seen, t, 0)
  /\ UNCHANGED <<begun, buffer, recent, history, boundVars>>

\* add_message, then the handler's commit.  The row lock that the UPDATE holds
\* in between only delays other turns: each writes a count it has read before.
CommitQuestion(t) ==
  /\ Step(t, "loaded", "check")
  /\ committed' = committed \cup {Question(t)}
  /\ count' = seen[t] + 1
  /\ seen' = Drop(seen, t, 0)
  /\ UNCHANGED <<begun, buffer, recent, history, boundVars>>

CheckBuffer(t) ==
  /\ Step(t, "check", IF buffer = <<>> THEN "recent" ELSE "append_user")
  /\ UNCHANGED <<dbVars, buffer, seen, recent, history, boundVars>>

\* Mutant of ReadRecent: the rows as the query returns them, newest first.
ReadNewestFirst(t) ==
  /\ Step(t, "recent", "warm")
  /\ recent' = [recent EXCEPT ![t] = Reverse(LastOf(RecentLimit, Log))]
  /\ UNCHANGED <<dbVars, buffer, seen, history, boundVars>>

ReadRecent(t) ==
  /\ Step(t, "recent", "warm")
  /\ recent' = [recent EXCEPT ![t] = LastOf(RecentLimit, Log)]
  /\ UNCHANGED <<dbVars, buffer, seen, history, boundVars>>

\* Mutant of Warm: the list is not deleted first.
WarmWithoutDelete(t) ==
  /\ Step(t, "warm", "append_user")
  /\ buffer' = buffer \o LastOf(BufferSize, recent[t])
  /\ recent' = Drop(recent, t, <<>>)
  /\ UNCHANGED <<dbVars, seen, history, boundVars>>

\* warmup_from_db: DELETE, then RPUSH of the last BufferSize messages; nothing
\* at all when the database returned none.
Warm(t) ==
  /\ Step(t, "warm", "append_user")
  /\ buffer' = IF recent[t] = <<>> THEN buffer ELSE LastOf(BufferSize, recent[t])
  /\ recent' = Drop(recent, t, <<>>)
  /\ UNCHANGED <<dbVars, seen, history, boundVars>>

\* append_message: RPUSH and LTRIM.
Push(m) == LastOf(BufferSize, Append(buffer, m))

AppendQuestion(t) ==
  /\ Step(t, "append_user", "agent")
  /\ buffer' = Push(Question(t))
  /\ UNCHANGED <<dbVars, seen, recent, history, boundVars>>

\* load_memory_node: the history of the prompt is the buffer as it is now.
LoadMemory(t) ==
  /\ Step(t, "agent", "stream")
  /\ history' = [history EXCEPT ![t] = buffer]
  /\ UNCHANGED <<dbVars, buffer, seen, recent, boundVars>>

\* build_answer_messages: after the system message the history, which ends with
\* the question as a rule, and then the question.
Prompt(t) == Append(history[t], Question(t))

\* Retrieval and the token stream have ended with `done`; in a session of its
\* own, get begins the transaction and reads the row.
BeginAnswer(t) ==
  /\ Step(t, "stream", "commit_answer")
  /\ begun' = Append(begun, Answer(t))
  /\ seen' = [seen EXCEPT ![t] = count]
  /\ history' = Drop(history, t, <<>>)
  /\ UNCHANGED <<committed, count, buffer, recent, boundVars>>

CommitAnswer(t) ==
  /\ Step(t, "commit_answer", "append_answer")
  /\ committed' = committed \cup {Answer(t)}
  /\ count' = seen[t] + 1
  /\ seen' = Drop(seen, t, 0)
  /\ UNCHANGED <<begun, buffer, recent, history, boundVars>>

\* Mutant of AppendAnswer: the role under another library's name.
AppendAnswerAsAi(t) ==
  /\ Step(t, "append_answer", "done")
  /\ buffer' = Push(<<t, "ai">>)
  /\ UNCHANGED <<dbVars, seen, recent, history, boundVars>>

\* The answer is pushed; enqueue_job("extract_facts"), whose failure is
\* swallowed, and the `done` event end the turn.
AppendAnswer(t) ==
  /\ Step(t, "append_answer", "done")
  /\ buffer' = Push(Answer(t))
  /\ UNCHANGED <<dbVars, seen, recent, history, boundVars>>

\* An `error` event of the agent, an exception, or the client hanging up: the
\* turn stops where it is, and an open transaction is rolled back.
Fail(t) ==
  /\ pc[t] \notin {"new", "done", "refused", "failed"}
  /\ faults < MaxFaults /\ faults' = faults + 1
  /\ pc' = [pc EXCEPT ![t] = "failed"]
  /\ seen' = Drop(seen, t, 0)
  /\ recent' = Drop(recent, t, <<>>)
  /\ history' = Drop(history, t, <<>>)
  /\ UNCHANGED <<dbVars, buffer, losses>>

\* Redis restarts, or short_term_buffer_ttl_s passes.
LoseBuffer ==
  /\ buffer # <<>>
  /\ losses < MaxLosses /\ losses' = losses + 1
  /\ buffer' = <<>>
  /\ UNCHANGED <<dbVars, turnVars, faults>>

TurnStep(t) ==
  \/ Begin(t) \/ Refuse(t) \/ LoadConversation(t) \/ CommitQuestion(t)
  \/ CheckBuffer(t) \/ ReadRecent(t) \/ Warm(t) \/ AppendQuestion(t)
  \/ LoadMemory(t) \/ BeginAnswer(t) \/ CommitAnswer(t) \/ AppendAnswer(t)

Next == LoseBuffer \/ \E t \in Turns : TurnStep(t) \/ Fail(t)

Spec == Init /\ [][Next]_vars

-----------------------------------------------------------------------------
Copies(m, s) == {i \in DOMAIN s : s[i] = m}

\* The turns whose prompt is with the model.
Asking == {t \in Turns : pc[t] = "stream"}

\* The buffer and every prompt hold committed messages only, however turns,
\* warm-ups, lost buffers and failures interleave: what the model is shown is
\* in the transcript (chat.py:52-60, 101-111; short_term.py:9).
OnlyCommittedInPrompts ==
  \A s \in {buffer} \cup {Prompt(t) : t \in Asking} : ToSet(s) \subseteq committed

\* Neither the transcript, nor the buffer, nor a prompt shows an answer before
\* its question, although created_at is the start of a transaction, a warm-up
\* may push rows that are older than the buffer it replaces, and a prompt ends
\* with a question its history may hold already.
AnswersFollowQuestions ==
  \A t \in Turns :
    \A s \in {Log, buffer} \cup {Prompt(u) : u \in Asking} :
      \A i \in Copies(Question(t), s), j \in Copies(Answer(t), s) : i < j

\* The buffer is bounded by short_term_buffer_size (LTRIM, and the slice of the
\* warm-up) and holds no message three times: twice happens, because the warm-up
\* of an empty buffer brings the question that is appended next.  The prompt
\* built of it has one message more, the question again, so that it shows its
\* own question up to three times and any other message up to twice
\* (chat.py:57-60, agent/prompts.py:59-63).
BoundedPrompts ==
  /\ Len(buffer) <= BufferSize
  /\ \A m \in Message : Cardinality(Copies(m, buffer)) <= 2
  /\ \A t \in Asking :
       /\ Len(Prompt(t)) <= BufferSize + 1
       /\ \A m \in Message :
            Cardinality(Copies(m, Prompt(t))) <= IF m = Question(t) THEN 3 ELSE 2

\* message_count never exceeds the messages there are.
CountIsNoOvercount == count <= Cardinality(committed)

-----------------------------------------------------------------------------
\* docs/09-concurrency-model.md:288-292, docs/11-multi-turn-memory.md:92: two
\* devices that send at the same time lose nothing, and a double warm-up is
\* harmless.  Once two turns have appended their questions, the buffer, which
\* has room for more and was not lost, holds both.
BufferHasBoth ==
  \A s, t \in Turns :
    /\ pc[s] \in {"agent", "stream"} /\ pc[t] \in {"agent", "stream"}
    /\ losses = 0 /\ Len(buffer) < BufferSize
    => {Question(s), Question(t)} \subseteq ToSet(buffer)
=============================================================================
