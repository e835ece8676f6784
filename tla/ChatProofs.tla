----------------------------- MODULE ChatProofs -----------------------------
(***************************************************************************)
(* Proofs about ChatTurn: for any number of turns, losses and faults, and  *)
(* any sizes, the counter of a conversation never runs ahead of its        *)
(* messages, although each turn writes a value it has read earlier; and    *)
(* every prompt is bounded, committed and in order.                        *)
(***************************************************************************)
EXTENDS ChatTurn, OrderLemmas

CountTypes ==
  /\ pc \in [Turns -> TurnPc]
  /\ seen \in [Turns -> Nat]
  /\ count \in Nat

\* No counter, stored or in a turn's hands, is above the number of rows.
CountInv ==
  /\ CountTypes
  /\ IsFiniteSet(committed)
  /\ count <= Cardinality(committed)
  /\ \A t \in Turns :
       /\ seen[t] <= Cardinality(committed)
       /\ Question(t) \in committed => pc[t] \notin {"new", "opened", "loaded"}
       /\ Answer(t) \in committed => pc[t] \in {"append_answer", "done", "failed"}

TurnChange(t) == TurnStep(t) \/ Fail(t)

-----------------------------------------------------------------------------
LEMMA InitCount == Init => CountInv
<1> SUFFICES ASSUME Init PROVE CountInv
  OBVIOUS
<1>1. Cardinality(committed) = 0 /\ IsFiniteSet(committed)
  BY FS_EmptySet DEF Init
<1> QED BY <1>1 DEF Init, CountInv, CountTypes, TurnPc

\* A turn that commits a row counts one more than it has read.
LEMMA CountGrows ==
  ASSUME CountInv, NEW t \in Turns, NEW m, m \notin committed,
         m = Question(t) \/ m = Answer(t),
         committed' = committed \cup {m}, count' = seen[t] + 1, seen' = Drop(seen, t, 0),
         \A u \in Turns : u # t => pc'[u] = pc[u],
         pc' \in [Turns -> TurnPc],
         pc'[t] \notin {"new", "opened", "loaded"},
         Answer(t) \in committed' => pc'[t] \in {"append_answer", "done", "failed"}
  PROVE  CountInv'
<1> USE DEF CountInv, CountTypes
<1>1. Cardinality(committed) \in Nat
  BY FS_CardinalityType
<1>2. IsFiniteSet(committed') /\ Cardinality(committed') = Cardinality(committed) + 1
  BY FS_AddElement
<1>3. seen' \in [Turns -> Nat] /\ \A u \in Turns : seen'[u] = 0 \/ seen'[u] = seen[u]
  BY DEF Drop
<1>4. count' \in Nat /\ count' <= Cardinality(committed')
  BY <1>1, <1>2
<1>5. ASSUME NEW u \in Turns PROVE seen'[u] <= Cardinality(committed')
  BY <1>1, <1>2, <1>3
<1>6. ASSUME NEW u \in Turns
      PROVE  /\ Question(u) \in committed' => pc'[u] \notin {"new", "opened", "loaded"}
             /\ Answer(u) \in committed' => pc'[u] \in {"append_answer", "done", "failed"}
  <2>1. CASE u = t
    BY <2>1
  <2>2. CASE u # t
    BY <2>2 DEF Question, Answer
  <2> QED BY <2>1, <2>2
<1> QED BY <1>2, <1>3, <1>4, <1>5, <1>6

\* A turn that commits nothing keeps or drops what it has read, or reads anew.
LEMMA CountStays ==
  ASSUME CountInv, NEW t \in Turns, UNCHANGED <<committed, count>>,
         \A u \in Turns : u # t => pc'[u] = pc[u],
         pc' \in [Turns -> TurnPc],
         seen' \in [Turns -> Nat],
         \A u \in Turns : seen'[u] \in {0, seen[u], count},
         Question(t) \in committed => pc'[t] \notin {"new", "opened", "loaded"},
         Answer(t) \in committed => pc'[t] \in {"append_answer", "done", "failed"}
  PROVE  CountInv'
<1> USE DEF CountInv, CountTypes
<1>1. Cardinality(committed) \in Nat
  BY FS_CardinalityType
<1>2. ASSUME NEW u \in Turns PROVE seen'[u] <= Cardinality(committed)
  BY <1>1
<1>3. ASSUME NEW u \in Turns
      PROVE  /\ Question(u) \in committed => pc'[u] \notin {"new", "opened", "loaded"}
             /\ Answer(u) \in committed => pc'[u] \in {"append_answer", "done", "failed"}
  <2>1. CASE u = t
    BY <2>1
  <2>2. CASE u # t
    BY <2>2
  <2> QED BY <2>1, <2>2
<1>4. IsFiniteSet(committed') /\ count' \in Nat /\ count' <= Cardinality(committed')
  OBVIOUS
<1>5. \A u \in Turns : Question(u)' = Question(u) /\ Answer(u)' = Answer(u)
  BY DEF Question, Answer
<1> QED BY <1>2, <1>3, <1>4, <1>5

LEMMA TurnKeepsCount ==
  ASSUME CountInv, NEW t \in Turns, TurnChange(t)
  PROVE  CountInv'
<1> USE DEF Step
<1>1. /\ pc' \in [Turns -> TurnPc] /\ \A u \in Turns : u # t => pc'[u] = pc[u]
  BY DEF TurnChange, TurnStep, Begin, Refuse, LoadConversation, CommitQuestion, CheckBuffer, ReadRecent,
     Warm, AppendQuestion, LoadMemory, BeginAnswer, CommitAnswer, AppendAnswer, Fail, CountInv, CountTypes, TurnPc
<1>2. CASE CommitQuestion(t)
  <2>1. pc[t] = "loaded" /\ pc'[t] = "check"
    BY <1>2 DEF CommitQuestion, CountInv, CountTypes
  <2>2. Question(t) \notin committed /\ Answer(t) \notin committed /\ Answer(t) # Question(t)
    BY <2>1 DEF CountInv, Question, Answer
  <2>3. /\ committed' = committed \cup {Question(t)} /\ count' = seen[t] + 1
        /\ seen' = Drop(seen, t, 0)
    BY <1>2 DEF CommitQuestion
  <2> QED BY <1>1, <2>1, <2>2, <2>3, CountGrows
<1>3. CASE CommitAnswer(t)
  <2>1. pc[t] = "commit_answer" /\ pc'[t] = "append_answer"
    BY <1>3 DEF CommitAnswer, CountInv, CountTypes
  <2>2. Answer(t) \notin committed
    BY <2>1 DEF CountInv
  <2>3. /\ committed' = committed \cup {Answer(t)} /\ count' = seen[t] + 1
        /\ seen' = Drop(seen, t, 0)
    BY <1>3 DEF CommitAnswer
  <2> QED BY <1>1, <2>1, <2>2, <2>3, CountGrows
<1>4. CASE ~CommitQuestion(t) /\ ~CommitAnswer(t)
  <2>1. UNCHANGED <<committed, count>>
    BY <1>4 DEF TurnChange, TurnStep, Begin, Refuse, LoadConversation, CheckBuffer, ReadRecent, Warm,
       AppendQuestion, LoadMemory, BeginAnswer, AppendAnswer, Fail, dbVars
  <2>2. seen' \in [Turns -> Nat] /\ \A u \in Turns : seen'[u] \in {0, seen[u], count}
    <3>1. seen' = seen \/ seen' = [seen EXCEPT ![t] = count] \/ seen' = [seen EXCEPT ![t] = 0]
      BY <1>4 DEF TurnChange, TurnStep, Begin, Refuse, LoadConversation, CheckBuffer, ReadRecent, Warm,
         AppendQuestion, LoadMemory, BeginAnswer, AppendAnswer, Fail, Drop
    <3> QED BY <3>1 DEF CountInv, CountTypes
  <2>3. /\ pc'[t] # "new"
        /\ pc[t] \notin {"new", "opened", "loaded"} => pc'[t] \notin {"new", "opened", "loaded"}
        /\ pc[t] \in {"append_answer", "done", "failed"} => pc'[t] \in {"append_answer", "done", "failed"}
    BY <1>4 DEF TurnChange, TurnStep, Begin, Refuse, LoadConversation, CheckBuffer, ReadRecent, Warm,
       AppendQuestion, LoadMemory, BeginAnswer, AppendAnswer, Fail, CountInv, CountTypes, TurnPc
  <2>4. /\ Question(t) \in committed => pc'[t] \notin {"new", "opened", "loaded"}
        /\ Answer(t) \in committed => pc'[t] \in {"append_answer", "done", "failed"}
    BY <2>3 DEF CountInv
  <2> QED BY <1>1, <2>1, <2>2, <2>4, CountStays
<1> QED BY <1>2, <1>3, <1>4

LEMMA NextCount == CountInv /\ [Next]_vars => CountInv'
<1> SUFFICES ASSUME CountInv, [Next]_vars PROVE CountInv'
  OBVIOUS
<1>1. CASE LoseBuffer \/ UNCHANGED vars
  <2>1. UNCHANGED <<committed, count, pc, seen>>
    BY <1>1 DEF LoseBuffer, vars, dbVars, turnVars
  <2> QED BY <2>1 DEF CountInv, CountTypes, Question, Answer
<1>2. ASSUME NEW t \in Turns, TurnChange(t) PROVE CountInv'
  BY <1>2, TurnKeepsCount
<1> QED BY <1>1, <1>2 DEF Next, TurnChange

\* message_count may fall behind when turns overlap, but it never counts a
\* message that is not in the table, for any number of turns.
THEOREM CountNeverOvercounts == Spec => []CountIsNoOvercount
<1>1. CountInv => CountIsNoOvercount
  BY DEF CountInv, CountIsNoOvercount
<1> QED BY InitCount, NextCount, <1>1, PTL DEF Spec

-----------------------------------------------------------------------------
\* The order and the number of a message's places in a list.
Ordered(s) ==
  \A t \in Turns : \A i, j \in DOMAIN s : s[i] = Question(t) /\ s[j] = Answer(t) => i < j
Once(m, s) == \A i, j \in DOMAIN s : s[i] = m /\ s[j] = m => i = j
Twice(m, s) ==
  \A i, j, k \in DOMAIN s : s[i] = m /\ s[j] = m /\ s[k] = m => i = j \/ i = k \/ j = k
Has(m, s) == \E i \in DOMAIN s : s[i] = m

AskedAt == {"check", "recent", "warm", "append_user", "agent", "stream", "commit_answer",
            "append_answer", "done"}

\* Where the turns are tells which of their messages have begun, are committed
\* and have been pushed.
BegunInv ==
  /\ Ordered(begun)
  /\ \A m \in Message : Once(m, begun)
  /\ \A t \in Turns :
       /\ Has(Question(t), begun) => pc[t] # "new"
       /\ Has(Answer(t), begun) => pc[t] \in {"commit_answer", "append_answer", "done", "failed"}
       /\ pc[t] \in AskedAt => Question(t) \in committed
       /\ pc[t] = "append_answer" => Answer(t) \in committed
       /\ Answer(t) \in committed => pc[t] \in {"append_answer", "done", "failed"}

\* What is read or shown is committed, and in order.
Shown(s) == Ordered(s) /\ \A i \in DOMAIN s : s[i] \in committed

ListsInv ==
  /\ Shown(buffer) /\ Len(buffer) <= BufferSize
  /\ \A t \in Turns :
       /\ Shown(recent[t]) /\ Shown(history[t]) /\ Len(history[t]) <= BufferSize
       /\ \A m \in Message : Once(m, recent[t]) /\ Twice(m, history[t])

\* A question or an answer is pushed once, beside one that a warm-up has brought.
TwiceInv ==
  /\ \A m \in Message : Twice(m, buffer)
  /\ \A t \in Turns :
       /\ pc[t] \notin {"agent", "stream", "commit_answer", "append_answer", "done", "failed"}
            => Once(Question(t), buffer)
       /\ pc[t] \notin {"done", "failed"} => Once(Answer(t), buffer)

ChatInv == TypeOK /\ BegunInv /\ ListsInv /\ TwiceInv

-----------------------------------------------------------------------------
LEMMA MessagesDiffer ==
  \A t, u \in Turns : /\ Question(t) \in Message /\ Answer(t) \in Message
                      /\ Question(t) # Answer(u)
                      /\ Question(t) = Question(u) => t = u
                      /\ Answer(t) = Answer(u) => t = u
BY DEF Question, Answer, Message

LEMMA SublistKeeps ==
  ASSUME NEW r \in Seq(Message), NEW s \in Seq(Message), Sublist(r, s)
  PROVE  /\ Ordered(s) => Ordered(r)
         /\ \A m \in Message : (Once(m, s) => Once(m, r)) /\ (Twice(m, s) => Twice(m, r))
         /\ Shown(s) => Shown(r)
<1>1. PICK g \in [DOMAIN r -> DOMAIN s] :
        (\A i \in DOMAIN r : r[i] = s[g[i]]) /\ (\A i, j \in DOMAIN r : i < j => g[i] < g[j])
  BY DEF Sublist
<1>2. DOMAIN r \subseteq Nat /\ DOMAIN s \subseteq Nat
  OBVIOUS
<1>3. \A i, j \in DOMAIN r : /\ g[i] \in DOMAIN s /\ g[j] \in DOMAIN s
                             /\ (g[i] = g[j] => i = j) /\ (g[i] < g[j] => i < j)
  <2> SUFFICES ASSUME NEW i \in DOMAIN r, NEW j \in DOMAIN r
               PROVE  (g[i] = g[j] => i = j) /\ (g[i] < g[j] => i < j)
    OBVIOUS
  <2>1. i \in Nat /\ j \in Nat /\ g[i] \in Nat /\ g[j] \in Nat
    BY <1>2
  <2>2. (i < j => g[i] < g[j]) /\ (j < i => g[j] < g[i])
    BY <1>1
  <2> QED BY <2>1, <2>2
<1>4. Ordered(s) => Ordered(r)
  BY <1>1, <1>3 DEF Ordered
<1>5. ASSUME NEW m \in Message, Once(m, s) PROVE Once(m, r)
  BY <1>1, <1>3, <1>5 DEF Once
<1>6. ASSUME NEW m \in Message, Twice(m, s) PROVE Twice(m, r)
  BY <1>1, <1>3, <1>6 DEF Twice
<1>7. Shown(s) => Shown(r)
  BY <1>1, <1>4 DEF Shown
<1> QED BY <1>4, <1>5, <1>6, <1>7

LEMMA LastOfIsSublist ==
  ASSUME NEW s \in Seq(Message), NEW n \in Nat
  PROVE  LastOf(n, s) \in Seq(Message) /\ Len(LastOf(n, s)) <= n /\ Sublist(LastOf(n, s), s)
<1>1. CASE Len(s) <= n
  BY <1>1, SublistOfItself DEF LastOf
<1>2. CASE ~(Len(s) <= n)
  <2>1. Len(s) - n + 1 \in 1 .. Len(s) + 1 /\ Len(s) - (Len(s) - n + 1) + 1 = n
    BY <1>2
  <2>2. LastOf(n, s) = SubSeq(s, Len(s) - n + 1, Len(s))
    BY <1>2 DEF LastOf
  <2> QED BY <2>1, <2>2, SuffixIsSublist
<1> QED BY <1>1, <1>2

\* A message at the end of a list.
LEMMA AppendKeeps ==
  ASSUME NEW s \in Seq(Message), NEW m \in Message
  PROVE  /\ Append(s, m) \in Seq(Message)
         /\ Ordered(s) /\ (\A t \in Turns : m = Question(t) => ~Has(Answer(t), s))
              => Ordered(Append(s, m))
         /\ ~Has(m, s) => Once(m, Append(s, m))
         /\ Once(m, s) => Twice(m, Append(s, m))
         /\ \A x \in Message : x # m => /\ Once(x, s) => Once(x, Append(s, m))
                                        /\ Twice(x, s) => Twice(x, Append(s, m))
                                        /\ Has(x, Append(s, m)) => Has(x, s)
         /\ Shown(s) /\ m \in committed /\ Ordered(Append(s, m)) => Shown(Append(s, m))
<1> DEFINE a == Append(s, m)
<1>1. a \in Seq(Message) /\ DOMAIN a = 1 .. Len(s) + 1 /\ DOMAIN s = 1 .. Len(s) /\ Len(s) \in Nat
  OBVIOUS
<1>2. a[Len(s) + 1] = m /\ \A i \in DOMAIN s : a[i] = s[i]
  OBVIOUS
<1>3. \A i \in DOMAIN a : (i \in DOMAIN s \/ i = Len(s) + 1) /\ ~(i \in DOMAIN s /\ i = Len(s) + 1)
  BY <1>1
<1> HIDE DEF a
<1>4. ASSUME Ordered(s), \A t \in Turns : m = Question(t) => ~Has(Answer(t), s) PROVE Ordered(a)
  <2> SUFFICES ASSUME NEW t \in Turns, NEW i \in DOMAIN a, NEW j \in DOMAIN a,
                      a[i] = Question(t), a[j] = Answer(t)
               PROVE  i < j
    BY DEF Ordered
  <2>1. CASE i \in DOMAIN s /\ j \in DOMAIN s
    BY <2>1, <1>2, <1>4 DEF Ordered
  <2>2. CASE i \in DOMAIN s /\ j = Len(s) + 1
    BY <2>2, <1>1
  <2>3. CASE i = Len(s) + 1
    <3>1. m = Question(t) /\ m # Answer(t)
      BY <2>3, <1>2, MessagesDiffer
    <3>2. j \in DOMAIN s
      BY <3>1, <1>2, <1>3
    <3>3. Has(Answer(t), s)
      BY <3>2, <1>2 DEF Has
    <3> QED BY <3>1, <3>3, <1>4
  <2> QED BY <2>1, <2>2, <2>3, <1>3
<1>5. ~Has(m, s) => Once(m, a)
  BY <1>2, <1>3 DEF Has, Once
<1>6. Once(m, s) => Twice(m, a)
  BY <1>2, <1>3 DEF Twice, Once
<1>7. ASSUME NEW x \in Message, x # m
      PROVE  /\ Once(x, s) => Once(x, a)
             /\ Twice(x, s) => Twice(x, a)
             /\ Has(x, a) => Has(x, s)
  <2>1. \A i \in DOMAIN a : a[i] = x => i \in DOMAIN s /\ s[i] = x
    BY <1>2, <1>3, <1>7
  <2> QED BY <2>1 DEF Once, Twice, Has
<1>8. Shown(s) /\ m \in committed /\ Ordered(a) => Shown(a)
  BY <1>2, <1>3 DEF Shown
<1> QED BY <1>1, <1>4, <1>5, <1>6, <1>7, <1>8 DEF a

LEMMA EmptyList ==
  /\ <<>> \in Seq(Message) /\ Len(<<>>) = 0 /\ Shown(<<>>)
  /\ \A m \in Message : Once(m, <<>>) /\ Twice(m, <<>>)
  /\ \A m \in Message : ~Has(m, <<>>)
BY DEF Shown, Ordered, Once, Twice, Has

\* The transcript: committed messages, each once, questions first.
LEMMA LogIsShown ==
  ASSUME TypeOK, BegunInv
  PROVE  Log \in Seq(Message) /\ Shown(Log) /\ \A m \in Message : Once(m, Log)
<1> DEFINE P == {i \in DOMAIN begun : begun[i] \in committed}
<1>1. begun \in Seq(Message) /\ P \in SUBSET (DOMAIN begun)
  BY DEF TypeOK
<1>2. Log \in Seq(Message) /\ Sublist(Log, begun)
  BY <1>1, PlacesAreSublist DEF Log
<1>3. Ordered(Log) /\ \A m \in Message : Once(m, Log)
  BY <1>1, <1>2, SublistKeeps DEF BegunInv
<1>4. ASSUME NEW k \in DOMAIN Log PROVE Log[k] \in committed
  <2>1. PICK i \in P : Log[k] = begun[i]
    BY <1>1, PlacesAreSublist DEF Log
  <2> QED BY <2>1
<1> QED BY <1>2, <1>3, <1>4 DEF Shown

-----------------------------------------------------------------------------
LEMMA InitChat == Init => ChatInv
<1> SUFFICES ASSUME Init PROVE ChatInv
  OBVIOUS
<1>1. TypeOK
  BY FaultsAssumption, SizesAssumption DEF Init, TypeOK, TurnPc, FaultsAssumption,
     SizesAssumption, Message
<1>2. BegunInv
  BY EmptyList, MessagesDiffer DEF Init, BegunInv, AskedAt, Shown
<1>3. ListsInv
  BY EmptyList, SizesAssumption DEF Init, ListsInv, SizesAssumption
<1>4. TwiceInv
  BY EmptyList, MessagesDiffer DEF Init, TwiceInv
<1> QED BY <1>1, <1>2, <1>3, <1>4 DEF ChatInv

LEMMA PushIsList ==
  ASSUME TypeOK, NEW m \in Message
  PROVE  /\ Append(buffer, m) \in Seq(Message) /\ Push(m) \in Seq(Message)
         /\ Len(Push(m)) <= BufferSize /\ Sublist(Push(m), Append(buffer, m))
<1>1. Append(buffer, m) \in Seq(Message) /\ BufferSize \in Nat
  BY SizesAssumption DEF TypeOK, SizesAssumption
<1> QED BY <1>1, LastOfIsSublist DEF Push

LEMMA TypeStep ==
  ASSUME ChatInv, NEW t \in Turns, TurnChange(t)
  PROVE  TypeOK'
<1> USE DEF ChatInv
<1>1. pc' \in [Turns -> TurnPc]
  BY DEF TurnChange, TurnStep, Begin, Refuse, LoadConversation, CommitQuestion, CheckBuffer, ReadRecent,
     Warm, AppendQuestion, LoadMemory, BeginAnswer, CommitAnswer, AppendAnswer, Fail, TypeOK, TurnPc, Step
<1>2. Question(t) \in Message /\ Answer(t) \in Message
  BY MessagesDiffer
<1>3. begun' \in Seq(Message)
  <2>1. begun' = begun \/ begun' = Append(begun, Question(t)) \/ begun' = Append(begun, Answer(t))
    BY DEF TurnChange, TurnStep, Begin, Refuse, LoadConversation, CommitQuestion, CheckBuffer,
       ReadRecent,
     Warm, AppendQuestion, LoadMemory, BeginAnswer, CommitAnswer, AppendAnswer, Fail, dbVars
  <2> QED BY <2>1, <1>2, AppendKeeps DEF TypeOK
<1>4. committed' \in SUBSET Message
  <2>1. \/ committed' = committed \/ committed' = committed \cup {Question(t)}
        \/ committed' = committed \cup {Answer(t)}
    BY DEF TurnChange, TurnStep, Begin, Refuse, LoadConversation, CommitQuestion, CheckBuffer,
       ReadRecent,
     Warm, AppendQuestion, LoadMemory, BeginAnswer, CommitAnswer, AppendAnswer, Fail, dbVars
  <2> QED BY <2>1, <1>2 DEF TypeOK
<1>5. count' \in Nat
  <2>1. count' = count \/ count' = seen[t] + 1
    BY DEF TurnChange, TurnStep, Begin, Refuse, LoadConversation, CommitQuestion, CheckBuffer,
       ReadRecent,
     Warm, AppendQuestion, LoadMemory, BeginAnswer, CommitAnswer, AppendAnswer, Fail, dbVars
  <2> QED BY <2>1 DEF TypeOK
<1>6. seen' \in [Turns -> Nat]
  <2>1. CASE CommitQuestion(t) \/ CommitAnswer(t) \/ Fail(t)
    <3>1. seen' = [seen EXCEPT ![t] = 0]
      BY <2>1 DEF CommitQuestion, CommitAnswer, Fail, Drop
    <3> QED BY <3>1 DEF TypeOK
  <2>2. CASE ~(CommitQuestion(t) \/ CommitAnswer(t) \/ Fail(t))
    <3>1. seen' = seen \/ seen' = [seen EXCEPT ![t] = count]
      BY <2>2 DEF TurnChange, TurnStep, Begin, Refuse, LoadConversation, CheckBuffer, ReadRecent, Warm,
         AppendQuestion, LoadMemory, BeginAnswer, AppendAnswer
    <3> QED BY <3>1 DEF TypeOK
  <2> QED BY <2>1, <2>2
<1>7. buffer' \in Seq(Message)
  <2>1. \/ buffer' = buffer \/ buffer' = LastOf(BufferSize, recent[t])
        \/ buffer' = Push(Question(t)) \/ buffer' = Push(Answer(t))
    BY DEF TurnChange, TurnStep, Begin, Refuse, LoadConversation, CommitQuestion, CheckBuffer,
       ReadRecent,
     Warm, AppendQuestion, LoadMemory, BeginAnswer, CommitAnswer, AppendAnswer, Fail
  <2>2. LastOf(BufferSize, recent[t]) \in Seq(Message)
    BY LastOfIsSublist, SizesAssumption DEF TypeOK, SizesAssumption
  <2> QED BY <2>1, <2>2, <1>2, PushIsList DEF TypeOK
<1>8. recent' \in [Turns -> Seq(Message)]
  <2>1. \/ recent' = recent \/ recent' = [recent EXCEPT ![t] = <<>>]
        \/ recent' = [recent EXCEPT ![t] = LastOf(RecentLimit, Log)]
    BY DEF TurnChange, TurnStep, Begin, Refuse, LoadConversation, CommitQuestion, CheckBuffer,
       ReadRecent,
     Warm, AppendQuestion, LoadMemory, BeginAnswer, CommitAnswer, AppendAnswer, Fail, Drop
  <2>2. LastOf(RecentLimit, Log) \in Seq(Message)
    BY LogIsShown, LastOfIsSublist, SizesAssumption DEF SizesAssumption
  <2> QED BY <2>1, <2>2, EmptyList DEF TypeOK
<1>9. history' \in [Turns -> Seq(Message)]
  <2>1. \/ history' = history \/ history' = [history EXCEPT ![t] = <<>>]
        \/ history' = [history EXCEPT ![t] = buffer]
    BY DEF TurnChange, TurnStep, Begin, Refuse, LoadConversation, CommitQuestion, CheckBuffer,
       ReadRecent,
     Warm, AppendQuestion, LoadMemory, BeginAnswer, CommitAnswer, AppendAnswer, Fail, Drop
  <2> QED BY <2>1, EmptyList DEF TypeOK
<1>10. losses' \in 0 .. MaxLosses /\ faults' \in 0 .. MaxFaults
  <2>1. losses' = losses /\ (faults' = faults \/ (faults < MaxFaults /\ faults' = faults + 1))
    BY DEF TurnChange, TurnStep, Begin, Refuse, LoadConversation, CommitQuestion, CheckBuffer,
       ReadRecent,
     Warm, AppendQuestion, LoadMemory, BeginAnswer, CommitAnswer, AppendAnswer, Fail, boundVars
  <2> QED BY <2>1, FaultsAssumption DEF TypeOK, FaultsAssumption
<1> QED BY <1>1, <1>3, <1>4, <1>5, <1>6, <1>7, <1>8, <1>9, <1>10 DEF TypeOK

\* A step leaves the other turns where they are.
LEMMA TurnFrame ==
  ASSUME TypeOK, NEW t \in Turns, TurnChange(t)
  PROVE  /\ \A u \in Turns : u # t => pc'[u] = pc[u] /\ recent'[u] = recent[u] /\ history'[u] = history[u]
         /\ committed \subseteq committed' /\ pc'[t] # "new"
<1>1. \A u \in Turns : u # t => pc'[u] = pc[u]
  BY DEF TurnChange, TurnStep, Begin, Refuse, LoadConversation, CommitQuestion, CheckBuffer, ReadRecent,
     Warm, AppendQuestion, LoadMemory, BeginAnswer, CommitAnswer, AppendAnswer, Fail, TypeOK, Step
<1>2. pc'[t] # "new"
  BY DEF TurnChange, TurnStep, Begin, Refuse, LoadConversation, CommitQuestion, CheckBuffer, ReadRecent,
     Warm, AppendQuestion, LoadMemory, BeginAnswer, CommitAnswer, AppendAnswer, Fail, TypeOK, Step
<1>3. \A u \in Turns : u # t => recent'[u] = recent[u] /\ history'[u] = history[u]
  BY DEF TurnChange, TurnStep, Begin, Refuse, LoadConversation, CommitQuestion, CheckBuffer, ReadRecent,
     Warm, AppendQuestion, LoadMemory, BeginAnswer, CommitAnswer, AppendAnswer, Fail, TypeOK, Drop
<1>4. committed \subseteq committed'
  BY DEF TurnChange, TurnStep, Begin, Refuse, LoadConversation, CommitQuestion, CheckBuffer, ReadRecent,
     Warm, AppendQuestion, LoadMemory, BeginAnswer, CommitAnswer, AppendAnswer, Fail, dbVars
<1> QED BY <1>1, <1>2, <1>3, <1>4

\* A step that begins no transaction and commits nothing, and moves its turn to
\* where its messages allow it.
LEMMA BegunStays ==
  ASSUME ChatInv, NEW t \in Turns, TurnChange(t), begun' = begun,
         committed' \in {committed, committed \cup {Question(t)}, committed \cup {Answer(t)}},
         Has(Answer(t), begun) => pc'[t] \in {"commit_answer", "append_answer", "done", "failed"},
         pc'[t] \in AskedAt => Question(t) \in committed',
         pc'[t] = "append_answer" => Answer(t) \in committed',
         Answer(t) \in committed' => pc'[t] \in {"append_answer", "done", "failed"}
  PROVE  BegunInv'
<1> USE DEF ChatInv
<1>1. \A u \in Turns : Question(u)' = Question(u) /\ Answer(u)' = Answer(u)
  BY DEF Question, Answer
<1>2. Ordered(begun)' /\ \A m \in Message : Once(m, begun)'
  BY <1>1 DEF BegunInv, Ordered, Once
<1>3. \A u \in Turns : (Has(Question(u), begun)' <=> Has(Question(u), begun))
                       /\ (Has(Answer(u), begun)' <=> Has(Answer(u), begun))
  BY <1>1 DEF Has
<1>4. \A u \in Turns : u # t => /\ pc'[u] = pc[u]
                                /\ (Answer(u) \in committed' <=> Answer(u) \in committed)
                                /\ (Question(u) \in committed' <=> Question(u) \in committed)
  BY TurnFrame, MessagesDiffer
<1>5. ASSUME NEW u \in Turns
      PROVE  /\ Has(Question(u), begun) => pc'[u] # "new"
             /\ Has(Answer(u), begun) => pc'[u] \in {"commit_answer", "append_answer", "done", "failed"}
             /\ pc'[u] \in AskedAt => Question(u) \in committed'
             /\ pc'[u] = "append_answer" => Answer(u) \in committed'
             /\ Answer(u) \in committed' => pc'[u] \in {"append_answer", "done", "failed"}
  <2>1. CASE u = t
    BY <2>1, TurnFrame
  <2>2. CASE u # t
    BY <2>2, <1>4 DEF BegunInv
  <2> QED BY <2>1, <2>2
<1>6. Message' = Message /\ AskedAt' = AskedAt
  BY DEF Message, AskedAt
<1> QED BY <1>1, <1>2, <1>3, <1>5, <1>6 DEF BegunInv

\* A transaction begins: a message of the turn is the last in the table's order.
LEMMA BegunGrows ==
  ASSUME ChatInv, NEW t \in Turns, TurnChange(t), UNCHANGED committed,
         NEW m, begun' = Append(begun, m),
         \/ pc[t] = "new" /\ pc'[t] = "opened" /\ m = Question(t)
         \/ pc[t] = "stream" /\ pc'[t] = "commit_answer" /\ m = Answer(t)
  PROVE  BegunInv'
<1> USE DEF ChatInv
<1>1. \A u \in Turns : Question(u)' = Question(u) /\ Answer(u)' = Answer(u)
  BY DEF Question, Answer
<1>2. m \in Message
  BY MessagesDiffer
<1>3. begun \in Seq(Message)
  BY DEF TypeOK
<1>4. ~Has(m, begun)
  BY DEF BegunInv
<1>5. ASSUME NEW u \in Turns, m = Question(u) PROVE ~Has(Answer(u), begun)
  BY <1>5, MessagesDiffer DEF BegunInv
<1>6. Ordered(Append(begun, m)) /\ \A x \in Message : Once(x, Append(begun, m))
  <2>1. Ordered(Append(begun, m))
    BY <1>2, <1>3, <1>5, AppendKeeps DEF BegunInv
  <2>2. ASSUME NEW x \in Message PROVE Once(x, Append(begun, m))
    <3>1. CASE x = m
      BY <3>1, <1>3, <1>4, AppendKeeps
    <3>2. CASE x # m
      BY <3>2, <1>2, <1>3, AppendKeeps DEF BegunInv
    <3> QED BY <3>1, <3>2
  <2> QED BY <2>1, <2>2
<1>7. Ordered(begun)' /\ \A x \in Message : Once(x, begun)'
  BY <1>1, <1>2, <1>6 DEF Ordered, Once
<1>8. \A x \in Message : Has(x, begun)' => x = m \/ Has(x, begun)
  BY <1>2, <1>3, AppendKeeps DEF Has
<1>9. \A u \in Turns : u # t => pc'[u] = pc[u]
  BY TurnFrame
<1>10. ASSUME NEW u \in Turns, u # t
       PROVE  /\ Has(Question(u), begun)' => pc'[u] # "new"
              /\ Has(Answer(u), begun)' => pc'[u] \in {"commit_answer", "append_answer", "done", "failed"}
  <2>1. Question(u) # m /\ Answer(u) # m /\ Question(u) \in Message /\ Answer(u) \in Message
    BY <1>2, <1>10, MessagesDiffer
  <2> QED BY <2>1, <1>8, <1>9, <1>10 DEF BegunInv
<1>11. /\ Has(Question(t), begun)' => pc'[t] # "new"
       /\ Has(Answer(t), begun)' => pc'[t] \in {"commit_answer", "append_answer", "done", "failed"}
  <2>1. CASE m = Question(t)
    <3>1. ~Has(Answer(t), begun)'
      BY <2>1, <1>8, MessagesDiffer DEF BegunInv
    <3> QED BY <3>1, <2>1, MessagesDiffer
  <2>2. CASE m = Answer(t)
    BY <2>2, MessagesDiffer
  <2> QED BY <2>1, <2>2
<1>12. ASSUME NEW u \in Turns
       PROVE  /\ pc'[u] \in AskedAt => Question(u) \in committed'
              /\ pc'[u] = "append_answer" => Answer(u) \in committed'
              /\ Answer(u) \in committed' => pc'[u] \in {"append_answer", "done", "failed"}
  <2>1. CASE u = t
    BY <2>1 DEF BegunInv, AskedAt
  <2>2. CASE u # t
    BY <2>2, <1>9 DEF BegunInv
  <2> QED BY <2>1, <2>2
<1>13. Message' = Message /\ AskedAt' = AskedAt
  BY DEF Message, AskedAt
<1>14. \A u \in Turns :
         /\ Has(Question(u), begun)' => pc'[u] # "new"
         /\ Has(Answer(u), begun)' => pc'[u] \in {"commit_answer", "append_answer", "done", "failed"}
  BY <1>10, <1>11
<1> QED BY <1>1, <1>7, <1>12, <1>13, <1>14 DEF BegunInv, Has

LEMMA BegunStep ==
  ASSUME ChatInv, NEW t \in Turns, TurnChange(t)
  PROVE  BegunInv'
<1> USE DEF ChatInv
<1>1. CASE Begin(t) \/ BeginAnswer(t)
  <2>1. PICK m \in {Question(t), Answer(t)} :
          /\ UNCHANGED committed /\ begun' = Append(begun, m)
          /\ \/ pc[t] = "new" /\ pc'[t] = "opened" /\ m = Question(t)
             \/ pc[t] = "stream" /\ pc'[t] = "commit_answer" /\ m = Answer(t)
    BY <1>1 DEF Begin, BeginAnswer, Step, TypeOK
  <2> QED BY <2>1, BegunGrows
<1>2. CASE CommitQuestion(t)
  <2>1. /\ begun' = begun /\ committed' = committed \cup {Question(t)}
        /\ pc[t] = "loaded" /\ pc'[t] = "check"
    BY <1>2 DEF CommitQuestion, Step, TypeOK
  <2>2. ~Has(Answer(t), begun) /\ Answer(t) \notin committed' /\ Question(t) \in committed'
    BY <2>1, MessagesDiffer DEF BegunInv
  <2> QED BY <2>1, <2>2, BegunStays
<1>3. CASE CommitAnswer(t)
  <2>1. /\ begun' = begun /\ committed' = committed \cup {Answer(t)}
        /\ pc[t] = "commit_answer" /\ pc'[t] = "append_answer"
    BY <1>3 DEF CommitAnswer, Step, TypeOK
  <2>2. Question(t) \in committed' /\ Answer(t) \in committed'
    BY <2>1 DEF BegunInv, AskedAt
  <2> QED BY <2>1, <2>2, BegunStays
<1>4. CASE ~(Begin(t) \/ BeginAnswer(t) \/ CommitQuestion(t) \/ CommitAnswer(t))
  <2>1. begun' = begun /\ committed' = committed
    BY <1>4 DEF TurnChange, TurnStep, Refuse, LoadConversation, CheckBuffer, ReadRecent,
       Warm, AppendQuestion, LoadMemory, AppendAnswer, Fail, dbVars
  <2>2. /\ pc'[t] \in AskedAt => pc[t] \in AskedAt
        /\ pc'[t] # "append_answer"
        /\ pc[t] \in {"commit_answer", "append_answer", "done", "failed"} => pc'[t] \in {"done", "failed"}
    BY <1>4 DEF TurnChange, TurnStep, Refuse, LoadConversation, CheckBuffer, ReadRecent,
       Warm, AppendQuestion, LoadMemory, AppendAnswer, Fail, Step, AskedAt, TypeOK
  <2> QED BY <2>1, <2>2, BegunStays DEF BegunInv
<1> QED BY <1>1, <1>2, <1>3, <1>4

-----------------------------------------------------------------------------
\* What is committed stays so.
LEMMA ShownStays ==
  ASSUME NEW s, Shown(s), committed \subseteq committed'
  PROVE  Ordered(s) /\ \A i \in DOMAIN s : s[i] \in committed'
BY DEF Shown

LEMMA TurnNames ==
  /\ \A t \in Turns : Question(t)' = Question(t) /\ Answer(t)' = Answer(t)
  /\ Message' = Message
BY DEF Question, Answer, Message

\* The message a turn pushes is committed, and no answer to it is in the buffer.
LEMMA PushIsShown ==
  ASSUME ChatInv, NEW t \in Turns, NEW m,
         \/ m = Question(t) /\ pc[t] = "append_user"
         \/ m = Answer(t) /\ pc[t] = "append_answer"
  PROVE  Shown(Push(m))
<1> USE DEF ChatInv
<1>1. m \in Message /\ m \in committed
  BY MessagesDiffer DEF BegunInv, AskedAt
<1>2. ASSUME NEW u \in Turns, m = Question(u) PROVE ~Has(Answer(u), buffer)
  <2>1. u = t /\ pc[t] = "append_user"
    BY <1>2, MessagesDiffer
  <2>2. Answer(t) \notin committed
    BY <2>1 DEF BegunInv
  <2> QED BY <2>1, <2>2 DEF Has, ListsInv, Shown
<1>3. buffer \in Seq(Message) /\ Shown(buffer)
  BY DEF TypeOK, ListsInv
<1>4. Ordered(Append(buffer, m))
  BY <1>1, <1>2, <1>3, AppendKeeps DEF Shown
<1>5. Shown(Append(buffer, m))
  BY <1>1, <1>3, <1>4, AppendKeeps
<1> QED BY <1>1, <1>5, PushIsList, SublistKeeps

LEMMA BufferStep ==
  ASSUME ChatInv, NEW t \in Turns, TurnChange(t)
  PROVE  Shown(buffer') /\ Len(buffer') <= BufferSize
<1> USE DEF ChatInv
<1>1. CASE buffer' = buffer
  BY <1>1 DEF ListsInv
<1>2. CASE Warm(t) /\ buffer' # buffer
  <2>1. buffer' = LastOf(BufferSize, recent[t])
    BY <1>2 DEF Warm
  <2>2. recent[t] \in Seq(Message) /\ Shown(recent[t]) /\ BufferSize \in Nat
    BY SizesAssumption DEF TypeOK, ListsInv, SizesAssumption
  <2> QED BY <2>1, <2>2, LastOfIsSublist, SublistKeeps
<1>3. CASE AppendQuestion(t)
  <2>1. buffer' = Push(Question(t)) /\ pc[t] = "append_user"
    BY <1>3 DEF AppendQuestion, Step
  <2> QED BY <2>1, PushIsShown, PushIsList, MessagesDiffer
<1>4. CASE AppendAnswer(t)
  <2>1. buffer' = Push(Answer(t)) /\ pc[t] = "append_answer"
    BY <1>4 DEF AppendAnswer, Step
  <2> QED BY <2>1, PushIsShown, PushIsList, MessagesDiffer
<1>5. CASE ~(Warm(t) \/ AppendQuestion(t) \/ AppendAnswer(t))
  <2>1. buffer' = buffer
    BY <1>5 DEF TurnChange, TurnStep, Begin, Refuse, LoadConversation, CommitQuestion, CheckBuffer,
       ReadRecent, LoadMemory, BeginAnswer, CommitAnswer, Fail
  <2> QED BY <2>1, <1>1
<1> QED BY <1>1, <1>2, <1>3, <1>4, <1>5

\* What a turn has read is what the transcript and the buffer were.
LEMMA ReadingsStep ==
  ASSUME ChatInv, NEW t \in Turns, TurnChange(t)
  PROVE  /\ Shown(recent'[t]) /\ \A m \in Message : Once(m, recent'[t])
         /\ Shown(history'[t]) /\ Len(history'[t]) <= BufferSize
         /\ \A m \in Message : Twice(m, history'[t])
<1> USE DEF ChatInv
<1>1. \/ recent'[t] = recent[t] \/ recent'[t] = <<>> \/ recent'[t] = LastOf(RecentLimit, Log)
  BY DEF TurnChange, TurnStep, Begin, Refuse, LoadConversation, CommitQuestion, CheckBuffer, ReadRecent,
     Warm, AppendQuestion, LoadMemory, BeginAnswer, CommitAnswer, AppendAnswer, Fail, Drop, TypeOK
<1>2. \/ history'[t] = history[t] \/ history'[t] = <<>> \/ history'[t] = buffer
  BY DEF TurnChange, TurnStep, Begin, Refuse, LoadConversation, CommitQuestion, CheckBuffer, ReadRecent,
     Warm, AppendQuestion, LoadMemory, BeginAnswer, CommitAnswer, AppendAnswer, Fail, Drop, TypeOK
<1>3. Shown(LastOf(RecentLimit, Log)) /\ \A m \in Message : Once(m, LastOf(RecentLimit, Log))
  BY LogIsShown, LastOfIsSublist, SublistKeeps, SizesAssumption DEF SizesAssumption
<1>4. Shown(recent'[t]) /\ \A m \in Message : Once(m, recent'[t])
  BY <1>1, <1>3, EmptyList DEF ListsInv
<1>5. /\ Shown(history'[t]) /\ Len(history'[t]) <= BufferSize
      /\ \A m \in Message : Twice(m, history'[t])
  <2>1. 0 <= BufferSize
    BY SizesAssumption DEF SizesAssumption
  <2> QED BY <1>2, <2>1, EmptyList DEF ListsInv, TwiceInv
<1> QED BY <1>4, <1>5

LEMMA ListsStep ==
  ASSUME ChatInv, NEW t \in Turns, TurnChange(t)
  PROVE  ListsInv'
<1> USE DEF ChatInv
<1>1. committed \subseteq committed'
  BY TurnFrame
<1>2. Shown(buffer)' /\ (Len(buffer) <= BufferSize)'
  BY <1>1, BufferStep, TurnNames DEF Shown, Ordered
<1>3. ASSUME NEW u \in Turns
      PROVE  /\ Shown(recent'[u]) /\ Shown(history'[u]) /\ Len(history'[u]) <= BufferSize
             /\ \A m \in Message : Once(m, recent'[u]) /\ Twice(m, history'[u])
  <2>1. CASE u = t
    BY <2>1, ReadingsStep
  <2>2. CASE u # t
    BY <2>2, TurnFrame DEF ListsInv
  <2> QED BY <2>1, <2>2
<1>4. ASSUME NEW u \in Turns
      PROVE  Shown(recent[u])' /\ Shown(history[u])'
  BY <1>1, <1>3, TurnNames DEF Shown, Ordered
<1>5. ASSUME NEW u \in Turns
      PROVE  \A m \in Message' : Once(m, recent[u])' /\ Twice(m, history[u])'
  BY <1>3, TurnNames DEF Once, Twice
<1> QED BY <1>2, <1>3, <1>4, <1>5 DEF ListsInv

\* A push brings one place more of its message, and drops others.
LEMMA PushCopies ==
  ASSUME TypeOK, NEW m \in Message, Once(m, buffer), \A x \in Message : Twice(x, buffer)
  PROVE  /\ \A x \in Message : Twice(x, Push(m))
         /\ \A x \in Message : x # m /\ Once(x, buffer) => Once(x, Push(m))
<1>1. buffer \in Seq(Message)
  BY DEF TypeOK
<1>2. ASSUME NEW x \in Message
      PROVE  Twice(x, Append(buffer, m)) /\ (x # m /\ Once(x, buffer) => Once(x, Append(buffer, m)))
  <2>1. CASE x = m
    BY <2>1, <1>1, AppendKeeps
  <2>2. CASE x # m
    BY <2>2, <1>1, AppendKeeps
  <2> QED BY <2>1, <2>2
<1> QED BY <1>2, PushIsList, SublistKeeps

\* Where a turn has pushed neither of its messages, or only its question.
LEMMA PushedAt ==
  ASSUME ChatInv, NEW t \in Turns, TurnChange(t)
  PROVE  /\ AppendQuestion(t) => pc[t] = "append_user" /\ pc'[t] = "agent"
         /\ AppendAnswer(t) => pc[t] = "append_answer" /\ pc'[t] = "done"
         /\ pc'[t] \notin {"agent", "stream", "commit_answer", "append_answer", "done", "failed"}
              => pc[t] \notin {"agent", "stream", "commit_answer", "append_answer", "done", "failed"}
         /\ pc'[t] \notin {"done", "failed"} => pc[t] \notin {"done", "failed"}
<1> USE DEF ChatInv
<1>1. AppendQuestion(t) => pc[t] = "append_user" /\ pc'[t] = "agent"
  BY DEF AppendQuestion, Step, TypeOK
<1>2. AppendAnswer(t) => pc[t] = "append_answer" /\ pc'[t] = "done"
  BY DEF AppendAnswer, Step, TypeOK
<1>3. pc[t] \notin {"done", "failed"}
  BY DEF TurnChange, TurnStep, Begin, Refuse, LoadConversation, CommitQuestion, CheckBuffer, ReadRecent,
     Warm, AppendQuestion, LoadMemory, BeginAnswer, CommitAnswer, AppendAnswer, Fail, TypeOK, Step
<1>4. pc'[t] \notin {"agent", "stream", "commit_answer", "append_answer", "done", "failed"}
        => pc[t] \notin {"agent", "stream", "commit_answer", "append_answer"}
  BY DEF TurnChange, TurnStep, Begin, Refuse, LoadConversation, CommitQuestion, CheckBuffer, ReadRecent,
     Warm, AppendQuestion, LoadMemory, BeginAnswer, CommitAnswer, AppendAnswer, Fail, TypeOK, Step
<1> QED BY <1>1, <1>2, <1>3, <1>4

LEMMA TwiceStep ==
  ASSUME ChatInv, NEW t \in Turns, TurnChange(t)
  PROVE  TwiceInv'
<1> USE DEF ChatInv
<1> DEFINE early == {"agent", "stream", "commit_answer", "append_answer", "done", "failed"}
           Fits(b, u, p) == /\ p \notin early => Once(Question(u), b)
                            /\ p \notin {"done", "failed"} => Once(Answer(u), b)
<1>1. /\ \A m \in Message : Twice(m, buffer)
      /\ \A u \in Turns : Fits(buffer, u, pc[u])
  BY DEF TwiceInv
<1>2. \A u \in Turns : u # t => pc'[u] = pc[u]
  BY TurnFrame
<1>3. /\ pc'[t] \notin early => pc[t] \notin early
      /\ pc'[t] \notin {"done", "failed"} => pc[t] \notin {"done", "failed"}
  BY PushedAt
<1>4. \A u \in Turns : Fits(buffer, u, pc'[u])
  <2> SUFFICES ASSUME NEW u \in Turns PROVE Fits(buffer, u, pc'[u])
    OBVIOUS
  <2>1. CASE u = t
    BY <2>1, <1>1, <1>3
  <2>2. CASE u # t
    BY <2>2, <1>1, <1>2
  <2> QED BY <2>1, <2>2
<1>5. /\ \A m \in Message : Twice(m, buffer')
      /\ \A u \in Turns : Fits(buffer', u, pc'[u])
  <2>1. CASE buffer' = buffer
    BY <2>1, <1>1, <1>4
  <2>2. CASE Warm(t) /\ buffer' # buffer
    <3>1. buffer' = LastOf(BufferSize, recent[t])
      BY <2>2 DEF Warm
    <3>2. /\ recent[t] \in Seq(Message) /\ BufferSize \in Nat
          /\ \A m \in Message : Once(m, recent[t])
      BY SizesAssumption DEF TypeOK, ListsInv, SizesAssumption
    <3>3. \A m \in Message : Once(m, buffer')
      BY <3>1, <3>2, LastOfIsSublist, SublistKeeps
    <3>4. \A m \in Message : Twice(m, buffer')
      BY <3>3 DEF Once, Twice
    <3> QED BY <3>3, <3>4, MessagesDiffer
  <2>3. CASE AppendQuestion(t)
    <3>1. buffer' = Push(Question(t)) /\ pc[t] \notin early /\ pc'[t] \in early
      BY <2>3, PushedAt DEF AppendQuestion
    <3>2. Once(Question(t), buffer) /\ Question(t) \in Message
      BY <3>1, <1>1, MessagesDiffer
    <3>3. \A x \in Message : x # Question(t) /\ Once(x, buffer) => Once(x, buffer')
      BY <3>1, <3>2, <1>1, PushCopies
    <3>4. ASSUME NEW u \in Turns PROVE Fits(buffer', u, pc'[u])
      <4>1. Once(Answer(u), buffer) => Once(Answer(u), buffer')
        BY <3>3, MessagesDiffer
      <4>2. u # t /\ Once(Question(u), buffer) => Once(Question(u), buffer')
        BY <3>3, MessagesDiffer
      <4> QED BY <4>1, <4>2, <3>1, <1>4
    <3> QED BY <3>1, <3>2, <3>4, <1>1, PushCopies
  <2>4. CASE AppendAnswer(t)
    <3>1. buffer' = Push(Answer(t)) /\ pc[t] \notin {"done", "failed"} /\ pc'[t] = "done"
      BY <2>4, PushedAt DEF AppendAnswer
    <3>2. Once(Answer(t), buffer) /\ Answer(t) \in Message
      BY <3>1, <1>1, MessagesDiffer
    <3>3. \A x \in Message : x # Answer(t) /\ Once(x, buffer) => Once(x, buffer')
      BY <3>1, <3>2, <1>1, PushCopies
    <3>4. ASSUME NEW u \in Turns PROVE Fits(buffer', u, pc'[u])
      <4>1. Once(Question(u), buffer) => Once(Question(u), buffer')
        BY <3>3, MessagesDiffer
      <4>2. u # t /\ Once(Answer(u), buffer) => Once(Answer(u), buffer')
        BY <3>3, MessagesDiffer
      <4> QED BY <4>1, <4>2, <3>1, <1>4
    <3> QED BY <3>1, <3>2, <3>4, <1>1, PushCopies
  <2>5. CASE ~(Warm(t) \/ AppendQuestion(t) \/ AppendAnswer(t))
    <3>1. buffer' = buffer
      BY <2>5 DEF TurnChange, TurnStep, Begin, Refuse, LoadConversation, CommitQuestion, CheckBuffer,
         ReadRecent, LoadMemory, BeginAnswer, CommitAnswer, Fail
    <3> QED BY <3>1, <2>1
  <2> QED BY <2>1, <2>2, <2>3, <2>4, <2>5
<1>6. \A m \in Message' : Twice(m, buffer)'
  BY <1>5, TurnNames DEF Twice
<1>7. ASSUME NEW u \in Turns
      PROVE  /\ pc'[u] \notin early => Once(Question(u), buffer)'
             /\ pc'[u] \notin {"done", "failed"} => Once(Answer(u), buffer)'
  BY <1>5, TurnNames DEF Once
<1> QED BY <1>6, <1>7 DEF TwiceInv

LEMMA LostBuffer ==
  ASSUME ChatInv, LoseBuffer
  PROVE  ChatInv'
<1> USE DEF ChatInv
<1>1. /\ buffer' = <<>> /\ UNCHANGED <<begun, committed, count, pc, seen, recent, history, faults>>
      /\ losses' \in 0 .. MaxLosses
  BY FaultsAssumption DEF LoseBuffer, dbVars, turnVars, TypeOK, FaultsAssumption
<1>2. TypeOK'
  BY <1>1, TurnNames, EmptyList DEF TypeOK
<1>3. BegunInv'
  BY <1>1, TurnNames DEF BegunInv, Ordered, Once, Has
<1>4. ListsInv'
  <2>1. Shown(buffer)' /\ (Len(buffer) <= BufferSize)'
    BY <1>1, SizesAssumption DEF Shown, Ordered, SizesAssumption
  <2>2. ASSUME NEW u \in Turns
        PROVE  /\ Shown(recent[u])' /\ Shown(history[u])' /\ (Len(history[u]) <= BufferSize)'
               /\ \A m \in Message' : Once(m, recent[u])' /\ Twice(m, history[u])'
    BY <1>1, TurnNames DEF ListsInv, Shown, Ordered, Once, Twice
  <2> QED BY <2>1, <2>2 DEF ListsInv
<1>5. TwiceInv'
  BY <1>1 DEF TwiceInv, Once, Twice
<1> QED BY <1>2, <1>3, <1>4, <1>5

LEMMA NextChat == ChatInv /\ [Next]_vars => ChatInv'
<1> SUFFICES ASSUME ChatInv, [Next]_vars PROVE ChatInv'
  OBVIOUS
<1>1. CASE LoseBuffer
  BY <1>1, LostBuffer
<1>2. ASSUME NEW t \in Turns, TurnChange(t) PROVE ChatInv'
  BY <1>2, TypeStep, BegunStep, ListsStep, TwiceStep DEF ChatInv
<1>3. CASE UNCHANGED vars
  <2> USE <1>3 DEF vars, dbVars, turnVars, boundVars, ChatInv
  <2>1. TypeOK'
    BY TurnNames DEF TypeOK
  <2>2. BegunInv'
    BY TurnNames DEF BegunInv, Ordered, Once, Has
  <2>3. ListsInv'
    BY TurnNames DEF ListsInv, Shown, Ordered, Once, Twice
  <2>4. TwiceInv'
    BY TurnNames DEF TwiceInv, Once, Twice
  <2> QED BY <2>1, <2>2, <2>3, <2>4
<1> QED BY <1>1, <1>2, <1>3 DEF Next, TurnChange

-----------------------------------------------------------------------------
\* The invariant that carries the theorems below: where the messages of each
\* turn are, and that what is read or shown is committed and in order.
THEOREM ChatIsInductive == Spec => []ChatInv
BY InitChat, NextChat, PTL DEF Spec

\* Messages, counters and lists stay what they are declared to be.
THEOREM ChatTyped == Spec => []TypeOK
<1>1. ChatInv => TypeOK
  BY DEF ChatInv
<1> QED BY ChatIsInductive, <1>1, PTL

\* What a turn sends to the model: a history in order, then its question, to
\* which there is no answer yet.
LEMMA PromptIsShown ==
  ASSUME ChatInv, NEW t \in Asking
  PROVE  /\ t \in Turns /\ Prompt(t) \in Seq(Message) /\ Shown(Prompt(t))
         /\ Len(Prompt(t)) = Len(history[t]) + 1
<1> USE DEF ChatInv
<1>1. t \in Turns /\ pc[t] = "stream"
  BY DEF Asking
<1>2. Question(t) \in Message /\ Question(t) \in committed /\ Answer(t) \notin committed
  BY <1>1, MessagesDiffer DEF BegunInv, AskedAt
<1>3. history[t] \in Seq(Message) /\ Shown(history[t])
  BY <1>1 DEF TypeOK, ListsInv
<1>4. ASSUME NEW u \in Turns, Question(t) = Question(u) PROVE ~Has(Answer(u), history[t])
  <2>1. u = t
    BY <1>1, <1>4, MessagesDiffer
  <2> QED BY <2>1, <1>2, <1>3 DEF Has, Shown
<1>5. Ordered(Append(history[t], Question(t)))
  BY <1>2, <1>3, <1>4, AppendKeeps DEF Shown
<1>6. Shown(Append(history[t], Question(t))) /\ Append(history[t], Question(t)) \in Seq(Message)
  BY <1>2, <1>3, <1>5, AppendKeeps
<1>7. Len(Append(history[t], Question(t))) = Len(history[t]) + 1
  BY <1>3
<1> QED BY <1>1, <1>6, <1>7 DEF Prompt

\* No prompt shows the model a message that is not in the transcript, whatever
\* warm-ups, lost buffers and failures there were.
THEOREM PromptsAreCommitted == Spec => []OnlyCommittedInPrompts
<1>1. ChatInv => OnlyCommittedInPrompts
  <2> SUFFICES ASSUME ChatInv, NEW s \in {buffer} \cup {Prompt(t) : t \in Asking}
               PROVE  ToSet(s) \subseteq committed
    BY DEF OnlyCommittedInPrompts
  <2>1. Shown(s)
    BY PromptIsShown DEF ChatInv, ListsInv
  <2> QED BY <2>1 DEF Shown, ToSet
<1> QED BY ChatIsInductive, <1>1, PTL

\* No reader of the conversation sees an answer before its question, for any
\* number of overlapping turns.
THEOREM QuestionsComeFirst == Spec => []AnswersFollowQuestions
<1>1. ChatInv => AnswersFollowQuestions
  <2> SUFFICES ASSUME ChatInv,
                      NEW t \in Turns, NEW s \in {Log, buffer} \cup {Prompt(u) : u \in Asking},
                      NEW i \in Copies(Question(t), s), NEW j \in Copies(Answer(t), s)
               PROVE  i < j
    BY DEF AnswersFollowQuestions
  <2>1. Ordered(s)
    BY LogIsShown, PromptIsShown DEF ChatInv, ListsInv, Shown
  <2> QED BY <2>1 DEF Ordered, Copies
<1> QED BY ChatIsInductive, <1>1, PTL

LEMMA AtMostTwo ==
  ASSUME NEW C, \A i, j, k \in C : i = j \/ i = k \/ j = k
  PROVE  Cardinality(C) <= 2
<1>1. CASE C = {}
  BY <1>1, FS_EmptySet
<1>2. CASE \E i : C = {i}
  BY <1>2, FS_Singleton
<1>3. CASE C # {} /\ ~(\E i : C = {i})
  <2>1. PICK i \in C : TRUE
    BY <1>3
  <2>2. PICK j \in C : j # i
    BY <2>1, <1>3
  <2>3. C = {i} \cup {j}
    BY <2>2
  <2>4. IsFiniteSet({i}) /\ Cardinality({i}) = 1
    BY FS_Singleton
  <2>5. Cardinality({i} \cup {j}) = 1 \/ Cardinality({i} \cup {j}) = 1 + 1
    BY <2>4, FS_AddElement
  <2> QED BY <2>3, <2>5
<1> QED BY <1>1, <1>2, <1>3

LEMMA TwiceIsTwo ==
  ASSUME NEW s, NEW m, Twice(m, s)
  PROVE  Cardinality(Copies(m, s)) <= 2
<1>1. \A i \in Copies(m, s) : i \in DOMAIN s /\ s[i] = m
  BY DEF Copies
<1>2. \A i, j, k \in Copies(m, s) : i = j \/ i = k \/ j = k
  BY <1>1 DEF Twice
<1> QED BY <1>2, AtMostTwo

\* The question at the end of a prompt is one place more.
LEMMA OneMore ==
  ASSUME NEW r \in Seq(Message), NEW m \in Message, NEW x \in Message, Twice(x, r)
  PROVE  Cardinality(Copies(x, Append(r, m))) <= IF x = m THEN 3 ELSE 2
<1> DEFINE a == Append(r, m)
           n == Len(r) + 1
<1>1. /\ Len(r) \in Nat /\ DOMAIN r = 1 .. Len(r) /\ DOMAIN a = 1 .. n
      /\ a[n] = m /\ \A i \in DOMAIN r : a[i] = r[i]
  OBVIOUS
<1>2. \A i \in DOMAIN a : i \in DOMAIN r \/ i = n
  BY <1>1
<1>3. n \in DOMAIN a /\ \A i \in DOMAIN r : i \in DOMAIN a
  BY <1>1
<1> HIDE DEF a, n
<1>4. \A i, j, k \in Copies(x, r) : i = j \/ i = k \/ j = k
  BY DEF Twice, Copies
<1>5. IsFiniteSet(Copies(x, r)) /\ Cardinality(Copies(x, r)) <= 2 /\ Cardinality(Copies(x, r)) \in Nat
  <2>1. IsFiniteSet(DOMAIN r)
    BY <1>1, FS_Interval
  <2>2. IsFiniteSet(Copies(x, r))
    BY <2>1, FS_Subset DEF Copies
  <2> QED BY <1>4, <2>2, AtMostTwo, FS_CardinalityType
<1>6. CASE x = m
  <2>1. Copies(x, a) = Copies(x, r) \cup {n}
    BY <1>1, <1>2, <1>3, <1>6 DEF Copies
  <2> DEFINE C == Copies(x, r)
  <2> HIDE DEF C
  <2>2. IsFiniteSet(C)
    BY <1>5 DEF C
  <2>3. /\ IsFiniteSet(C \cup {n})
        /\ Cardinality(C \cup {n}) = Cardinality(C) \/ Cardinality(C \cup {n}) = Cardinality(C) + 1
    BY <2>2, FS_AddElement
  <2> QED BY <1>5, <1>6, <2>1, <2>3 DEF a, C
<1>7. CASE x # m
  <2>1. Copies(x, a) = Copies(x, r)
    BY <1>1, <1>2, <1>3, <1>7 DEF Copies
  <2> QED BY <1>5, <1>7, <2>1 DEF a
<1> QED BY <1>6, <1>7

\* The buffer has at most short_term_buffer_size messages and a prompt one more;
\* no message is in the buffer three times, and in a prompt only its own
\* question can be, for any sizes and any number of turns.
THEOREM PromptsAreBounded == Spec => []BoundedPrompts
<1>1. ChatInv => BoundedPrompts
  <2> SUFFICES ASSUME ChatInv PROVE BoundedPrompts
    OBVIOUS
  <2>1. Len(buffer) <= BufferSize /\ \A m \in Message : Cardinality(Copies(m, buffer)) <= 2
    BY TwiceIsTwo DEF ChatInv, ListsInv, TwiceInv
  <2>2. ASSUME NEW t \in Asking
        PROVE  /\ Len(Prompt(t)) <= BufferSize + 1
               /\ \A m \in Message :
                    Cardinality(Copies(m, Prompt(t))) <= IF m = Question(t) THEN 3 ELSE 2
    <3>1. t \in Turns /\ Len(Prompt(t)) = Len(history[t]) + 1
      BY PromptIsShown
    <3>2. /\ history[t] \in Seq(Message) /\ Len(history[t]) <= BufferSize
          /\ \A m \in Message : Twice(m, history[t])
      BY <3>1 DEF ChatInv, TypeOK, ListsInv
    <3>3. Len(history[t]) + 1 <= BufferSize + 1
      BY <3>2, SizesAssumption DEF SizesAssumption
    <3> QED BY <3>1, <3>2, <3>3, OneMore, MessagesDiffer DEF Prompt
  <2> QED BY <2>1, <2>2 DEF BoundedPrompts
<1> QED BY ChatIsInductive, <1>1, PTL
=============================================================================
