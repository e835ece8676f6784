---------------------------- MODULE ProviderCache ----------------------------
(***************************************************************************)
(* The two-level cache in front of the LLM provider (llm/client.py):       *)
(* embed with its per-text lookups, batches and retries, and complete,     *)
(* which does the same with one text and a batch of one.  The first level  *)
(* is an LRU list in each process, the second is Redis with a time to      *)
(* live.  Calls of several processes interleave at every await.            *)
(*                                                                         *)
(* A cached value is named by the text the provider produced it for, so a  *)
(* value that differs from its key was stored under the wrong text.        *)
(***************************************************************************)
EXTENDS Integers, Sequences, FiniteSets, Orders

CONSTANTS
  Callers,         \* calls of embed or complete
  Hosts,           \* processes, each with its LRU
  HostOf,          \* the process of each call
  Texts,           \* texts, or whole prompts
  Inputs,          \* lists of texts a call may be made with
  BatchOf,         \* embedding_batch_size
  Capacity,        \* of the LRU
  MaxAttempts,     \* llm_max_retries
  MaxCallFaults,   \* bound: calls of Redis or the provider that go wrong
  MaxEvictions     \* bound: entries Redis drops

ASSUME ProviderAssumption ==
  /\ HostOf \in [Callers -> Hosts]
  /\ Inputs \subseteq Seq(Texts) \ {<<>>}
  /\ BatchOf \in Nat \ {0} /\ Capacity \in Nat \ {0} /\ MaxAttempts \in Nat \ {0}
  /\ MaxCallFaults \in Nat /\ MaxEvictions \in Nat

VARIABLES
  lru,        \* per process: <<text, value>>, the most recently used last
  redis,      \* set of <<text, value>>
  dropped,    \* texts whose entry Redis has dropped (history)
  evictions,  \* entries dropped so far (bounded by MaxEvictions)
  kpc,        \* where each call is
  input,      \* its texts
  looked,     \* how many of them it has looked up
  misses,     \* positions still to be embedded, in order
  due,        \* how many of these the batch under way still has to store
  answer,     \* vectors of that batch still to be stored
  attempts,   \* failed attempts at that batch
  results,    \* set of <<position, value>>
  asked,      \* texts the call has sent to the provider (history)
  known,      \* texts that Redis held when the call began (history)
  callFaults  \* faults so far (bounded by MaxCallFaults)

cacheVars == <<lru, redis, dropped, evictions>>
workVars == <<looked, misses, due, answer, attempts, results, asked>>
callVars == <<kpc, input, workVars, known, callFaults>>
providerVars == <<cacheVars, callVars>>

ProviderTypeOK ==
  /\ \A h \in Hosts : lru[h] \in Seq(Texts \X Texts) /\ Len(lru[h]) <= Capacity
  /\ redis \in SUBSET (Texts \X Texts)
  /\ dropped \in SUBSET Texts /\ evictions \in 0 .. MaxEvictions
  /\ kpc \in [Callers -> {"new", "look", "send", "store", "done", "failed"}]
  /\ \A c \in Callers :
       /\ input[c] \in Seq(Texts) /\ looked[c] \in 0 .. Len(input[c])
       /\ misses[c] \in Seq(DOMAIN input[c]) /\ due[c] \in 0 .. BatchOf
       /\ answer[c] \in Seq(Texts) /\ attempts[c] \in 0 .. MaxAttempts
       /\ results[c] \in SUBSET ((DOMAIN input[c]) \X Texts)
  /\ asked \in [Callers -> SUBSET Texts] /\ known \in [Callers -> SUBSET Texts]
  /\ callFaults \in 0 .. MaxCallFaults

ProviderInit ==
  /\ lru = [h \in Hosts |-> <<>>] /\ redis = {} /\ dropped = {} /\ evictions = 0
  /\ kpc = [c \in Callers |-> "new"]
  /\ input = [c \in Callers |-> <<>>]
  /\ looked = [c \in Callers |-> 0] /\ misses = [c \in Callers |-> <<>>]
  /\ due = [c \in Callers |-> 0] /\ answer = [c \in Callers |-> <<>>]
  /\ attempts = [c \in Callers |-> 0] /\ results = [c \in Callers |-> {}]
  /\ asked = [c \in Callers |-> {}] /\ known = [c \in Callers |-> {}]
  /\ callFaults = 0

Turn(c, place) == kpc' = [kpc EXCEPT ![c] = place]
Keep(c, entry) == results' = [results EXCEPT ![c] = @ \cup {entry}]
Keys(s) == {e[1] : e \in s}

\* Mutant of Touch: nothing is evicted.
TouchAndKeepAll(list, entry) ==
  Append(AtPlaces(list, {i \in DOMAIN list : list[i][1] # entry[1]}), entry)

\* _LRU.set, and the move_to_end of _LRU.get.
Touch(list, entry) ==
  LET moved == Append(AtPlaces(list, {i \in DOMAIN list : list[i][1] # entry[1]}), entry)
  IN  IF Len(moved) > Capacity THEN Tail(moved) ELSE moved

Remember(c, entry) == lru' = [lru EXCEPT ![HostOf[c]] = Touch(@, entry)]

CallProvider(c) ==
  /\ kpc[c] = "new" /\ Turn(c, "look")
  /\ \E list \in Inputs : input' = [input EXCEPT ![c] = list]
  /\ known' = [known EXCEPT ![c] = Keys(redis)]
  /\ UNCHANGED <<cacheVars, workVars, callFaults>>

\* Mutant of Cached: Redis is never asked.
CachedNearby(c) ==
  {e \in {lru[HostOf[c]][i] : i \in DOMAIN lru[HostOf[c]]} : e[1] = input[c][looked[c] + 1]}

\* The next text, looked up in the process and then in Redis.
Cached(c) ==
  LET t == input[c][looked[c] + 1]
      near == {e \in {lru[HostOf[c]][i] : i \in DOMAIN lru[HostOf[c]]} : e[1] = t}
  IN  IF near # {} THEN near ELSE {e \in redis : e[1] = t}

After(c, missed) ==
  IF looked[c] + 1 < Len(input[c]) THEN "look"
  ELSE IF missed = <<>> THEN "done" ELSE "send"

Hit(c) ==
  /\ kpc[c] = "look"
  /\ \E entry \in Cached(c) :
       Remember(c, entry) /\ Keep(c, <<looked[c] + 1, entry[2]>>)
  /\ looked' = [looked EXCEPT ![c] = @ + 1]
  /\ Turn(c, After(c, misses[c]))
  /\ UNCHANGED <<redis, dropped, evictions, input, misses, due, answer,
                 attempts, asked, known, callFaults>>

Miss(c) ==
  /\ kpc[c] = "look" /\ Cached(c) = {}
  /\ misses' = [misses EXCEPT ![c] = Append(@, looked[c] + 1)]
  /\ looked' = [looked EXCEPT ![c] = @ + 1]
  /\ Turn(c, After(c, misses'[c]))
  /\ UNCHANGED <<cacheVars, input, due, answer, attempts, results, asked,
                 known, callFaults>>

\* The batch: the first BatchOf misses that have no result yet.
Batch(c) == SubSeq(misses[c], 1, IF Len(misses[c]) < BatchOf THEN Len(misses[c]) ELSE BatchOf)
TextsOf(c, positions) == [i \in DOMAIN positions |-> input[c][positions[i]]]

\* The provider answers with the first n vectors of the batch; fewer than all
\* of them is a fault.
Answered(c, n) ==
  /\ kpc[c] = "send" /\ Turn(c, "store")
  /\ due' = [due EXCEPT ![c] = Len(Batch(c))]
  /\ answer' = [answer EXCEPT ![c] = SubSeq(TextsOf(c, Batch(c)), 1, n)]
  /\ asked' = [asked EXCEPT ![c] = @ \cup {input[c][p] : p \in {Batch(c)[i] : i \in DOMAIN Batch(c)}}]
  /\ attempts' = [attempts EXCEPT ![c] = 0]
  /\ UNCHANGED <<cacheVars, input, looked, misses, results, known>>

Embed(c) == Answered(c, Len(Batch(c))) /\ UNCHANGED callFaults

Fault == callFaults < MaxCallFaults /\ callFaults' = callFaults + 1

EmbedShort(c) == Fault /\ \E n \in 0 .. Len(Batch(c)) - 1 : Answered(c, n)

\* A timeout, a lost connection, a 5xx or a 429: the same batch again, until
\* llm_max_retries attempts have been made.
Retryable(c) ==
  /\ kpc[c] = "send" /\ Fault
  /\ attempts' = [attempts EXCEPT ![c] = @ + 1]
  /\ Turn(c, IF attempts[c] + 1 < MaxAttempts THEN "send" ELSE "failed")
  /\ UNCHANGED <<cacheVars, input, looked, misses, due, answer, results, asked, known>>

\* One pair of the zip: the result, the process's cache, then Redis.
StorePair(c, key, p) ==
  LET entry == <<key, Head(answer[c])>> IN
  /\ kpc[c] = "store" /\ answer[c] # <<>>
  /\ Keep(c, <<p, entry[2]>>)
  /\ Remember(c, entry)
  /\ redis' = {e \in redis : e[1] # key} \cup {entry}
  /\ misses' = [misses EXCEPT ![c] = Tail(@)]
  /\ answer' = [answer EXCEPT ![c] = Tail(@)]
  /\ due' = [due EXCEPT ![c] = @ - 1]
  /\ Turn(c, IF due[c] > 1 THEN "store" ELSE IF Len(misses[c]) > 1 THEN "send" ELSE "done")
  /\ UNCHANGED <<dropped, evictions, input, looked, attempts, asked, known, callFaults>>

\* Mutant of Store: the vectors are taken from the other end of the answer's list.
StoreByCount(c) == StorePair(c, input[c][Len(answer[c])], Head(misses[c]))

Store(c) == StorePair(c, input[c][Head(misses[c])], Head(misses[c]))

\* The process's cache is set, and then Redis raises.
StoreFails(c) ==
  /\ kpc[c] = "store" /\ answer[c] # <<>> /\ Fault
  /\ Keep(c, <<Head(misses[c]), Head(answer[c])>>)
  /\ Remember(c, <<input[c][Head(misses[c])], Head(answer[c])>>)
  /\ Turn(c, "failed")
  /\ UNCHANGED <<redis, dropped, evictions, input, looked, misses, due,
                 answer, attempts, asked, known>>

\* zip(strict=True) notices a short answer only when it runs out of it.
NoticeShort(c) ==
  /\ kpc[c] = "store" /\ answer[c] = <<>>
  /\ Turn(c, "failed")
  /\ UNCHANGED <<cacheVars, input, workVars, known, callFaults>>

\* Redis raises, or the provider does with an error that is not retried.
CallFails(c) ==
  /\ kpc[c] \in {"look", "send"} /\ Fault
  /\ Turn(c, "failed")
  /\ UNCHANGED <<cacheVars, input, workVars, known>>

\* The time to live of an entry passes, or Redis makes room.
Evict ==
  /\ evictions < MaxEvictions /\ evictions' = evictions + 1
  /\ \E e \in redis : redis' = redis \ {e} /\ dropped' = dropped \cup {e[1]}
  /\ UNCHANGED <<lru, callVars>>

\* A process restarts: its cache is empty and its calls are gone.
HostRestarts(h) ==
  /\ Fault
  /\ lru[h] # <<>> /\ lru' = [lru EXCEPT ![h] = <<>>]
  /\ kpc' = [c \in Callers |->
               IF HostOf[c] = h /\ kpc[c] \notin {"new", "done"} THEN "failed" ELSE kpc[c]]
  /\ UNCHANGED <<redis, dropped, evictions, input, workVars, known>>

\* complete is these steps with one text, its whole prompt: its two lookups, its
\* call and its two stores.
ProviderStep(c) ==
  Hit(c) \/ Miss(c) \/ Embed(c) \/ Store(c) \/ NoticeShort(c)

ProviderNext ==
  \/ Evict
  \/ \E h \in Hosts : HostRestarts(h)
  \/ \E c \in Callers :
       CallProvider(c) \/ ProviderStep(c) \/ EmbedShort(c) \/ Retryable(c) \/ StoreFails(c)
       \/ CallFails(c)

ProviderSpec == ProviderInit /\ [][ProviderNext]_providerVars

-----------------------------------------------------------------------------
\* Results follow the input whatever was found where and in however many
\* batches, with repeated texts too, and both caches hold under each key what
\* the provider produced for it, even when an answer is cut short
\* (client.py:207-255).
ValuesBelongToTexts ==
  /\ \A h \in Hosts : \A i \in DOMAIN lru[h] : lru[h][i][1] = lru[h][i][2]
  /\ \A e \in redis : e[1] = e[2]
  /\ \A c \in Callers :
       /\ \A e \in results[c] : e[2] = input[c][e[1]]
       /\ kpc[c] = "done" => Keys(results[c]) = DOMAIN input[c]

\* A text that was cached when a call began is not paid for again unless Redis
\* has dropped it: what the batches before a failure have stored, the retry of
\* the job does not ask for (client.py:211-222, 247-252).
CachedIsNotAskedAgain == \A c \in Callers : asked[c] \cap known[c] \subseteq dropped
=============================================================================
