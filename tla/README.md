# Legal_VietNamese: a verification project

TLA+ models of the repository (a FastAPI API, an arq worker, Postgres, Redis, MinIO and
Qdrant): document ingestion, chat, long-term memory, sessions, rate limiting, start-up,
retrieval, the provider cache, the chunker and the answer stream; the TLC runs that check
them on small instances, and TLAPS proofs that hold for every value of the
constants. `PROJECT.json` lists components, runs, mutants, the source lines behind
each definition, findings, hazards and theorems. Paths below are relative to the
repository (`src/...` is its Python package). The repository has no tests; the
documents under `docs/` are quoted where the code and they disagree.

## 1. The system

| Component | State it keeps | Operations | Interacts by |
|---|---|---|---|
| File upload (`api/routes/files.py`) | `documents` rows, raw objects, jobs | `upload_files`, list, get | one DB transaction, MinIO puts, `enqueue_job` after the commit |
| Ingestion worker (`worker/tasks/ingestion.py`, `ingestion/indexer.py`) | status, `document_chunks`, Qdrant points, `parsed.md` | `process_document` | arq delivers jobs; Redis Pub/Sub events |
| Status stream (`file_events`) | one subscription per client | open, receive, hang up | reads the row, then subscribes |
| Chat turn (`api/routes/chat.py`) | `messages`, `message_count`, short-term buffer | `chat_stream` | two DB sessions, Redis list, agent |
| Short-term memory (`memory/short_term.py`) | Redis list with a TTL | append, read, warm-up, reset | called by the turn and by `load_memory_node` |
| Long-term memory (`worker/tasks/memory.py`, `memory/long_term.py`) | `user_facts`, Qdrant points | `extract_facts`, `save_fact`, `retrieve_user_facts` | job after each answer |
| Rate limiter (`cache/rate_limit.py`) | a sorted set per user and bucket | `allow_request` | dependency of upload and chat |
| Sessions (`api/routes/auth.py`) | users, tenants, refresh tokens | register, login, refresh, logout | one transaction each |
| Retrieval and rerank (`retrieval/`) | cached scores | `rewrite_query`, `retrieve_and_rerank`, `rerank` | search, Cohere and LLM calls |
| LLM client (`llm/client.py`) | process-local LRU, Redis cache | `complete`, `embed` | provider calls in batches, with retry |
| Answer stream (`agent/graph.py`, `gen` of chat.py) | events sent, the answer so far | `run_agent_stream`, `gen` | retrieval, the model's stream, the stores of the turn |
| Chunker (`ingestion/chunkers`), parsers | none | `chunk_document`, `parse_file` | called by the worker |
| Start (`entrypoint.sh`, `scripts/migrate.py`, lifespans) | schema, bucket, collections | migrate, look for, create | several containers and processes at once |

What is hard here: nothing spans Postgres, MinIO, Qdrant and Redis in one
transaction, so every order of two writes and every cut between them matters.
Requests of one tenant race for one checksum; runs of a job are cut off by
exceptions, `job_timeout` (which `except Exception` does not catch) or the death of
the worker and are then delivered again over what they left; several devices
interleave in one conversation over a cache that may vanish; a Pub/Sub event
reaches only those subscribed at that moment. Calls of the limiter overtake each other
between their clock and Redis; registrations and refreshes read before they write;
scores are cached by position and vectors returned by position; a client may hang up
at any await.

What makes each component correct:

* **upload**: a 202 is kept, one document per content, every request ends;
* **worker**: an indexed document is complete and consistent across three stores,
  no attempt's points mix with another's, and crashes alone do not stop it;
* **stream**: what is shown happened, in that order; who listens in time is told
  the end, but for the cases named under `ListenersAreTold`;
* **chat**: buffer and prompt hold only committed messages, questions before answers; the
  buffer is bounded and a prompt has one message more; `message_count` never exceeds the rows;
* **facts**: what search finds has a row, duplicates are bounded by the jobs that run
  at a time, what the model reports is remembered;
* **limiter**: at most `limit` admissions in a window of calls that reach Redis in the order of
  their times, and no refusal without cause; that no window at all holds more, as the documents
  say, is not so (section 5);
* **sessions**: one tenant per slug and user per address, none without the other; a
  spent refresh token is not rotated again by a request that comes later (overlapping ones do,
  section 5); every request is answered;
* **start**: one migration, no process serves over incomplete stores, all come to serve;
* **provider cache**: each text gets its own vector, and what is cached is not bought
  again;
* **retrieval**: the best hits are the candidates, a score belongs to its hit and the
  scores of two rerankers are never compared;
* **chunker**: no text is lost, pages are followed;
* **answer stream**: events in order, a whole answer or none is stored, `done` after it.

## 2. Modules

| Module | Models | Notes |
|---|---|---|
| `DocStore` | the shared stores: `doc`, `rows`, `vectors`, `objects`, `queue` | `set_status` as `SetStatus`; a column is written only when given |
| `Upload` | `upload_files` | one action per await |
| `ProcessDocument` | `process_document` | one action per await, plus `CallRaises`, `Timeout`, `Crash` |
| `Ingestion` | the two halves together | properties, fairness, refinement mapping |
| `DocLifecycle` | what ingestion promises | abstract specification: Create, Begin, Index, Fail |
| `FileEvents` | `file_events` and `_publish` over the job | extends `ProcessDocument` |
| `ChatTurn` | `chat_stream`, the buffer and the conversation repository | |
| `FactMemory` | `extract_facts`, `save_fact` | one user |
| `RateLimit` | `allow_request` | one user and bucket |
| `Sessions` | the four routes of `auth.py` and their repositories | READ COMMITTED transactions |
| `Startup` | entrypoint, `migrate.py`, lifespans, `ensure_bucket`, `ensure_collections` | containers and their processes |
| `ProviderCache` | `embed`, and `complete` as its one-text case | LRU and Redis |
| `Retrieval` | `retrieve_and_rerank`, `rerank` | merge, cut, cache, fallback |
| `Chunker` | `chunk_document`, `_split_by_dieu`, `_emit`, page markers | the splitter is a choice |
| `AnswerStream` | `run_agent_stream` and `gen` | one turn |
| `Services` | the eight modules `FactMemory` to `AnswerStream`, side by side | fairness |
| `Orders` | `sorted`, `order_by` and what a list has at some places | sets put in order, without recursion |
| `OrderLemmas`, `JobLemmas` | lemmas about `Orders`, sequences and numbers; about one step of a job | |
| `IngestionProofs` | proofs about `Ingestion`: worker, upload, lifecycle | |
| `FileProofs`, `ChatProofs`, `FactProofs` | proofs about `FileEvents`, `ChatTurn`, `FactMemory` | |
| `AnsweringProofs` | proofs about `AnswerStream`, `ProviderCache`, `Retrieval` | |
| `ServicesProofs` | proofs about `Chunker`, `RateLimit`, `Sessions`, `Startup`, and `Services` | |
| `MCIngestion`, `MCFileEvents`, `MCChatTurn`, `MCFactMemory`, `MCServices`, `MCChunker`, `MCSessions` | instances for TLC | sets of model values only |
| `MCRateLimit` | an instance in which no two calls read the same time | |

Definitions whose comment begins "Mutant of" are faulty variants used to test that the
properties can fail; no specification uses them.

### State and actions against the code

**Stores.** A document is named `<<request, content>>`: a request inserts at most one
row per content because a second copy in its file list finds the first. `rows[d]`
and `vectors[d]` are sets of `<<chunk_index, attempt>>`; the attempt stands for the
uuids that `index_chunks` draws, so equality of the two sets says that
`qdrant_point_id` of every row names a point and the other way round. One tenant is
modelled: every key of these stores contains the tenant or a fresh uuid.

**Upload.** `rpc[r]` is where the request is. `fresh[r]` holds contents the request has
inserted and not yet committed, later those not yet enqueued. `Visible` is what
`by_checksum` reads under READ COMMITTED. The unique constraint is modelled as
Postgres implements it: an INSERT waits for the open transaction holding the same key
(`WaitsFor`), fails when that has committed (`InsertConflict`), and one of a cycle of
waiting transactions is aborted (`DeadlockVictim`). Any exception rolls back
(`EndInError`), leaving the objects already put. `RequestFails` is an exception of any
call or the death of the API process, also half-way through the enqueues.

**Worker.** `wpc[d]` is the next call of the run of a document. A call that took effect
and then raised is that call followed by `CallRaises`. In the `try` block an exception
leads to `SetFailed`; outside it (load, first publish, the calls of the `except`
clause) it goes straight to arq. `Timeout` leaves the row as it is. `UpsertBatch`
upserts `BatchSize` points.

**arq is external.** From how the code uses it: a job function that returns is done; a
run that dies with its worker is delivered again, at most `MaxTries` times in all;
runs of one job do not overlap, because the in-progress marker outlives
`job_timeout`; at most `MaxJobs` runs at a time. Whether a job that raised is delivered
again differs between kinds of exceptions, so `RetryOnError` lets either happen.

**Queue names.** The code enqueues on arq's default queue and the worker polls
`"default"`, so as it is configured no job is ever run (section 5). The runs give both constants
the same name, which is the deployment the documents describe.

**Stream.** `Open` reads the row, `Subscribe` subscribes, `Greet` sends what `Open` read,
`Receive` forwards. `past` is a history variable with the statuses of each row. `ListenersAreTold`
has five exceptions, each an end of the job that publishes nothing: the client left, a call raised or the
run timed out (`faults`), the worker died between the commit of `indexed` and its publication
(`IndexedUnseen`: the next delivery returns early), or it died in every delivery the job has
(`DeliveriesUsedUp`: arq drops the job). The run `events` reaches all of them.

**Chat.** A message is a turn with a role. `begun` lists messages in the order of
`created_at`, the start of the inserting transaction (`server_default now()`), which
the first query of the session begins; `committed` are the visible rows. `seen` is the
`message_count` the session loaded: `add_message` finds the object in the session and
adds one to that. Redis pipelines are MULTI/EXEC, so `Push` and `Warm` are atomic.
`Prompt(t)` is what `build_answer_messages` sends after the system message: the history that
`LoadMemory` read, then the question once more, which is at the end of that history already. A cold
warm-up, whose rows contain the committed question, makes it the third copy. The properties about
prompts speak of `Prompt`, while the agent may use it (`Asking`), as well as of the buffer.
Retrieval, the system message and the token stream change no modelled state: the
agent ends (`BeginAnswer`) or fails (`Fail`). A turn that has used what it read drops
it (`Drop`), which only merges states.

**Facts.** A record is `<<fact, job, attempt>>`, a row in `rows` and a point in `points`; the
same triple in both is the row's `qdrant_point_id`. What the model answers is any list
of `Extractions`; `Alike` says which facts have one key and a similarity of at least
0.92, so `Known` is not empty exactly when the nearest point is near enough. Qdrant's
search is taken to find that point. `reported` is a history variable with the facts the model
has reported. All of a user's conversations share the points, so
jobs are not told apart by conversation.

**Limiter.** `ReadClock` and `Count` are two steps because `time.time()` is read in the process
before Redis is reached; at most `MaxDelay` passes in between. `Count` is the MULTI: trim,
count, add, expire; an entry is named by its call (the uuid), its score is `stamp`. `Rollback`
deletes by score and so takes tied entries of other calls with it. `Break` is a call that
raises before or between the two: the code lets the exception out, so the request fails.
All processes read one clock. Two history variables name the calls for which the window is not
kept: `late`, the calls counted after one with a later stamp, or more than `Grace` after their own,
when the key may have expired with members of their window (5 seconds in the code); and `erased`, the
calls whose member a rollback took along. `AdmissionsBounded` bounds the others over the whole window;
`AnyWindowHoldsLimit` bounds all, as the documents do, and is violated.

**Sessions.** A step is a SELECT, a flush or a COMMIT; autoflush is off. `ownTenant[r]` and
`commit_user` say what an open transaction holds; `SlugIsFree`, `AddressIsFree` and
`TokenIsFree` are the waits of unique indexes and row locks. A token is named by the request
that issues it. Two overlapping refreshes with one token may both rotate it: the code reads
without a lock, and `revoke_refresh` updates a revoked row again. docs/16:126-130 says that a token is
used once; that is `TokensAreUsedOnce`, which is violated. `TokensAreSpent` is what remains true: a
request that reads the token after another has used it up is refused. A token may be past `expires_at` whenever it is presented, and a wrong password
is a choice.

**Start.** An API container reads `alembic_version` and upgrades in one transaction; a second
one waits on the first's CREATE TABLE and then raises, the container goes down and is
restarted. Each gunicorn process and each worker then looks for bucket and collections and
creates what it does not find, in two calls each. An index that cannot be created is
swallowed (`swallowed`). Docker, gunicorn and alembic are external.

**Provider.** A value is named by the text it was produced for, so a wrong pairing is visible.
`Store` is one round of the loop over zip: result, LRU, Redis. `EmbedShort` is an answer that
is too short, which `zip(strict=True)` notices only at its end (`NoticeShort`). The provider
is taken to answer for a prefix of the batch; an answer that left out a text in the middle
would be cached under wrong keys before the strict zip raises, and the code has no way to
see that. `known` and `asked` are history variables.

**Orders.** `Sorted` names the element of a set that has k - 1 before it. With the place in
the list as a tie-break this is Python's stable sort (`Descending` of `Retrieval`); over
numbers it is `Ascending`, and `AtPlaces` selects from a list (the committed messages, the
LRU without an entry, the markers a parser writes). Nothing is recursive, so one set of lemmas
serves all proofs.

**Retrieval.** What searches find and what rerankers judge are choices from small sets.
`Descending` is Python's stable sort. The cache maps reranker, question and the list of
ids to scores by position. Final scores count halves, since a candidate without a score gets half
its dense score. The cache of rewritten queries is left out: it repeats an earlier choice,
which `Rewrite` may make anyway.

**Chunker.** A document is a sequence of lines of the kinds article, chapter and text, with page
markers where the PDF parser puts them. The recursive splitter of the library may cut a
section into any overlapping pieces that cover it in order. A line counts one token.

**Answer stream.** `sent` is what the client got. `ModelBreaks` and `GenRaises` are the two
`except` clauses; `ClientHangsUp` cancels the generator at any await. A commit that raises
may have happened.

**Services.** The eight components share no variable, so a property of one is decided by its own
steps. `part` is chosen at the start and only that component steps: the states are the
sum of the parts and not their product, and no behaviour of a component is lost. Real
interactions (the limiter before a chat turn, the chunker inside a job, the answer stream
around `ChatTurn`) pass values only: a refusal is `Refuse` in `ChatTurn`, the chunks are `NChunks` in
`ProcessDocument`, an agent's error is `Fail`.

## 3. Runs

| Run | Instance | What it shows |
|---|---|---|
| `ingest_faults` | one request, one document of three chunks or none, batches of two, three tries, three faults, two crashes, redelivery after errors | `TypeOK`, `IndexedConsistent`, `OneGenerationOfPoints`, `MarkdownBehindStatus`, `ImplementsLifecycle`, `CrashesAreSurvived` |
| `ingest_two` | two requests over lists in opposite orders, with a duplicate or a bad file, a worker, one fault | `JobHasRow`, `AcceptedIsDurable`, `ImplementsLifecycle`; `RequestsTerminate` under fairness |
| `chat` | three turns, buffer of three, one lost buffer, one failed turn | `OnlyCommittedInPrompts`, `AnswersFollowQuestions`, `BoundedPrompts`, `CountIsNoOvercount`, `TypeOK` |
| `events` | one client opening its stream twice, two tries, one fault, two crashes | `StreamsFollowHistory`, `ListenersAreTold`, `TypeOK` |
| `services` | each of the eight components (bounds below) | 21 properties: limiter, sessions, facts, start, provider, retrieval, chunker, answer |
| `window_overrun` | four calls at a limit of two, no two at the same time | violation: overtaking alone puts three into a window |
| `facts_redelivered`, `retry_repairs`, `warmup_race`, `citations`, `events_lost`, `tokens_reused` | the smallest instance that shows the finding | violations, section 5 |

**Bounds.** Two requests are enough for every pairwise race of the unique index and for
the two-cycle of a deadlock; file lists in opposite orders make it happen. One job at a time is
enough in `ingest_two`, because jobs of two documents share no variable but the queue, and the
proofs cover any number. Three chunks
with batches of two give one full and one partial batch. Three tries with two crashes
and three faults give a run that fails after its commit, one that fails before, and one
left to finish. Three turns with a buffer of three make the buffer overflow and let a
warm-up overtake two appends. In `events` a worker that may die twice can use up both deliveries of
the job. A second client would add nothing: streams do not affect
jobs or each other. `MaxFaults`, `MaxCrashes`, `MaxLosses`, `MaxOpens` and `MaxTries`
bound the counters and are constants of the modules.

In `services`: four calls at a limit of two at four times, with a window of two, a delay of up to two
and a grace of one, let calls be refused, rolled back, tied, overtaken, and counted after the key has
expired. Four authentication requests meet on one
slug and two addresses in every combination of routes that shares something: registrations that
collide on the tenant, on the address, a login before and after them, two refreshes and a logout
with one token. Two extract_facts jobs that may be delivered twice, over two alike facts and another, with blank
and repeated facts in the lists, give up to four saves of one fact, of which two may overlap. Two API
containers of two and one processes and a worker race for every step of the
start, with one fault. Two calls on two processes, a repeated text, batches of two and an LRU of one
fill, evict and share both caches. Retrieval has a point found twice with two scores and more hits
than the three candidates, and results of two; the cut at `2 * TopSearch` is above them and
never reached, the one at `MaxCandidates` is. The documents of the chunker have every choice of page breaks, a preamble,
an empty article, a chapter between articles, and an article longer than a chunk. An answer has up to
two tokens. The run has 515,299 states. `MaxDelay`, `MaxTime`, `MaxAuthFaults`, `MaxStartFaults`, `MaxCallFaults`, `MaxEvictions`,
`MaxQueries`, `MaxSearchFaults` and `MaxTokensOut` are its bounds.

In `chat` the turns are symmetric; only invariants are checked there.

**Deadlock** checking is off because all behaviours end: requests are answered, jobs
settle, turns finish. That requests do not wait for each other for ever is
`RequestsTerminate`, and for the routes of `auth.py` `AuthRequestsEnd`.

**Fairness.** A handler or a job that can take its next step does (weak fairness of
`RequestStep`, `JobStep` and `StreamStep`): they are coroutines of one event loop each, and
the calls they wait for end or raise. `Pick` is strongly fair: a worker polls its queue
and runs of other documents may occupy `MaxJobs` again and again. `Reject`, `Start`,
`RequestFails`, `CallRaises`, `Timeout`, `Crash`, `Open` and `HangUp` are not fair: nothing
has to upload, fail or connect. Fairness of `StreamStep` assumes that Redis delivers
what it queued and the client reads. In `services`, `AuthStep`, `ContainerStep`, `BootStep` and the `JobStep` of facts are weakly
fair: a request that is not waiting for a lock goes on, a container or process that can take
its next step does, and Docker restarts one that is down (`restart: unless-stopped`). Faults,
deaths, new requests and hang-ups are not fair.

## 4. Proofs

Each proof is about the specification of its component and assumes only the named ASSUMEs on
its constants (bounds are naturals, `NChunks` maps contents to naturals, similarity is
reflexive and symmetric, and so on). Requests, contents, jobs, calls, containers, limits and
bounds are arbitrary, finite or not.

* **`IngestionProofs`** proves `Spec => []IInv` with `IInv = TypeOK /\ UploadInv /\
  \A d : RunInv(d)`. None of the invariants of the runs is inductive by itself: that rows
  and points agree when the status becomes `indexed` depends on what the run has done at
  each earlier place. `StatusAt` says which statuses a document may have while its run is at
  each call; `PointsAt`, that from the delete on the points are those of this attempt up to
  `upserted`; `RowsWhole`, that rows are absent or one attempt's complete set; `Consistent`
  and `Markdown`, what a status promises. `UploadInv` says that a checked file is at hand,
  that the raw object is stored before the row, that uncommitted contents of two
  requests differ, that a content has one row, and that a job has a row. From it follow
  `TypeCorrect`, `IndexedDocumentsAgree`, `OneGenerationOnly`, `JobsFindTheirDocument` and
  `MarkdownIsStored`.
  For the upload it adds `Promise(r)` (each document in `out[r]` is committed, or is
  the request's own and still in its transaction; its own are handed to arq once they leave
  `fresh`) and proves `AcceptedUploadsAreDurable`. For the refinement it proves
  `IngestionImplementsLifecycle`: under the mapping of
  `Lifecycle` (statuses of a run are one phase, only an indexed document's points count)
  every step is a step of `DocLifecycle` or a stutter. `Commit` is `Create`; `SetParsing` is
  `Begin` unless the phase was already working; `InsertRowsAndIndex` is `Index`; `SetFailed`
  is `Fail`.
* **`JobLemmas`** says what one step of a job does to types, statuses and the variables of other
  documents (`JobType`, `JobStatus`, `JobFrames`, `OtherStatus`), for every module that runs the job.
* **`OrderLemmas`** proves what `Orders` promises: a finite set and an order on it have a list
  of the set without repetitions (`OrderLists`, from ranks that exist and are unique),
  numbers sort, `AtPlaces` of a sequence is a sublist with the chosen elements only.
  `LeastNumber` and `NaturalsByInduction` (a set of naturals with 0 and all successors is Nat) replace
  the library's induction theorem, which takes an operator; with them
  the recursive *functions* `Embeds` (of `FileEvents`) and the library's `FlattenSeq` are proved for every length.
* **`FileProofs`** proves `Spec => []FileInv`. `StreamsFollowHistory` speaks of what was shown, but what
  will be shown is already in the subscription: `Told(c)` is `shown`, then the greeting not yet sent, then the
  `inbox`, and `Follows(Told(c), past)` says that its elements have places in the history that never
  go back. `History(d)` (the history ends with the status of the row) makes that survive a
  greeting read before the subscription, and `StatusAt` that each published event is the status just
  written. That such places exist is equivalent to what `Embeds` computes, for the first
  place is as good as any other.
* **`ChatProofs`** proves `Spec => []ChatInv` with `ChatInv = TypeOK /\ BegunInv /\ ListsInv /\ TwiceInv`. What the
  buffer holds may have been read by another turn long before, so `ListsInv` asks of every list,
  stored, read or shown, that it is committed and in order (`Shown`); an append keeps the order
  because a question is pushed before its answer begins (`BegunInv`, from the place of the turn).
  `TwiceInv` counts copies in every list: a warm-up brings one, the turn's own push a second. What is
  true of a list is then true of the prompt built from it, with one more message (`PromptIsShown`,
  `OneMore`): the own question is committed and has no answer yet, and is the one message that
  may be there three times. From it
  `ChatTyped`, `PromptsAreCommitted`, `QuestionsComeFirst` and
  `PromptsAreBounded`. `CountNeverOvercounts` is a separate invariant: no counter, stored or
  read by a turn, is above the number of committed rows, because each commit adds a new one.
* **`FactProofs`** proves `FactsSpec => []FactInv` with `FactInv = FactsTypeOK /\ WorkersInv /\ RecordInv /\
  RowsBehindPoints /\ CliqueInv`. `DuplicatesAreBounded` alone is not inductive, for a point is
  written long after its search. `CliqueInv` counts with every set of alike points also the jobs past
  their search with a fact like them (`Savers`): a search in vain adds a saver only to the empty
  set, where `WorkersInv` bounds them all, and an upsert turns a saver into a point. `RecordInv`
  says that the record in hand has no point yet, and a row once it is inserted, so an upsert takes one
  row out of the count of `RowsBehindPoints`. From it follow `FactsAreTyped`,
  `PointsHaveRows` and `DuplicatesStayBounded`.
* **`AnsweringProofs`**, `AnswerStream`: `AnswerInv` gives every event its place (`Placed`), the number of
  events at each place of the generator, and what is stored there; `EventsInOrder` and
  `DoneMeansStored` follow. The break of a model's stream at any token is the case that makes
  `text` and `sent` part company, and `broken` what keeps it from being stored.
* **`AnsweringProofs`**, `ProviderCache`: `ProviderInv` says that both caches hold under each key
  its own vector (`CachesAreTrue`); that results and misses of a call cover all it has
  looked up, with no position outside (`CallCovers`); that a batch's answer is aligned with the first of
  the misses wherever the zip has got to (`CallStands`); and that a text Redis held at the start is
  among the misses only if Redis dropped it (`CallKnows`). From it `ValuesAreTheirTexts` and `CachedIsPaidOnce`.
* **`AnsweringProofs`**, `Retrieval`: `ScoreCacheInv` says that a cached list of scores is, position by position,
  for the ids of its key, from the key's reranker; `PoolInv` that a pool holds each point once, with its
  best hit, and leaves out only what is no better than all it holds; `RankInv` carries both to
  the result. That merging keeps the best hit of each point needs the stable sort and `FlattenSeq`. From it
  `ScoresAreTheirHits`, `CohereScoresThemAll` and `TheBestAreCandidates`.
* **`ServicesProofs`**, `Chunker`: `ChunkInv`. The sections partition the lines (`StartOf`, `EndOf`); `CoverInv` says that
  all lines before the section at hand, and of it those before the window, are in a chunk or are
  markers; `PageInv`, that `lastPage` is the page open where the last piece ended, also when the piece
  itself was dropped; `TextInv`, that the parser's markers go up. From it `TextIsKept` and `ChunksEndOnTheirPage`,
  for every document, splitter and overlap.
* **`ServicesProofs`**, `RateLimit`, proves `LimiterSpec => []LimiterInv` with `LimiterInv = LimiterTypeOK /\
  ClockInv /\ EntryInv /\ WindowInv`. `EntryInv` says that the member of an admitted call, unless a rollback
  erased it, is in the set until a call stamped a whole window later has been counted or the key's expiry
  has passed (`StillSeen`). A call that is counted in time, with no later stamp before it and within
  `Grace` of its own, meets neither (`OthersAreFound`): it counts all the calls of its window that
  `WindowInv` counts, and is admitted only if they are fewer than `Limit`. A window that ends at an earlier
  time does not contain it (`WindowShrinks` and `LimiterWindows` carry the bound to every window).
  `AdmissionsStayBounded`, for every window, delay and grace, and the action property
  `RefusalsHaveCause` follow.
* **`ServicesProofs`**, `Sessions`, proves `SessionsSpec => []SessionInv`. `TokenInv`: a token is issued by a request's
  last step, what a request has spent is revoked, and a request read its token after
  nobody who had spent the same one. `AccountInv`: uncommitted tenants of one slug and users about to be committed with one
  address are one request's, and a request past the tenant has one. From it `AccountsStayWhole` and
  `TokensAreSpentOnce`.
* **`ServicesProofs`**, `Startup`, proves `StartupSpec => []StartupInv`. `MigrationInv`: at most one container is between
  its CREATE TABLE and its commit, and only while there is no schema. `BootInv(p)`: what is behind a
  process at each place of its boot. From it `MigrationsAreCommittedOnce` and
  `ServingProcessesAreReady`.
* **`ServicesProofs`**, `Services`: every behaviour of `ServicesSpec` is one of each component's own
  specification (`ServicesIsEachPart`): a step of one part leaves the variables of the others alone. So the
  invariants above hold in `Services`, and `ServicesTyped` collects the types.

Every safety invariant that a passing run checks, and both action properties
(`ImplementsLifecycle`, `RefusalsAreDue`), is a theorem; the bounds of the runs (`MaxFaults`, `MaxTries`, buffer sizes) are arbitrary
naturals in it.

Only model-checked: liveness (`RequestsTerminate`, `CrashesAreSurvived`, `ListenersAreTold`,
`ReportedIsRemembered`, `AuthRequestsEnd`, `EveryProcessServes`), since the prover does neither fairness nor
ENABLED; and the properties that are violated (section 5).

## 5. Findings

1. `retry_repairs`: a run that committed its rows and then failed cannot be repaired by a
   redelivery (`src/worker/tasks/ingestion.py:98`), against docs/08:488-491.
2. `warmup_race`: a warm-up deletes a question appended meanwhile
   (`src/memory/short_term.py:71`), against docs/09:291-292 and docs/11:92.
3. `citations`: a chunk that begins in the middle of a page and contains the marker of the next
   gets the next page as `page_from` (`src/ingestion/chunkers/base.py:142`), against the comments at
   base.py:136-137 and parsers/base.py:27.
4. `events_lost`: a stream that reads before it subscribes can miss the end
   (`src/api/routes/files.py:177`), against docs/15:372; so can one that listens when the worker
   dies between the commit of `indexed` and its publication (`src/worker/tasks/ingestion.py:46-48`).
5. `facts_redelivered`: a job that dies between a fact's row and its point saves the fact
   again when redelivered (`src/memory/long_term.py:67`), against docs/14:204-205.
6. `window_overrun`: the limiter reads the clock before it reaches Redis and trims by the time of
   whoever runs (`src/cache/rate_limit.py:36-44`), so a window may hold more than `limit` admitted calls,
   against docs/16:254 and the module's own comment (4-7). Calls overtake each other in the run; equal
   times do it too, since the rollback of a refused call deletes by score and takes admitted entries with
   it (51), and so does a call that takes longer than the 5 seconds added to the key's expiry (43).
7. `tokens_reused`: two overlapping refreshes with one token both give out a new one
   (`src/api/routes/auth.py:110-124`), against docs/16:126-130. The TODO at docs/16:142 is about the alarm
   on a token used again, not about its being usable twice.

Seen while reading and not the subject of a run:

* no cron sweep re-enqueues stuck documents (docs/08:484-485);
* `migrate.py:4-5`, `entrypoint.sh:17-18`, docs/13:404, docs/00:327 and tech_docs/02:45 name an advisory
  lock that is not in the code; a replica that loses the race fails and is started again
  (`MigratedOnce` and `EveryProcessServes` hold without it);
* overlapping turns lose increments of `message_count` (`conversation.py:88`, docs/18:182, 205), so the runs
  claim only that it never counts too many;
* docs/17:207 says the limiter lets requests pass when Redis fails; the code raises;
* the API's jobs go to arq's default queue, `arq:queue`, for `get_arq_pool` names none
  (`src/api/deps.py:37-41`), and the worker polls `default` (`src/worker/main.py:65`): a job never runs,
  against docs/09:277 (no job is lost, only slow). It is two names that differ, and no order of
  steps, so no run is spent on it;
* a repeated upload is answered 202 with the document of an earlier request also when the enqueue of
  that document failed (`files.py:114-117, 142-145`): `AcceptedIsDurable` then claims its row and no job;
* docs/06:37 says the cache key of rerank scores has the sorted point ids; the code keys on them in
  the order of the hits (`rerank.py:77, 159`), which positional scores need (`ScoresBelongToHits`);
* with the LLM as reranker an omitted candidate keeps half its dense score and may stand above
  one that was judged (`rerank.py:133-134`); Cohere is asked for all (`CohereScoresAll`);
* a page marker at the end of a section moves that chunk's last page on; a piece that is only a
  marker under a heading makes a chunk of a heading alone; the prefix of headings may take a
  piece over `max_tokens`;
* an `error` event may follow an answer that is stored;
* after a cold warm-up, whose rows contain the question already (`chat.py:57-62`), the buffer has it
  twice, and the prompt, to which `build_answer_messages` appends it once more (`agent/prompts.py:61-62`), three
  times; a full buffer gives a prompt of one message more than its size. `BoundedPrompts` claims no less
  and no more;
* duplicates are found per tenant while `GET /files/{id}` and search filter by user;
* `last_message_at` and `indexed_at` have no time zone in the ORM while the migration gives them one.
  The models let each database write succeed or fail and do not decide this point.

## 6. Not modelled

* Text extraction by the parsers, token counting and other third-party calls: they succeed or raise.
* Two steps of the caches: the lookups of LRU and Redis of one text are one step of `ProviderCache`
  (`Hit`, `Miss`), and an answer to a batch that is longer than the batch does not happen.
* Eviction of the limiter's key under Redis' `allkeys-lru`; its expiry is modelled.
* Text, wording of prompts, payloads, passwords and JWT encoding: nothing here depends on their contents.
* The compiled LangGraph graph (`get_graph`, `generate_node`): nothing that serves a request calls it.
* Settings, logging, tracing, request ids, health probes, pooled clients: no state that the
  rest of the program reads.
* Read-only routes, and create, rename and archive of conversations: single statements
  on rows no other component writes.
* `reset_buffer`, `set_summary`, `get_chunks_by_ids`, `cache_del` and `presigned_get_url`: nothing calls
  them.
* The tables of the migration: the models use the constraints that matter (unique keys, foreign
  keys of chunks) where they bite.

## 7. Plan

Written in this order: `DocStore`, `Upload`, `ProcessDocument`, `Ingestion`, `DocLifecycle` and their proofs,
`ChatTurn`, `FileEvents`, `FactMemory`; then `RateLimit`, `Sessions`, `Startup`, `ProviderCache`, `Retrieval`,
`Chunker`, `AnswerStream`, `Services` and the first proofs about them; then `Orders` and the proofs of all
invariants that were only model-checked.

Next, most important first:

1. Action properties with proofs: what a step of `FileEvents` and `ChatTurn` may never do (a stream that shows
   something after its end, a committed message that disappears from a later prompt while the buffer is warm).
2. An abstract conversation (a log, and readers of a suffix of it) that `ChatTurn` implements, proved like
   `IngestionImplementsLifecycle`.
3. Two users and two tenants in `FactMemory` and `Ingestion`, to check the filters that keep them apart.
