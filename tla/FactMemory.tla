----------------------------- MODULE FactMemory -----------------------------
(***************************************************************************)
(* Long-term memory of one user: the jobs extract_facts, enqueued after    *)
(* each answer (worker/tasks/memory.py:28-89), and save_fact, which looks  *)
(* for a similar point in Qdrant, inserts a row in user_facts and then     *)
(* upserts the point, in three calls that share no transaction             *)
(* (memory/long_term.py:27-91).                                            *)
(*                                                                         *)
(* A record (a row, or a point) is named by its fact, its job and the      *)
(* attempt at the job: within one attempt a fact that the model lists      *)
(* twice is found by the second search.  Jobs of all the user's            *)
(* conversations share the points, so conversations are not told apart.    *)
(***************************************************************************)
EXTENDS Integers, Sequences, FiniteSets, SequencesExt

CONSTANTS
  Jobs,         \* extract_facts jobs
  Facts,        \* facts (a key with a value) that the LLM may report
  Blank,        \* a reported fact whose key or value is empty
  Alike,        \* pairs with one key and a similarity of at least 0.92
  Extractions,  \* lists of facts that the LLM may report of a transcript
  MaxJobs,      \* jobs all worker processes run at a time
  MaxTries,     \* arq's max_tries
  RetryOnError, \* does arq deliver a job again after an exception?
  MaxFaults,    \* bound: calls that raise, jobs that time out
  MaxCrashes    \* bound: runs that die with their worker

ASSUME FactsAssumption ==
  /\ Blank \notin Facts
  /\ Extractions \subseteq Seq(Facts \cup {Blank})
  /\ \A f \in Facts : <<f, f>> \in Alike
  /\ \A f, g \in Facts : <<f, g>> \in Alike => <<g, f>> \in Alike
ASSUME NumbersAssumption ==
  /\ MaxJobs \in Nat /\ MaxTries \in Nat /\ RetryOnError \in BOOLEAN
  /\ MaxFaults \in Nat /\ MaxCrashes \in Nat

VARIABLES
  pc,       \* the call that each job performs next
  todo,     \* facts the job has still to save
  reported, \* history: the facts the model has reported
  tries,    \* deliveries of the job so far
  rows,     \* user_facts: <<fact, job, attempt>>
  points,   \* user_memory in Qdrant: <<fact, job, attempt>>
  faults,   \* faults spent so far (bounded by MaxFaults)
  crashes   \* crashes spent so far (bounded by MaxCrashes)

factVars == <<pc, todo, reported, tries, rows, points, faults, crashes>>

Record == Facts \X Jobs \X Nat
Working == {"extract", "search", "insert", "upsert"}

FactsTypeOK ==
  /\ pc \in [Jobs -> Working \cup {"queued", "over"}]
  /\ todo \in [Jobs -> Seq(Facts \cup {Blank})]
  /\ reported \in SUBSET Facts
  /\ tries \in [Jobs -> 0 .. MaxTries]
  /\ rows \in SUBSET Record
  /\ points \in SUBSET Record
  /\ faults \in 0 .. MaxFaults
  /\ crashes \in 0 .. MaxCrashes

FactsInit ==
  /\ pc = [j \in Jobs |-> "queued"]
  /\ todo = [j \in Jobs |-> <<>>]
  /\ reported = {}
  /\ tries = [j \in Jobs |-> 0]
  /\ rows = {} /\ points = {}
  /\ faults = 0 /\ crashes = 0

Goto(j, there) == pc' = [pc EXCEPT ![j] = there]
Step(j, here, there) == pc[j] = here /\ Goto(j, there)
Saved == UNCHANGED <<rows, points>>
Calm == UNCHANGED <<tries, reported, faults, crashes>>

Deliver(j) ==
  /\ tries[j] < MaxTries
  /\ Cardinality({i \in Jobs : pc[i] \in Working}) < MaxJobs
  /\ Step(j, "queued", "extract")
  /\ tries' = [tries EXCEPT ![j] = @ + 1]
  /\ UNCHANGED <<todo, reported, rows, points, faults, crashes>>

GiveUp(j) ==
  /\ tries[j] = MaxTries
  /\ Step(j, "queued", "over")
  /\ UNCHANGED todo /\ Saved /\ Calm

\* The last 20 messages are read in a session that ends before the model is
\* asked; an answer that is no JSON counts as no facts.  A conversation
\* without messages, the early return, has no job.
Extract(j) ==
  /\ Step(j, "extract", "search")
  /\ \E facts \in Extractions :
       /\ todo' = [todo EXCEPT ![j] = facts]
       /\ reported' = reported \cup (ToSet(facts) \ {Blank})
  /\ Saved /\ UNCHANGED <<tries, faults, crashes>>

HasNext(j) == pc[j] = "search" /\ todo[j] # <<>>
Advance(j) == todo' = [todo EXCEPT ![j] = Tail(@)]

\* Mutant of SkipBlank: a blank fact ends the loop.
StopAtBlank(j) ==
  /\ HasNext(j) /\ Head(todo[j]) = Blank
  /\ todo' = [todo EXCEPT ![j] = <<>>]
  /\ UNCHANGED pc /\ Saved /\ Calm

SkipBlank(j) ==
  /\ HasNext(j) /\ Head(todo[j]) = Blank
  /\ Advance(j)
  /\ UNCHANGED pc /\ Saved /\ Calm

\* Mutant of Known: the score is compared the wrong way round.
KnownUnlike(f) == {p \in points : <<p[1], f>> \notin Alike}

\* The nearest point of the same user and key, if it is near enough: one
\* exists when any point is near enough.
Known(f) == {p \in points : <<p[1], f>> \in Alike}

SkipDuplicate(j) ==
  /\ HasNext(j) /\ Head(todo[j]) # Blank
  /\ Known(Head(todo[j])) # {}
  /\ Advance(j)
  /\ UNCHANGED pc /\ Saved /\ Calm

SearchMiss(j) ==
  /\ HasNext(j) /\ Head(todo[j]) # Blank
  /\ Known(Head(todo[j])) = {}
  /\ Goto(j, "insert")
  /\ UNCHANGED todo /\ Saved /\ Calm

\* Mutant of InsertRow: the session is left without a commit.
InsertWithoutCommit(j) ==
  /\ Step(j, "insert", "upsert")
  /\ UNCHANGED todo /\ Saved /\ Calm

InsertRow(j) ==
  /\ Step(j, "insert", "upsert")
  /\ rows' = rows \cup {<<Head(todo[j]), j, tries[j]>>}
  /\ UNCHANGED <<todo, points>> /\ Calm

\* Mutant of UpsertPoint: the point is not given the id that the row names.
UpsertWithoutId(j) ==
  /\ Step(j, "upsert", "search")
  /\ points' = points \cup {<<Head(todo[j]), j>>}
  /\ Advance(j)
  /\ UNCHANGED rows /\ Calm

UpsertPoint(j) ==
  /\ Step(j, "upsert", "search")
  /\ points' = points \cup {<<Head(todo[j]), j, tries[j]>>}
  /\ Advance(j)
  /\ UNCHANGED rows /\ Calm

Finish(j) ==
  /\ todo[j] = <<>>
  /\ Step(j, "search", "over")
  /\ UNCHANGED todo /\ Saved /\ Calm

Forget(j) == todo' = [todo EXCEPT ![j] = <<>>]

\* A call raises, the model's answer has another shape than asked for, or
\* job_timeout cancels the run: arq drops the job or queues it again.
Raise(j) ==
  /\ pc[j] \in Working
  /\ faults < MaxFaults /\ faults' = faults + 1
  /\ Goto(j, "over") \/ (RetryOnError /\ Goto(j, "queued"))
  /\ Forget(j)
  /\ Saved /\ UNCHANGED <<tries, reported, crashes>>

\* The worker process dies or is shut down: the job is delivered again.
Crash(j) ==
  /\ pc[j] \in Working
  /\ crashes < MaxCrashes /\ crashes' = crashes + 1
  /\ Goto(j, "queued")
  /\ Forget(j)
  /\ Saved /\ UNCHANGED <<tries, reported, faults>>

JobStep(j) ==
  \/ Extract(j) \/ SkipBlank(j) \/ SkipDuplicate(j)
  \/ SearchMiss(j) \/ InsertRow(j) \/ UpsertPoint(j) \/ Finish(j)

FactsNext ==
  \E j \in Jobs : Deliver(j) \/ GiveUp(j) \/ JobStep(j) \/ Raise(j) \/ Crash(j)

FactsSpec == FactsInit /\ [][FactsNext]_factVars

\* A run that can take its next step does: jobs are coroutines of a worker.
FairFactsSpec == FactsSpec /\ \A j \in Jobs : WF_factVars(JobStep(j))

-----------------------------------------------------------------------------
\* What Qdrant finds is in user_facts, and a row that no search can find is
\* the trace of a run cut off between the two stores: there are never more of
\* them than runs cut off and runs between the two calls (long_term.py:66-90).
RowsBehindPoints ==
  /\ points \subseteq rows
  /\ Cardinality(rows \ points) <=
       faults + crashes + Cardinality({j \in Jobs : pc[j] = "upsert"})

\* However many answers a user gets, and however often jobs are cut off and
\* delivered again, the memory never holds more points that are alike than
\* jobs run at a time: all of them must have searched before the first was
\* there (long_term.py:48-63).
DuplicatesAreBounded ==
  \A S \in SUBSET points :
    (\A p, q \in S : <<p[1], q[1]>> \in Alike) => Cardinality(S) <= MaxJobs

\* In the end every fact that the model has reported is found by searches,
\* itself or one alike, unless a run was cut off (tasks/memory.py:70-86):
\* neither a blank fact nor a known one before it in the list keeps it from
\* being saved.
ReportedIsRemembered ==
  <>[](faults + crashes = 0 =>
         \A f \in reported : \E p \in points : <<p[1], f>> \in Alike)

-----------------------------------------------------------------------------
\* docs/14-queue-and-workers.md:202-205: a job that is delivered again extracts
\* the same facts, and the search skips all that exist.  So one job at a time
\* leaves one row for each fact.
FactsAreSavedOnce ==
  \A x, y \in rows : x[1] = y[1] => x = y
=============================================================================
