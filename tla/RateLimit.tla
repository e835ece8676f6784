------------------------------ MODULE RateLimit ------------------------------
(***************************************************************************)
(* allow_request (cache/rate_limit.py:24-53): the sliding window of one    *)
(* user and bucket, called by several API processes of one host.  A call   *)
(* reads the clock in its process and reaches Redis later, so entries may  *)
(* be added out of order, and a refusal is taken back by a second call.    *)
(*                                                                         *)
(* A member of the sorted set carries a fresh uuid, so it is named by its  *)
(* call, and its score is the time the call read.                          *)
(***************************************************************************)
EXTENDS Integers, FiniteSets

CONSTANTS
  Calls,     \* requests of the user under one bucket
  Limit,     \* limit
  Window,    \* window_s
  Grace,     \* the seconds EXPIRE adds to the window (5 in the code)
  MaxDelay,  \* bound: time between reading the clock and reaching Redis
  MaxTime    \* bound: the clock stops here

ASSUME LimiterAssumption ==
  /\ Limit \in Nat \ {0} /\ Window \in Nat \ {0} /\ Grace \in Nat
  /\ MaxDelay \in Nat /\ MaxTime \in Nat

VARIABLES
  clock,     \* time.time() of the host
  entries,   \* calls whose member is in the sorted set
  deadline,  \* when the key expires
  lpc,       \* where each call is
  stamp,     \* the time each call read, its member's score
  late,      \* history: calls counted after their time, by order or by Grace
  erased     \* history: calls whose member another call's rollback removed

historyVars == <<late, erased>>
limiterVars == <<clock, entries, deadline, lpc, stamp, historyVars>>

\* "lost" calls raised before they reached Redis, "stuck" ones after their
\* member was added and before it was taken back.
LimiterPc == {"new", "timed", "admitted", "over", "refused", "lost", "stuck"}

LimiterTypeOK ==
  /\ clock \in 0 .. MaxTime
  /\ entries \in SUBSET Calls
  /\ deadline \in Nat
  /\ lpc \in [Calls -> LimiterPc]
  /\ stamp \in [Calls -> 0 .. MaxTime]
  /\ late \in SUBSET Calls /\ erased \in SUBSET Calls

LimiterInit ==
  /\ clock = 0 /\ entries = {} /\ deadline = 0
  /\ lpc = [r \in Calls |-> "new"]
  /\ stamp = [r \in Calls |-> 0]
  /\ late = {} /\ erased = {}

Go(r, here, there) == lpc[r] = here /\ lpc' = [lpc EXCEPT ![r] = there]

ReadClock(r) ==
  /\ Go(r, "new", "timed")
  /\ stamp' = [stamp EXCEPT ![r] = clock]
  /\ UNCHANGED <<clock, entries, deadline, historyVars>>

\* What ZREMRANGEBYSCORE leaves and ZCARD counts.
Recent(r) == {q \in entries : stamp[q] > stamp[r] - Window}

\* Mutant of Full: one more than the limit is let in.
FullLate(r) == Cardinality(Recent(r)) > Limit

Full(r) == Cardinality(Recent(r)) >= Limit

InRedis(q) == lpc[q] \in {"admitted", "over", "refused", "stuck"}

\* A call with a later stamp has been counted before this one, or this one took
\* more than Grace to reach Redis, when the key may have expired with members of
\* its window.
IsLate(r) ==
  \/ \E q \in Calls : InRedis(q) /\ stamp[q] > stamp[r]
  \/ clock > stamp[r] + Grace

\* The pipeline is a MULTI: old members go, the rest is counted, the call's own
\* member is added whatever the count, and the key's expiry is renewed.
Count(r) ==
  /\ Go(r, "timed", IF Full(r) THEN "over" ELSE "admitted")
  /\ entries' = Recent(r) \cup {r}
  /\ deadline' = clock + Window + Grace
  /\ late' = IF IsLate(r) THEN late \cup {r} ELSE late
  /\ UNCHANGED <<clock, stamp, erased>>

\* Mutant of Rollback: the member stays.
RollbackNothing(r) ==
  /\ Go(r, "over", "refused")
  /\ UNCHANGED <<clock, entries, deadline, stamp, historyVars>>

\* zremrangebyscore(key, now, now): the call's own member, and any other that
\* has the same score.  The ZRANGE before it changes nothing.
Rollback(r) ==
  /\ Go(r, "over", "refused")
  /\ entries' = {q \in entries : stamp[q] # stamp[r]}
  /\ erased' = erased \cup {q \in entries \ {r} : stamp[q] = stamp[r]}
  /\ UNCHANGED <<clock, deadline, stamp, late>>

\* Redis cannot be reached, or the client hangs up: nothing is taken back.
Break(r) ==
  /\ Go(r, "timed", "lost") \/ Go(r, "over", "stuck")
  /\ UNCHANGED <<clock, entries, deadline, stamp, historyVars>>

\* Time passes, and the key with it when its expiry is reached.
Tick ==
  /\ clock < MaxTime
  /\ \A r \in Calls : lpc[r] = "timed" => clock < stamp[r] + MaxDelay
  /\ clock' = clock + 1
  /\ entries' = IF clock' >= deadline THEN {} ELSE entries
  /\ UNCHANGED <<deadline, lpc, stamp, historyVars>>

CallStep(r) == ReadClock(r) \/ Count(r) \/ Rollback(r) \/ Break(r)

LimiterNext == Tick \/ \E r \in Calls : CallStep(r)

LimiterSpec == LimiterInit /\ [][LimiterNext]_limiterVars

-----------------------------------------------------------------------------
\* The calls admitted with a stamp in the window that ends at t.
LetIn(t) ==
  {r \in Calls : lpc[r] = "admitted" /\ t - Window < stamp[r] /\ stamp[r] <= t}

\* However calls of several processes overtake each other between their clock
\* and Redis, and although a refused call's member is seen by others, a window
\* holds more than Limit admitted calls only by as many as were counted out of
\* their time, or erased by the rollback of a refused call with their very time
\* (rate_limit.py:36-52).
AdmissionsBounded ==
  \A t \in 0 .. MaxTime : Cardinality(LetIn(t) \ (late \cup erased)) <= Limit

\* A call is refused only when Limit others were stamped within the window
\* before it, or later, that were admitted or are not taken back yet: a refusal
\* that was taken back costs nobody a request (rate_limit.py:46-52).
RefusalsAreDue ==
  [][\A r \in Calls : (lpc[r] = "timed" /\ lpc'[r] = "over") =>
       Cardinality({q \in Calls : lpc[q] \in {"admitted", "over", "stuck"}
                                  /\ stamp[q] > stamp[r] - Window}) >= Limit
    ]_limiterVars

-----------------------------------------------------------------------------
\* docs/16-security-deep.md:254, rate_limit.py:4-7: Limit requests in any
\* window, whenever it begins.
AnyWindowHoldsLimit == \A t \in 0 .. MaxTime : Cardinality(LetIn(t)) <= Limit
=============================================================================
