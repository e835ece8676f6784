----------------------------- MODULE MCRateLimit -----------------------------
(***************************************************************************)
(* Four calls at a limit of two.  time.time() has a fraction, so two calls *)
(* hardly ever read the same time; here none do, and what is left is that  *)
(* calls overtake each other.                                              *)
(***************************************************************************)
EXTENDS RateLimit

TimesDiffer ==
  \A q, r \in Calls : lpc[q] # "new" /\ lpc[r] # "new" /\ stamp[q] = stamp[r] => q = r

DistinctTimesSpec == LimiterInit /\ [][LimiterNext /\ TimesDiffer']_limiterVars
=============================================================================
