\* One job, delivered again after its worker died.
SPECIFICATION FactsSpec
CONSTANTS
  j1 = j1
  f = f
  g = g
  h = h
  Jobs = {j1}
  Facts = {f, g, h}
  Blank = blank
  Alike <- SimilarFacts
  Extractions <- OneList
  MaxJobs = 1
  MaxTries = 2
  RetryOnError = FALSE
  MaxFaults = 0
  MaxCrashes = 1
INVARIANTS
  FactsAreSavedOnce
CHECK_DEADLOCK FALSE
