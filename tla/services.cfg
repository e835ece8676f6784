\* Each of the components around the two cores, on its own.
SPECIFICATION FairServicesSpec
CONSTANTS
  c1 = c1
  c2 = c2
  c3 = c3
  c4 = c4
  s = s
  e1 = e1
  e2 = e2
  a1 = a1
  a2 = a2
  w1 = w1
  k1 = k1
  k2 = k2
  h1 = h1
  h2 = h2
  a = a
  b = b
  x = x
  y = y
  z = z
  f = f
  g = g
  h = h
  blank = blank
  Calls = {c1, c2, c3, c4}
  Limit = 2
  Window = 2
  Grace = 1
  MaxDelay = 2
  MaxTime = 3
  AuthRequests = {c1, c2, c3, c4}
  Slugs = {s}
  Emails = {e1, e2}
  Bodies <- BodiesOf
  MaxAuthFaults = 1
  ApiContainers = {a1, a2}
  WorkerContainers = {w1}
  Boots <- ProcessesOf
  MaxStartFaults = 1
  Jobs = {c1, c2}
  Facts = {f, g, h}
  Blank = blank
  Alike <- SimilarFacts
  Extractions <- FactLists
  MaxJobs = 2
  MaxTries = 2
  RetryOnError = TRUE
  MaxFaults = 1
  MaxCrashes = 1
  Callers = {k1, k2}
  Hosts = {h1, h2}
  HostOf <- OneHostEach
  Texts = {a, b}
  Inputs <- TextLists
  BatchOf = 2
  Capacity = 1
  MaxAttempts = 2
  MaxCallFaults = 2
  MaxEvictions = 1
  Searches = {c1, c2}
  Questions = {s}
  HitLists <- SearchResults
  Judgements = {1, 3}
  MaxQueries = 2
  TopSearch = 3
  TopFinal = 2
  MaxCandidates = 3
  CohereEnabled = TRUE
  MaxSearchFaults = 1
  Contents <- Documents
  MaxTokens = 3
  Overlap = 1
  MaxTokensOut = 2
INVARIANTS
  ServicesTypeOK
  AdmissionsBounded
  AccountsAreWhole
  TokensAreSpent
  RowsBehindPoints
  DuplicatesAreBounded
  ServingIsReady
  MigratedOnce
  ValuesBelongToTexts
  CachedIsNotAskedAgain
  ScoresBelongToHits
  CohereScoresAll
  BestAreCandidates
  NoTextIsLost
  PagesAreFollowed
  EventsAreInOrder
  DoneIsDurable
PROPERTIES
  RefusalsAreDue
  AuthRequestsEnd
  EveryProcessServes
  ReportedIsRemembered
CHECK_DEADLOCK FALSE
