\* A client connects while its document is being indexed, by a worker that
\* may die once.
SPECIFICATION FairSpec
CONSTANTS
  r = r
  b = b
  viewer = viewer
  Requests <- OneRequest
  Contents <- OneContent
  NChunks <- ThreeChunks
  QueueNames = {"arq:queue"}
  ApiQueue = "arq:queue"
  WorkerQueue = "arq:queue"
  MaxTries = 2
  MaxFaults = 0
  MaxCrashes = 1
  MaxJobs = 1
  BatchSize = 2
  RetryOnError = FALSE
  Clients <- OneClient
  Watched <- WatchOnly
  MaxOpens = 1
PROPERTIES
  OutcomeIsShown
CHECK_DEADLOCK FALSE
