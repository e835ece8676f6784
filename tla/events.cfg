\* A client follows a document through faults, timeouts, redelivery and as many
\* crashes as the job has deliveries, and opens its stream twice.
SPECIFICATION FairSpec
CONSTANTS
  r = r
  b = b
  viewer = viewer
  Requests <- OneRequest
  Contents <- OneContent
  NChunks <- ThreeChunks
  QueueNames = {"arq:queue"}
  ApiQueue = "arq:queue"
  WorkerQueue = "arq:queue"
  MaxTries = 2
  MaxFaults = 1
  MaxCrashes = 2
  MaxJobs = 1
  BatchSize = 2
  RetryOnError = TRUE
  Clients <- OneClient
  Watched <- WatchOnly
  MaxOpens = 2
INVARIANTS
  TypeOK
  StreamsFollowHistory
PROPERTIES
  ListenersAreTold
CHECK_DEADLOCK FALSE
