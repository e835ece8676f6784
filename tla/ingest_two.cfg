\* Two concurrent uploads of overlapping file lists in opposite orders, and a worker.
SPECIFICATION FairSpec
CONSTANTS
  r1 = r1
  r2 = r2
  a = a
  b = b
  z = z
  bad = bad
  Requests <- TwoRequests
  Contents <- TwoContents
  NChunks <- ChunksOf
  QueueNames = {"arq:queue"}
  ApiQueue = "arq:queue"
  WorkerQueue = "arq:queue"
  MaxTries = 1
  MaxFaults = 1
  MaxCrashes = 0
  FileLists <- CrossedLists
  BadFile = bad
  MaxJobs = 1
  BatchSize = 2
  RetryOnError = FALSE
INVARIANTS
  JobHasRow
  AcceptedIsDurable
PROPERTIES
  ImplementsLifecycle
  RequestsTerminate
CHECK_DEADLOCK FALSE
