\* A failure after the commit, then a redelivery.
SPECIFICATION Spec
CONSTANTS
  r1 = r1
  r2 = r2
  a = a
  b = b
  z = z
  bad = bad
  Requests <- OneRequest
  Contents <- OneContent
  NChunks <- ChunksOf
  QueueNames = {"arq:queue"}
  ApiQueue = "arq:queue"
  WorkerQueue = "arq:queue"
  MaxTries = 3
  MaxFaults = 1
  MaxCrashes = 1
  FileLists <- SingleFile
  BadFile = bad
  MaxJobs = 1
  BatchSize = 2
  RetryOnError = FALSE
INVARIANTS
  RetryRepairs
CHECK_DEADLOCK FALSE
