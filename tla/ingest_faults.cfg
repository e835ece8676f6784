\* One document, with chunks or without, under every fault, timeout and crash
\* the bounds allow, with redelivery after exceptions.
SPECIFICATION FairSpec
CONSTANTS
  r1 = r1
  r2 = r2
  a = a
  b = b
  z = z
  bad = bad
  Requests <- OneRequest
  Contents <- EmptyToo
  NChunks <- ChunksOf
  QueueNames = {"arq:queue"}
  ApiQueue = "arq:queue"
  WorkerQueue = "arq:queue"
  MaxTries = 3
  MaxFaults = 3
  MaxCrashes = 2
  FileLists <- PlainOrEmpty
  BadFile = bad
  MaxJobs = 1
  BatchSize = 2
  RetryOnError = TRUE
INVARIANTS
  TypeOK
  IndexedConsistent
  OneGenerationOfPoints
  MarkdownBehindStatus
PROPERTIES
  ImplementsLifecycle
  CrashesAreSurvived
CHECK_DEADLOCK FALSE
