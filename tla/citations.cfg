\* A chunk that begins in the middle of a page and reaches the next.
SPECIFICATION ChunkerSpec
CONSTANTS
  Contents <- Documents
  MaxTokens = 3
  Overlap = 1
INVARIANTS
  CitedWhereItStarts
CHECK_DEADLOCK FALSE
