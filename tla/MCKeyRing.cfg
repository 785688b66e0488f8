SPECIFICATION FairSpec
CONSTANTS
  BUFFER_LEN = 3
  Char = {nul, a, b}
  NUL = nul
INVARIANTS
  TypeOK
  NeverOverfull
  AvailCounts
  RingMatches
PROPERTIES
  ReaderUnblocks
  QueueSpec

