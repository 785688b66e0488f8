SPECIFICATION FairSpec
CONSTANTS
  BUFFER_LEN = 2
  Char = {nul, a}
  NUL = nul
  MaxKeys = 1
INVARIANTS
  NoStray
  WaitsListening
  HandlerAlone
  PortAnnounced
PROPERTIES
  KeyHandled
  RingSpec
  ReaderServed
