SPECIFICATION FairSpec
CONSTANTS
  a = a
  b = b
  Char = {nul, lf, a, b}
  NUL = nul
  LF = lf
  Cap = 4
  Capacity = 2
  COPY = 4
  InitName <- MCInit
  ShellName <- MCShellName
  Modules <- MCModules
  QUANTUM = 6
  PAGE_SIZE = 12
  Requests <- MCRequests
  MaxChunks = 3
  MaxBlocks = 5
INVARIANTS
  TypeOK
  NameIsTyped
  BlocksApart
PROPERTIES
  StartsWhatIsTyped
  ReturnAnswered
CHECK_DEADLOCK FALSE
