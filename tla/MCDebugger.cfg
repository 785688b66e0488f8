SPECIFICATION DebugSpec
CONSTANTS
  Char = {"nul", "lf", "bs", " ", "x", "0", "1"}
  NUL = "nul"
  LF = "lf"
  BS = "bs"
  SPACE = " "
  X = "x"
  Zero = "0"
  Translate <- MCTranslate
  PRINT <- MCPrint
  CONTINUE <- MCContinue
  STACK <- MCStack
  CSTRING <- MCString
  BASE = 2
  BUF = 8
  WORDS = 3
  NUMS = 3
  Memory <- MCMemory
  SIZEOF_INT = 2
  Stack = 0
  DUMP = 2
CHECK_DEADLOCK FALSE
INVARIANTS
  AddressShown
  OnlyTheLineSmashes
