SPECIFICATION Spec
CONSTANTS
  BUFFER_LEN = 3
  Char = {nul, a, b}
  NUL = nul
INVARIANT DropOnlyWhenFull
