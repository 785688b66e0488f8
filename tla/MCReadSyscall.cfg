SPECIFICATION ReadSpec
CONSTANTS
  Char = {a, b, bs}
  BS = bs
  MaxN = 3
INVARIANTS
  BufferIsEdited
  FullOrGivenUp
PROPERTIES
  OnlyTheBuffer
