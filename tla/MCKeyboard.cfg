SPECIFICATION Spec
CONSTANTS
  Keys = {"lshift", "rshift", "a", "1", "lbracket", "up", "print"}
  MaxCodes = 5
INVARIANTS
  TypedAsMeant
