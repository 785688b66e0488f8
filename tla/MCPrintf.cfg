SPECIFICATION FairPrintSpec
CONSTANTS
  WORD = 16
  INT = 8
  SHORT = 4
  DEC = 3
  HEX = 4
  BUFFER = 4
  Formats <- MCFormats
  Strings <- MCStrings
INVARIANTS
  DigitsFit
  PrintsAsMeant
PROPERTIES
  Returns
CHECK_DEADLOCK FALSE
