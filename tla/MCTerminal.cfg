SPECIFICATION Spec
CONSTANTS
  VGA_WIDTH = 3
  VGA_HEIGHT = 3
  MaxRows = 5
  Char = {sp, a}
  Blank = sp
  CR = cr
  BS = bs
  LF = lf
INVARIANTS
  ScreenShows
  CursorFollows
