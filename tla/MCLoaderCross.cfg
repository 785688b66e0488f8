SPECIFICATION Spec
CONSTANTS
  Names = {"init", "shell"}
  Layouts <- MCLayouts
  CHUNK = 2
  PAGE = 4
  MaxUnit = 28
  MaxHeap = 4
CHECK_DEADLOCK FALSE
INVARIANTS
  EveryProgramLoads
