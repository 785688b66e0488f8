SPECIFICATION Spec
CONSTANTS
  ENTRIES = 3
  HALF = 2
  MCUsableFrames = 6
  Frame <- MCFrame
  NULL <- MCNull
  Root <- MCRoot
  KernelFrame <- MCKernelFrame
  BootMem <- MCBootMem
  Usable <- MCUsable
  HeapAddr <- MCHeapAddr
  SegAddr <- MCSegAddr
  Perm <- MCPerm
INVARIANTS
  FreeListIntact
  TablesLive
  OneOwner
  NoTableLost
  TlbCoherent
  HeapMapped
PROPERTIES
  KernelHalfKept
  SpaceSpec
CHECK_DEADLOCK FALSE
