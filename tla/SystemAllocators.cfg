SPECIFICATION SystemSpec
CONSTANTS
  WordSize = 32
  Base = 4
  BufEnd = 16
  Layouts <- SystemLayouts
  Handles <- AllHandles
  None = None
  Calls <- NoCalls
  StackClient = FALSE
  v1 = v1
  v2 = v2
  v3 = v3
  m1 = m1
  HeapHandles <- LibcHandles
  Heap <- LibcMemory
  PtrAlign = 2
  Borrowed = TRUE
SYMMETRY Symmetry
INVARIANTS
  BlocksInTheirMemory
  NoOverflow
  DataIntact
  LiveAligned
PROPERTIES
  KeepsSystemContract
