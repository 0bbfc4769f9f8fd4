SPECIFICATION Spec
CONSTANTS
  WordSize = 32
  Base = 8
  BufEnd = 16
  Layouts <- TypedLayouts
  Handles = {h1, h2}
  None = None
  Calls <- GrowOnly
  StackClient = TRUE
SYMMETRY Symmetry
INVARIANTS
  LiveInBuffer
