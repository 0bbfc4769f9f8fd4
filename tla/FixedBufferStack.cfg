SPECIFICATION Spec
CONSTANTS
  WordSize = 64
  Base = 10
  BufEnd = 22
  Layouts <- MixedLayouts
  Handles = {h1, h2, h3}
  None = None
  Calls <- AllCalls
  StackClient = TRUE
SYMMETRY Symmetry
INVARIANTS
  IInv
  DataIntact
  LiveAligned
PROPERTIES
  KeepsContract
