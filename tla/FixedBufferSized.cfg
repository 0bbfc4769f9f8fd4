SPECIFICATION Spec
CONSTANTS
  WordSize = 64
  Base = 10
  BufEnd = 22
  Layouts <- SizedLayouts
  Handles = {h1, h2, h3}
  None = None
  Calls <- AllCalls
  StackClient = FALSE
SYMMETRY Symmetry
INVARIANTS
  IInv
  DataIntact
PROPERTIES
  NoOpUnlessLast
