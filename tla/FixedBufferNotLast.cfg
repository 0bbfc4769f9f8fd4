SPECIFICATION Spec
CONSTANTS
  WordSize = 32
  Base = 8
  BufEnd = 16
  Layouts <- MixedLayouts
  Handles = {h1, h2}
  None = None
  Calls <- DeallocateOnly
  StackClient = FALSE
SYMMETRY Symmetry
PROPERTIES
  NoOpUnlessLast
