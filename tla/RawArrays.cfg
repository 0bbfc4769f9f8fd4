SPECIFICATION Spec
CONSTANTS
  WordSize = 16
  Base = 2
  BufEnd = 6
  LayoutMax = 4
  Arrays = {a1, a2}
  Others = {o1}
  Values = {x, y}
  None = None
  FirstPush = 2
  Counts <- Sizes
  Indices <- Positions
SYMMETRY Symmetry
INVARIANTS
  TypeOK
  Initialised
  BlockKnown
  BlocksApart
PROPERTIES
  Isolation
