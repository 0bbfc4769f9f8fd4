SPECIFICATION Spec
CONSTANTS
  ElemSize = 1
  ElemAlign = 1
  Usize = 8
  FirstPush = 2
  Arrays = {a1, a2}
  Elements = {e1, e2, e3}
  None = None
  Fragile = {e1, e2, e3}
  Counts <- Sizes
  Indices <- Positions
  Calls <- Faithful
  Excess <- UpToOneMore
  OverflowChecks = FALSE
SYMMETRY Symmetry
INVARIANTS
  TypeOK
  VisibleAlive
  NothingLost
  InBounds
  LayoutKept
  NoDoubleDrop
PROPERTIES
  KeepsContract
