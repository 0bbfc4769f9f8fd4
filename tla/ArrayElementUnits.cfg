SPECIFICATION Spec
CONSTANTS
  ElemSize = 2
  ElemAlign = 2
  Usize = 16
  FirstPush = 2
  Arrays = {a1}
  Elements = {e1, e2, e3}
  None = None
  Fragile <- NoElements
  Counts <- Sizes
  Indices <- Positions
  Calls <- Storing
  Excess <- Exactly
  OverflowChecks = FALSE
SYMMETRY Symmetry
INVARIANTS
  InBounds
