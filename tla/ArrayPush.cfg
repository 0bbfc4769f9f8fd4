SPECIFICATION Spec
CONSTANTS
  ElemSize = 1
  ElemAlign = 1
  Usize = 8
  FirstPush = 2
  Arrays = {a1}
  Elements = {e1, e2, e3}
  None = None
  Fragile <- NoElements
  Counts <- Sizes
  Indices <- Positions
  Calls <- Pushing
  Excess <- Exactly
  OverflowChecks = FALSE
SYMMETRY Symmetry
INVARIANTS
  NothingLost
