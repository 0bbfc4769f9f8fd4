SPECIFICATION Spec
CONSTANTS
  ElemSize = 2
  ElemAlign = 2
  Usize = 16
  FirstPush = 2
  Arrays = {a1, a2}
  Elements = {e1, e2}
  None = None
  Fragile = {e1, e2}
  Counts <- FewSizes
  Indices <- FewPositions
  Calls <- AllMethods
  Excess <- Exactly
  OverflowChecks = TRUE
SYMMETRY Symmetry
VIEW Fields
INVARIANTS
  LengthWithinCapacity
PROPERTIES
  RoomAsAsked
  FailureKeepsContents
