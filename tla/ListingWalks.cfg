SPECIFICATION Spec
CHECK_DEADLOCK FALSE
CONSTANTS
  Rows = {r1, r2, r3, r4, r5}
  Stamps = {1, 2, 3, 4}
  PageSize = 2
  MaxEntered = 2
  MaxLeft = 2
SYMMETRY MCSymmetry
INVARIANTS
  MissedAreAccounted
  RepeatedAreAccounted
