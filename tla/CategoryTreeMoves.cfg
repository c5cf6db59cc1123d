\* Two moves at the same time turn two platforms into a cycle.
SPECIFICATION Spec
CONSTANTS
  Category = {1, 2, 3}
  Tree <- MCThree
  Request = {r1, r2}
  None = none
  Kinds = {"move"}
  Edited = {}
  SortOrder = {0}
  Index = {0}
  MaxAsked = 2
SYMMETRY MCSymmetry
INVARIANT NoCycle
CHECK_DEADLOCK FALSE
