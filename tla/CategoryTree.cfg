\* Two requests at a time that create, move, update and delete categories.
SPECIFICATION Spec
CONSTANTS
  Category = {1, 2, 3}
  Tree <- MCThree
  Request = {r1, r2}
  None = none
  Kinds <- MCAll
  Edited <- MCEdited
  SortOrder = {0}
  Index <- MCIndex
  MaxAsked = 4
SYMMETRY MCSymmetry
INVARIANTS OnlyRacesMakeCycles ParentExists
PROPERTY MovePlaces
CHECK_DEADLOCK FALSE
