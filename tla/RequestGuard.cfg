\* Two requests at a time of one client, two requests in a window of three
\* units, one ingest slot; both backends.
SPECIFICATION Spec
CONSTANTS
  None = None
  Request = {r1, r2}
  Key = {k1}
  Limit = 2
  Window = 3
  MaxStall = 2
  GCEvery = 2
  GCKeep = 5
  MaxSlots = 1
  WaitBudget = 1
INVARIANTS
  TypeOK
  BurstBounded
PROPERTIES
  RefusalJustified
  ImplementsSlots
