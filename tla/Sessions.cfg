\* Two logins that two accounts may answer, in two browsers, two requests at a time.
SPECIFICATION Spec
CONSTANTS
  alice = alice
  bob = bob
  Browser = {b1, b2}
  Account = {alice, bob}
  State = {s1, s2}
  Request = {q1, q2}
  Super <- MCSuper
  ManualId = manual
  Claims <- MCClaims
  Later <- MCLater
  StateTTL = 1
  SessionTTL = 1
  MaxAnswers = 2
  StoreFails = TRUE
  Changes <- MCChanges
  None = none
SYMMETRY MCSymmetry
INVARIANTS TypeOK StateUsedOnce OwnLogin LostRolesExpire
PROPERTY DirectoryLikeFake
CHECK_DEADLOCK FALSE
