\* Two concurrent requests on two grants of one app.
SPECIFICATION FairSpec
CONSTANTS
  g1 = g1
  g2 = g2
  Grant = {g1, g2}
  Request = {r1, r2}
  None = none
  MaxPair <- MCMaxPair
  Expires = {g1}
  Failing = {g1}
INVARIANTS TypeOK TokenUsedOnce DroppedIsDead DeletedAppHasNoGrants
PROPERTIES RevokedIsFinal RequestEnds
CHECK_DEADLOCK FALSE
