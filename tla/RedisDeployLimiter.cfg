\* Three deploys on two replicas compete for two slots; Redis may fail those
\* of one deploy, whose token can leak while the others keep renewing the key.
\* A deploy that is refused waits less than a unit of time.
SPECIFICATION FairSpec
CONSTANTS
  d1 = d1
  d2 = d2
  d3 = d3
  r1 = r1
  r2 = r2
  Deploy = {d1, d2, d3}
  Replica = {r1, r2}
  Home <- MCHome
  Offset <- MCOffset
  MaxSkew = 1
  MaxSlots = 2
  LeaseTTL = 3
  WaitBudget = 0
  MaxDeploy = 1
  RedisFaults = {d1}
INVARIANTS TypeOK HolderKeepsLease
PROPERTIES ImplementsSlots QueueDrains LeakedSlotReclaimed
