\* Three deploys, two of one version, two slots, a reindex; d1 and the admin meet
\* every failure.
SPECIFICATION Spec
CONSTANTS
  d1 = d1
  d2 = d2
  d3 = d3
  v1 = v1
  v2 = v2
  n1 = n1
  n2 = n2
  p1 = p1
  p2 = p2
  Deploy = {d1, d2, d3}
  Admin = admin
  Version = {v1, v2}
  Asset = {n1, n2}
  Doc = {p1, p2}
  None = none
  MaxSlots = 2
  Target <- MCTarget
  Assets <- MCAssets
  Docs <- MCDocs
  Reindexes = 1
  Withdrawn = {}
  Faulty = {d1, admin}
INVARIANTS TypeOK PagesReplaceable ReindexRepairs
PROPERTIES AcceptedIsComplete CompleteUntilRedeployed
CHECK_DEADLOCK FALSE
