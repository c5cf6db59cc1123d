\* A reindex whose page query fails is answered with "reindexed".
SPECIFICATION Spec
CONSTANTS
  d1 = d1
  d2 = d2
  d3 = d3
  v1 = v1
  v2 = v2
  n1 = n1
  n2 = n2
  p1 = p1
  p2 = p2
  Deploy = {d1}
  Admin = admin
  Version = {v1, v2}
  Asset = {n1, n2}
  Doc = {p1, p2}
  None = none
  MaxSlots = 1
  Target <- MCTarget
  Assets <- MCAssets
  Docs <- MCDocs
  Reindexes = 1
  Withdrawn = {}
  Faulty = {admin}
INVARIANT ReindexCoversAll
CHECK_DEADLOCK FALSE
