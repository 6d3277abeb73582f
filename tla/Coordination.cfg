SPECIFICATION Spec
CONSTANTS
  d1 = d1  d2 = d2  s1 = s1  s2 = s2
  t1 = t1  t2 = t2  l1 = l1  l2 = l2
  pa = pa  pb = pb
  None = None
  Founder = d1
  Devices = {d1, d2}
  Sessions = {s1, s2}
  Tasks = {t1, t2}
  Leases = {l1, l2}
  PathScopes = {pa, pb}
  Overlap <- MCOverlap
  Policies <- MCPolicies
  MaxVersion <- MCVersions
SYMMETRY Symmetry
CONSTRAINT Focus
INVARIANT RowsConsistent
PROPERTIES RowsAlwaysAdvance
CHECK_DEADLOCK FALSE
