SPECIFICATION MCSpec
CONSTANTS
  d1 = d1  d2 = d2  s1 = s1  s2 = s2  t1 = t1  l1 = l1  pa = pa
  c0 = c0  c1 = c1  c2 = c2  c3 = c3
  p1 = p1  p2 = p2  r1 = r1  r2 = r2  m1 = m1  m2 = m2  m3 = m3
  None = None
  Founder = d1
  Devices = {d1, d2}
  Sessions = {s1, s2}
  Tasks = {t1}
  Leases = {l1}
  PathScopes = {pa}
  Overlap <- MCOverlap
  Policies <- MCPolicies
  MaxVersion <- MCVersions
  Pubs = {p1, p2}
  Commits = {c0, c1, c2, c3}
  Root = c0
  Parent <- MCParent
  Plans = {r1, r2}
  Memories = {m1, m2, m3}
  v1 = v1  v2 = v2  v3 = v3  x = x
  Nodes = {v1, v2, v3}
  Subjects = {v3, x}
  AuthoritySets = {{v1, v2, v3}, {v2}}
  Fast = {v1}
  Offset = 2
  ValidityTime = 2
  LeadTime = 1
  OverlapTime = 1
  Skew = 1
  MaxEpoch = 3
  MaxTime = 2
  MaxEntries = 5
  MaxAttempts = 3
  MaxTerm = 2
  MaxLost = 1
  MaxStops = 1
  MaxVoterVersion = 2
  MaxPlanVersion = 3
CONSTRAINT Focus
INVARIANTS AppliedAreKept ReferencesHold RenewalSound
CHECK_DEADLOCK FALSE
