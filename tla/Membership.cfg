SPECIFICATION MCSpec
CONSTANTS
  d1 = d1  d2 = d2  d3 = d3  d4 = d4  k1 = k1  k2 = k2  k3 = k3
  Founder = d1
  Devices = {d1, d2, d3}
  Levels = {1, 2}
  Policies <- MCPolicies
  Keys = {k1, k2}
  MaxVersion <- MCBounds
  i1 = i1  i2 = i2  a1 = a1  b1 = b1  None = None
  Invites = {i1, i2}
  Attempts = {a1}
  Strangers = {b1}
  MaxOutstanding = 1
  MaxHistory = 1
  MaxProofFailures = 2
  MaxSnapshots = 0
  MaxFaults = 0
SYMMETRY Symmetry
CONSTRAINT Focus
INVARIANTS  CredentialHistoryValid InvitesAccounted
PROPERTIES MembershipStands
CHECK_DEADLOCK FALSE
