SPECIFICATION MCSpec
CONSTANTS
  Devices = {1, 2, 3}
  Founder = 1
  MaxTarget = 3
  MaxFaultyTarget = 2
  MaxFaults = 2
  w = w
  u = u
  f1 = f1
  f2 = f2
  Members = {w, u}
  Source = w
  Endpoints = {1, 2}
  ListenerSets = {{1}, {1, 2}}
  Refreshes = {f1, f2}
  HintTTLs = {1, 2}
  GuessTTL = 3
  RawTTL = 1
  ClockSkew = 1
  MemberCap = 2
  SessionCap = 3
  ManualCap = 1
  MaxClock = 2
  MaxSequence = 3
  MaxRebinds = 2
  MaxStarts = 1
  MaxBacks = 1
INVARIANTS AuthorityKeepsVoting EndpointsSound
PROPERTIES TargetVotersStay HealthyLeadersRun Converges
CHECK_DEADLOCK FALSE
