SPECIFICATION MCSpec
CONSTANTS
    s0 = s0
    s1 = s1
    s2 = s2
    Local = 1
    Other = 2
    Keys = {1}
    FirstSession = s0
    LaterSessions = {s1, s2}
    MaxSequence = 2
    MaxHistory = 3
    MaxAhead = 3
    FaultyHistory = 2
    MemberHistory = 2
    Faults = {"outcome", "writes", "transform", "omit", "repeat", "swap", "session", "cut"}
    n1 = n1
    n2 = n2
    Nodes = {n1, n2}
    NoNode = NoNode
    AuthorityOf <- MCAuthority
    MaxIndex = 4
    MaxTerm = 3
    MaxRestarts = 1
    MaxAttempts = 1
    MaxCommands = 1
    MaxInbound = 2
    Addresses = {"a"}
    Planes = {"consensus", "content"}
    FirstEpoch = 2
    ConnectionSlots = 2
    HandshakeSlots = 1
    VerifyAttempts = 2
    PlaneMax <- MCPlaneMax
    MaxTurns = 1
    MaxRebinds = 1
    p1 = p1
    c1 = c1
    c2 = c2
    NoCall = NoCall
    Peers = {p1}
    Calls = {c1, c2}
    StreamSlots = 2
    HandlerSlots = 1
    LastGeneration = 4
    MaxShifts = 1
    MaxOutages = 1
INVARIANTS
    InstalledIsSound
    
    ConnectionsAuthorized
    StreamsSound
PROPERTIES
    InstallExtends
CONSTRAINT Focus
SYMMETRY Symmetric
CHECK_DEADLOCK FALSE
