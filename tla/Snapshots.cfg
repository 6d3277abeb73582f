SPECIFICATION MCSpec
CONSTANTS
    Kinds = {"command", "checkpoint", "config"}
    MaxLog = 5
    MaxFaults = 1
    MaxFlawed = 1
    SnapshotRetention = 1
    MaxRaftTail = 1
    TrailingLogs = 1
    Receivers = {1}
    MaxArtifacts = 3
    Retention = 1
    CacheRetention = 2
    Pieces = 2
    MaxCrashes = 1
    MaxStops = 1
    MaxMishaps = 2
    MaxConns = 3
    MaxEpoch = 2
    MaxHead = 1
    MaxBreaks = 1
    MaxChanges = 1
INVARIANTS OpeningsSound ArtifactsKept 
PROPERTIES Rejoins SnapshotsSettle PeerSettles
CHECK_DEADLOCK FALSE
