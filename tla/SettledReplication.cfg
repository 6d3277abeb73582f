SPECIFICATION FairSpec
CONSTANTS
    a = a
    b = b
    x = x
    l = l
    s1 = s1
    None = None
    Servers = {a, b, x}
    Strays = {x}
    Local = l
    Founders = {a}
    Sessions = {s1}
    Open = {}
    Plans <- MCPlans
    MaxPage = 1
    MaxFaults = 1
INVARIANTS ReplicaSound
PROPERTIES MarkerClearedSafely 
CHECK_DEADLOCK FALSE
