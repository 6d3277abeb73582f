SPECIFICATION MCSpec
CONSTANTS
    l1 = l1
    l2 = l2
    r1 = r1
    p = p
    q = q
    NoRequest = NoRequest
    Launches = {l1, l2}
    Roots = {r1}
    RootOf <- MCRootOf
    Isolated = {r1}
    MaxBinds = 3
    MaxRestarts = 1
    MaxGuardChanges = 1
    Requests = {p, q}
    Loads <- MCLoads
    PerOrigin = 2
    PerSession <- MCPerSession
    MaxReboots = 1
    MaxCollisions = 1
INVARIANTS  OutboxSound
PROPERTIES DisconnectedSettles QueueDrains
CHECK_DEADLOCK FALSE
