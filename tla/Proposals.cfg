SPECIFICATION FairSpec
CONSTANTS
    n1 = n1
    n2 = n2
    n3 = n3
    e1 = e1
    e2 = e2
    x = x
    y = y
    None = None
    Nodes = {n1, n2}
    Ids = {e1}
    Bodies = {x, y}
    Requests <- MCRequestsReused
    Base <- MCBase
    Raises <- MCRaises
    Binary <- MCBinary
    MaxTerm = 2
    MaxLog = 3
    MaxRestarts = 1
INVARIANTS StoresSound AnswersStand
PROPERTIES FlightsResolve
CHECK_DEADLOCK FALSE
