SPECIFICATION Spec
CONSTANTS
    n1 = n1
    n2 = n2
    n3 = n3
    e1 = e1
    e2 = e2
    x = x
    y = y
    None = None
    Nodes = {n1, n3}
    Ids = {e1, e2}
    Bodies = {x}
    Requests <- MCRequestsTwo
    Base <- MCBase
    Raises <- MCRaises
    Binary <- MCBinary
    MaxTerm = 2
    MaxLog = 3
    MaxRestarts = 0
INVARIANTS
    HistoriesAgree
PROPERTIES
    ImplementsLedger
