SPECIFICATION FairSpec
CONSTANTS
    i1 = i1
    a1 = a1
    a2 = a2
    None = None
    Invites = {i1}
    Attempts = {a1, a2}
    Strangers = {}
    MaxOutstanding = 1
    MaxHistory = 1
    MaxProofFailures = 2
    MaxSnapshots = 2
    MaxFaults = 1
INVARIANTS JoinsEarned
PROPERTIES DestinationOwned JoinsSettle
CHECK_DEADLOCK FALSE
