SPECIFICATION FairSpec
CONSTANTS
    NoOne = NoOne
    Clients = {c1, c2}
    MaxAsks = 2
    MaxMachines = 2
    MaxReboots = 1
INVARIANTS
    OwnAnswer
    OneGuest
PROPERTIES
    KeepsPromise
    Settles
CHECK_DEADLOCK FALSE
