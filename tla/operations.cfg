SPECIFICATION OperationsSpec
CONSTANTS
    Starts <- MCStarts
    MaxChanges = 3
    MaxBoots = 5
    MaxUpsets = 1
INVARIANTS
    FallbackIsReal
    WayBackBoots
    PolicyOnlyVerified
CHECK_DEADLOCK FALSE
