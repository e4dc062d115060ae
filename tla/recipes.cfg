SPECIFICATION Spec
CONSTANTS
    MaxRuns = 3
    SendMakesDirectories = TRUE
INVARIANTS
    OnlyIsolatedBuilder
    RecordIsEarned
    DerivedFromCompleteImage
    FoldedFromAll
    PassOnOwnLogin
CHECK_DEADLOCK FALSE
