SPECIFICATION Spec
CONSTANTS
    MaxRuns = 1
    SendMakesDirectories = FALSE
INVARIANT
    NeedsMet
CHECK_DEADLOCK FALSE
