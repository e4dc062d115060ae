SPECIFICATION Spec
CONSTANTS
    os = os
    own = own
    Layers <- MCLayers
    Base = os
    Artifacts = 2
INVARIANTS
    CasesDifferByOneFault
    DedupeKeepsContents
    ExerciseProvesVerifier
    OriginalKept
PROPERTIES
    OnlyVerifiedStarts
    RejectionIsEarned
CHECK_DEADLOCK FALSE
