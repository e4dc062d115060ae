SPECIFICATION FairSpec
CONSTANTS
    Stages = {1, 2, 3}
    Facts = {f, g}
    Checks = {1, 2, 3}
    Attests <- MCAttests
CHECK_DEADLOCK FALSE
INVARIANTS OrderIsSound UnwoundInReverse AttestedOnCompleted
PROPERTY Terminates
