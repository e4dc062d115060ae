SPECIFICATION GatesSpec
CONSTANTS
    Recorders = {r1}
    vmCheck = vmCheck
    d1 = d1
    Checks = {vmCheck}
    Required <- MCRequired
    Hardware = {}
    Candidates = {d1, d2}
    Payloads = {x1}
    Verdicts = {"PASS", "FAIL"}
    Legacies <- MCLegacies
    Sessions = {"record", "verify"}
    MaxEntries = 2
    Remotes = {origin}
    Rows <- MCRows
    Defects <- MCDefects
    MaxCommits = 3
INVARIANTS
    ReadyIsEarned
    PushedIsJudged
    ProofsHold
