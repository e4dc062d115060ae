SPECIFICATION Spec
CONSTANTS
    Recorders = {r1, r2}
    Checks = {k1}
    Required <- MCRequired
    Hardware = {}
    Candidates = {d1}
    Payloads = {x1, x2}
    Verdicts = {"PASS"}
    Sessions = {"record", "verify"}
    MaxEntries = 2
SYMMETRY Interchangeable
INVARIANTS CitationsFiled UndisturbedIsIntact
PROPERTY PrefixKept
