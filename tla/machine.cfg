SPECIFICATION Spec
CONSTANTS
    Clients = {c1, c2}
    Pids = {p1, p2}
    BuilderRuns = {b1}
    TestRuns = {t1}
    UsbRuns = {}
    Commands = {"start", "resume", "stop", "power-loss", "reclaim"}
    MaxLaunches = 2
SYMMETRY Interchangeable
INVARIANTS OnlyMachinesSignalled ReleasedMeansEnded MachinesAccountedFor
