SPECIFICATION FairSpec
CONSTANTS
    Clients = {c1, c2}
    Pids = {p1}
    BuilderRuns = {}
    TestRuns = {u1}
    UsbRuns = {u1}
    Commands = {"start", "stop", "power-loss", "reclaim", "hotplug", "compare"}
    MaxLaunches = 1
INVARIANT FixturesRegistered
PROPERTY LockGivenBack
