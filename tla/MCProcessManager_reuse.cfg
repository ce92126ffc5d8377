\* A pid reused inside the grace window.
CONSTANTS
    Pids = {1, 2, 3, 4}
    SelfPid = 2
    SelfApp = dashboard
    Apps = {web, foreign}
    EmptyApp = EmptyApp
    OwnApps = {web}
    ListenApps = {web, foreign}
    Slots = {k1}
    Spawners = {s1}
    NoPid = NoPid
    NoProcess = NoProcess
    Grace = 1
    PidsAreReused = TRUE
    MaxBirths = 2
    MaxClock = 2
SPECIFICATION Spec
INVARIANT KilledWasListed
\* The dashboard goes down and the bounded world comes to rest.
CHECK_DEADLOCK FALSE
