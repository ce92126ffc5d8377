\* Two callers of Kill, one of SpawnDetached, pids reused freely.
CONSTANTS
    Pids = {1, 2, 3, 4}
    SelfPid = 2
    SelfApp = dashboard
    Apps = {web, foreign}
    EmptyApp = EmptyApp
    OwnApps = {web}
    ListenApps = {web, foreign}
    Slots = {k1, k2}
    Spawners = {s1}
    NoPid = NoPid
    NoProcess = NoProcess
    Grace = 1
    PidsAreReused = TRUE
    MaxBirths = 2
    MaxClock = 2
SPECIFICATION Spec
SYMMETRY Symmetric
INVARIANTS TypeOK SelfIsNeverTargeted KillOnlyAfterGrace TermFollowsScan FdsFollowChildren
PROPERTY ChildrenOutliveDashboard
\* The dashboard goes down and the bounded world comes to rest.
CHECK_DEADLOCK FALSE
