\* Two requests at a time on two ports; pids are not reused.
CONSTANTS
    Pids = {2, 3, 4}
    SelfPid = 2
    SelfApp = dashboard
    web = web
    api = api
    Apps = {web, api}
    EmptyApp = EmptyApp
    OwnApps = {web, api}
    ListenApps = {web, api}
    Slots = {k1, k2}
    Spawners = {k1, k2}
    NoPid = NoPid
    NoProcess = NoProcess
    Grace = 1
    PidsAreReused = FALSE
    MaxBirths = 2
    MaxClock = 1
    Ports = {40000, 40001}
    PortOf <- TwoPorts
    Misread <- OneMisread
    NoApp = NoApp
    EntryBytes = {1, 3}
    LabelBytes = 2
    MaxStateBytes = 2
    PerKeyRememberedCap = 1
    GlobalRememberedCap = 1
    MaxRequests = 2
SPECIFICATION DashSpec
SYMMETRY Symmetric
INVARIANTS DashTypeOK EntriesMatchKills ActsOnAskedPorts ChildrenWereKilled
\* The dashboard goes down and the bounded world comes to rest.
CHECK_DEADLOCK FALSE
