\* The dashboard and up to three other processes with three descriptors each.
CONSTANTS
    Pids = {1, 2, 3, 4}
    Self = 1
    Fds = {1, 2, 3}
    Users = {"me", "root"}
    Me = "me"
    Images <- TwoImages
    Sockets <- ThreeSockets
    Closed = Closed
    File = File
    NoProcess = NoProcess
    PortMin = 4000
    PortMax = 40500
    PidSlack = 1
    FdSlack = 1
    FirstTables <- Tables
    MaxChanges = 2
    NoCwd = NoCwd
    Failed = Failed
SPECIFICATION Spec
INVARIANTS TypeOK RowsAreTrue NothingMissed InspectionIsTrue
\* The call is over.
CHECK_DEADLOCK FALSE
