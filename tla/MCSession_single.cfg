\* One instance at a time and one browser, three starts, two deaths or power failures.
CONSTANTS
    Instances = {i1}
    NoInode = NoInode
    Torn = Torn
    NoReading = NoReading
    MaxLines = 2
    MaxStarts = 3
    MaxStops = 2
    NoCookie = NoCookie
    CookieTTL = 2
    MaxClock = 2
SPECIFICATION SessionSpec
INVARIANTS SessionTypeOK UserLinesSurvive PrintedTokenHolds SessionsSurvive HandledIsAuthorised RedirectsEnd
\* The last start is over.
CHECK_DEADLOCK FALSE
