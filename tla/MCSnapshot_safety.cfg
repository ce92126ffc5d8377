\* Two overlapping requests, one slot to inspect two listeners with.
CONSTANTS
    Handlers = {h1, h2}
    Pids = {1, 2}
    web = web
    api = api
    Apps = {web, api}
    Misread <- OneMisread
    Labels = {la}
    NoApp = NoApp
    Failed = Failed
    Cut = Cut
    NoRows = NoRows
    MaxParallelInspect = 1
    MaxChanges = 1
    MaxRenames = 1
    MaxRequests = 2
SPECIFICATION Spec
SYMMETRY Symmetric
INVARIANTS TypeOK UnmarkedIsComplete UnmarkedIsTrue FailureShowsLastGood NobodyWaitsForEver
\* Nobody has to make another request.
CHECK_DEADLOCK FALSE
