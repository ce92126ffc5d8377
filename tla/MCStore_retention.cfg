\* One goroutine, enough calls to pass both caps and the size limit.
CONSTANTS
    Threads = {t1}
    Keys = {k1, k2}
    Texts = {la}
    NoText = ""
    Times = {0, 1}
    Ids = {1, 2, 3, 4}
    EntryBytes = {1}
    LabelBytes = 3
    BaseBytes = 1
    MaxStateBytes = 5
    PerKeyRememberedCap = 2
    GlobalRememberedCap = 3
    NoThread = NoThread
    NoCall = NoCall
    NoFile = NoFile
    Torn = Torn
    MaxCalls = 4
    MaxStops = 0
SPECIFICATION Spec
SYMMETRY Symmetric
INVARIANTS OldestGoFirst EveryCopyBounded
