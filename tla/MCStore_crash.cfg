\* Two goroutines, file errors, a crash or a power failure.
CONSTANTS
    Threads = {t1, t2}
    Keys = {k1}
    Texts = {la}
    NoText = ""
    Times = {0}
    Ids = {1, 2, 3}
    EntryBytes = {1}
    LabelBytes = 1
    BaseBytes = 1
    MaxStateBytes = 3
    PerKeyRememberedCap = 2
    GlobalRememberedCap = 2
    NoThread = NoThread
    NoCall = NoCall
    NoFile = NoFile
    Torn = Torn
    MaxCalls = 3
    MaxStops = 1
SPECIFICATION FairSpec
INVARIANTS TypeOK FileIsWhole AckIsDurable
PROPERTIES ImplementsStoreAbs CallsReturn
