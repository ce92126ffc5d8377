\* Two instances started side by side on a first run.
CONSTANTS
    Instances = {i1, i2}
    NoInode = NoInode
    Torn = Torn
    NoReading = NoReading
    MaxLines = 1
    MaxStarts = 2
    MaxStops = 0
SPECIFICATION Spec
SYMMETRY Symmetric
INVARIANTS ServedIsPersisted
\* Both starts are over.
CHECK_DEADLOCK FALSE
