\* Calls that go on after the connection is gone.
SPECIFICATION Spec
CONSTANTS
    k1 = k1
    k2 = k2
    NoKey = NoKey
    Keys <- MCKeys
    Replies <- MCReplies
    RCap = 40
    WCap = 6
    RecvMax = 3
    MaxSize = 1
    DataSizes = {1}
    KeyCounts = {2}
    MaxCalls = 4
    Faults = FALSE
    BadKeys = FALSE
INVARIANT
    WriterInBounds
