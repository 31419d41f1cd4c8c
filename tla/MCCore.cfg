\* Every call of the client over a connection that may fail at any point.
SPECIFICATION Spec
CONSTANTS
    k1 = k1
    k2 = k2
    NoKey = NoKey
    Keys <- MCKeys
    Replies <- MoreReplies
    RCap = 24
    WCap = 4
    RecvMax = 3
    MaxSize = 1
    DataSizes = {1, 2}
    KeyCounts = {2}
    MaxCalls = 3
    Faults = TRUE
    BadKeys = FALSE
INVARIANTS
    TypeOK
    CursorOrder
    OwnReply
    Drained
    Rewound
    ReturnsTheAnswer
    AsyncBeforeSync
    WriterFits
    ReaderFits
    ResetsAreReal
    StreamInv
    OrderInv
    AnswerInv
PROPERTIES
    ClosedForGood
    KeepsItsPromise
