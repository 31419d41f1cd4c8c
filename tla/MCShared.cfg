\* A program whose iterators raise at any key, and call every method.
SPECIFICATION Spec
CONSTANTS
    Frames = {f1, f2, f3}
    Nested = TRUE
    Methods = {"line", "version", "set", "quiet", "get", "multi"}
    MaxKeys = 1
    MaxValues = 1
    MaxCalls = 3
INVARIANTS
    InStep
    AnsweredAsAsked
    PullsWhatIsThere
    PiecesInv
\* The program ends; and a call may wait for ever for a line that an earlier
\* one has taken.
CHECK_DEADLOCK FALSE
