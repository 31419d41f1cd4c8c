\* Two threads make a call each.
SPECIFICATION Spec
CONSTANTS
    Frames = {f1, f2}
    Nested = FALSE
    Methods = {"line"}
    MaxKeys = 2
    MaxValues = 1
    MaxCalls = 2
INVARIANT
    PullsWhatIsThere
\* The program ends.
CHECK_DEADLOCK FALSE
