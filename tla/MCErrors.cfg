\* Every method, over a connection that fails anywhere.
SPECIFICATION Spec
CONSTANTS
    Methods = {"command", "get", "multi", "version", "stats"}
    MaxCalls = 4
INVARIANTS
    SocketErrorCloses
    RaisesItsOwn
\* The program ends.
CHECK_DEADLOCK FALSE
