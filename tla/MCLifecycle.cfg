\* Three threads of a program that may call __init__ again; creating a socket
\* may fail.
SPECIFICATION Spec
CONSTANTS
    Threads = {t1, t2, t3}
    SocketFails = TRUE
    Reinit = TRUE
    MaxInits = 3
INVARIANTS
    TypeOK
    NoUseAfterFree
    SocketReleased
    NoNullUse
\* A client comes to its end and nothing follows.
CHECK_DEADLOCK FALSE
