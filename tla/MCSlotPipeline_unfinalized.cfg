SPECIFICATION Spec
CONSTANTS
    Client <- TwoRequests
    RecvSize = 4
    MaxResponse = 2
    MaxChunks = 1
    Sockets = {FALSE}
INVARIANTS
    OfferedIsFinalized
\* A closed connection stays closed.
CHECK_DEADLOCK FALSE
