SPECIFICATION Spec
CONSTANTS
    Client <- TwoRequests
    RecvSize = 2
    MaxResponse = 1
    MaxChunks = 1
    Sockets = {TRUE}
INVARIANTS
    WaitsOnThePeer
\* A closed connection stays closed.
CHECK_DEADLOCK FALSE
