SPECIFICATION Spec
CONSTANTS
    Endpoints = {e}
    Connections = {c}
    Connection = c
    Fds = {0, 1}
    Exchanges <- WithoutHeaders
    MaxRequests = 2
    IoTimeouts = {0, 4}
    PollSlice = 2
INVARIANTS
    BodyToTheCloseIsWhole
