SPECIFICATION Spec
CONSTANTS
    Endpoints = {e}
    Connections = {c, d}
    Connection = c
    Fds = {0, 1}
    Exchanges <- SomeExchanges
    MaxRequests = 1
    IoTimeouts = {0}
    PollSlice = 2
INVARIANTS
    NothingIsStranded
