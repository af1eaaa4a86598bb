SPECIFICATION FairSpec
CONSTANTS
    Endpoints = {e}
    Connections = {c, d}
    Connection = c
    Fds = {0, 1}
    Exchanges <- SomeExchanges
    MaxRequests = 2
    IoTimeouts = {0, 4}
    PollSlice = 2
INVARIANTS
    DescriptorsAreOwned
    ResponseIsWhole
    WaitsForWhatIsOwed
    SilenceIsBounded
PROPERTIES
    CallReturns
