SPECIFICATION Spec
CONSTANTS
    SlotCount = 1
    Workers = {w1}
    GenModulus = 2
    MaxRequests = 2
    MaxConnections = 1
INVARIANTS
    FinishedTicketRefused
\* After a stop the loop thread ends: there is nothing left to do.
CHECK_DEADLOCK FALSE
