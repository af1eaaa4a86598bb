SPECIFICATION FairSpec
CONSTANTS
    SlotCount = 2
    Workers = {w1, w2}
    GenModulus = 3
    MaxRequests = 2
    MaxConnections = 2
INVARIANTS
    TicketStaysOnConnection
    AcceptedPostDecides
    NoLostWakeup
    ParkedTicketIsGood
    NoOrphanExchange
PROPERTIES
    KeepsPromise
    EveryExchangeEnds
\* After a stop the loop thread ends: there is nothing left to do.
CHECK_DEADLOCK FALSE
