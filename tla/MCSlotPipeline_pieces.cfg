SPECIFICATION FairSpec
CONSTANTS
    Client <- FourRequests
    RecvSize = 4
    MaxResponse = 2
    MaxChunks = 1
    Sockets = {TRUE, FALSE}
INVARIANTS
    RequestsInOrder
    AnswersKeepUp
    StreamsAreFinalized
    RejectsOnlyOversized
PROPERTIES
    SentIsAnswered
\* A closed connection stays closed.
CHECK_DEADLOCK FALSE
