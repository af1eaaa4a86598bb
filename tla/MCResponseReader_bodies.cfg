SPECIFICATION Spec
CONSTANTS
    Responses <- SomeResponses
    Capacity = 5
INVARIANTS
    BodyIsIntact
    OkMeansComplete
    UnreadIsSafe
    RefusesOnlyWhenFull
\* Once the response is read there is nothing left to do.
CHECK_DEADLOCK FALSE
