SPECIFICATION Spec
CONSTANTS
    Responses <- ShortResponses
    Capacity = 2
INVARIANTS
    RefusedDoesNotFit
\* Once the response is read there is nothing left to do.
CHECK_DEADLOCK FALSE
