SPECIFICATION Spec
CONSTANTS
    Requests <- SomeRequests
    Capacity = 20
    SizeModulus = 256
INVARIANTS
    BodyIsIntact
    RemainderIsFree
\* A call that has returned does nothing more.
CHECK_DEADLOCK FALSE
