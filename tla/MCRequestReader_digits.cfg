SPECIFICATION Spec
CONSTANTS
    Requests <- TwoDigits
    Capacity = 30
    SizeModulus = 256
INVARIANTS
    BodyIsIntact
\* A call that has returned does nothing more.
CHECK_DEADLOCK FALSE
