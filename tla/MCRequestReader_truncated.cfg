SPECIFICATION Spec
CONSTANTS
    Requests <- CutShort
    Capacity = 6
    SizeModulus = 256
INVARIANTS
    OkBodyIsWhole
\* A call that has returned does nothing more.
CHECK_DEADLOCK FALSE
