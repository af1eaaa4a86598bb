SPECIFICATION LifecycleFairSpec
CONSTANTS
    Stoppers = {t1, t2}
    MaxRuns = 2
    MaxStops = 2
INVARIANTS
    AnnouncedRunningIsOpen
    AnnouncedStoppedIsClosed
PROPERTIES
    StopIsFinal
    StopEndsTheLoop
    StopReturns
\* A server that was stopped may stay so.
CHECK_DEADLOCK FALSE
