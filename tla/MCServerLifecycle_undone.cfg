SPECIFICATION LifecycleFairSpec
CONSTANTS
    Stoppers = {t1}
    MaxRuns = 1
    MaxStops = 1
PROPERTIES
    StopIsNotUndone
\* A server that was stopped may stay so.
CHECK_DEADLOCK FALSE
