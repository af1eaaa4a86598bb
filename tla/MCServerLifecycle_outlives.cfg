SPECIFICATION LifecycleSpec
CONSTANTS
    Stoppers = {t1}
    MaxRuns = 1
    MaxStops = 1
PROPERTIES
    LoopOutlivesStop
\* A server that was stopped may stay so.
CHECK_DEADLOCK FALSE
