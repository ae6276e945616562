\* OnProcess may call Stop on its own consumer: Stop then waits for the
\* mutex its own goroutine holds, and every other Stop caller waits too.
CONSTANTS
    s1 = s1
    s2 = s2
    t1 = t1
    t2 = t2
    g1 = g1
    None = None
    StartCallers <- MCStartCallers
    StopCallers <- MCStopCallers
    Sleepers <- MCSleepers
SPECIFICATION SpecCallbackStop
PROPERTY StopReturns
CHECK_DEADLOCK FALSE
