\* A second Start, or a Start after Stop, notifies StateClosed again or
\* without StateRun.
CONSTANTS
    s1 = s1
    s2 = s2
    t1 = t1
    t2 = t2
    g1 = g1
    None = None
    StartCallers <- MCStartCallers
    StopCallers <- MCStopCallers
    Sleepers <- MCSleepers
SPECIFICATION Spec
INVARIANT ClosedOnceAfterRun
CHECK_DEADLOCK FALSE
