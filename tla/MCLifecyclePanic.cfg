\* A panic in a callback is recovered and Start returns nil.
CONSTANTS
    s1 = s1
    s2 = s2
    t1 = t1
    t2 = t2
    g1 = g1
    None = None
    StartCallers <- MCStartCallers
    StopCallers <- MCStopCallers
    Sleepers <- MCSleepers
SPECIFICATION Spec
INVARIANT PanicSurfacesError
CHECK_DEADLOCK FALSE
